------------------------- MODULE TimeRangeDecoding -------------------------
(***************************************************************************)
(* parse_part_time_format (data_types/src/partition_template.rs) on the   *)
(* key parts a writer renders: every format of up to MaxItems chrono      *)
(* items, every timestamp of a small calendar.                            *)
(***************************************************************************)
EXTENDS PartitionTimeRange

CONSTANTS
    Timestamps,  \* the UTC date-times rows may carry
    MaxItems     \* the longest format the harness composes

(* A writer renders a row's timestamp through a template's format into a *)
(* key part; a reader decodes that key part with the same format.  The   *)
(* format is composed one item at a time, and the row's timestamp may be *)
(* any of Timestamps.                                                     *)
VARIABLES fmt, ts

vars == <<fmt, ts>>

Init == fmt = <<>> /\ ts \in Timestamps

ComposeFormat ==
    /\ Len(fmt) < MaxItems
    /\ \E i \in Items : fmt' = Append(fmt, i)
    /\ UNCHANGED ts

WriteRow == \E t \in Timestamps : ts' = t /\ UNCHANGED fmt

Next == ComposeFormat \/ WriteRow

Spec == Init /\ [][Next]_vars

InRange(t, r) == ~Earlier(t, r.begin) /\ Earlier(t, r.end)

(* The key part the writer produced, and what the reader decodes. *)
Key == Render(ts, fmt)
Decoded == ParseTimeFormat(Key, fmt)

(* A decoded range is exact: a timestamp lies in [begin, end) if and only *)
(* if it renders to the same key part, so a predicate pushed down on the  *)
(* range neither misses a row of the partition nor claims one of another. *)
TimeRangeExact ==
    Decoded # Dropped =>
        \A t \in Timestamps : InRange(t, Decoded) <=> Render(t, fmt) = Key

(* The spec's rule (section 4.4): the decoder yields a range exactly for  *)
(* formats whose numeric fields are %Y, %m and %d with the coarser ones   *)
(* present, and drops the part for any other numeric or Fixed field.      *)
TimeRangeDecoded == Decoded # Dropped <=> DateFormat(fmt)
=============================================================================
