--------------------------- MODULE QueryLifecycle ---------------------------
(***************************************************************************)
(* What a QueryLogEntry promises to its readers, as drawn in the doc       *)
(* comment of QueryPhase (iox_query/src/query_log.rs): a query is received,*)
(* may be planned and granted a permit, and ends exactly once in cancel,   *)
(* success or fail; it stops running only after it has ended, and an      *)
(* ended query never changes phase again.  Each transition is one atomic  *)
(* step here.                                                             *)
(***************************************************************************)
CONSTANT Queries

VARIABLES phase, running

Phases == {"None", "Received", "Planned", "Permit", "Cancel", "Success", "Fail"}

Ended == {"Cancel", "Success", "Fail"}

(* The arrows of the QueryPhase diagram. *)
Arrows == {<<"Received", "Planned">>, <<"Received", "Fail">>,
           <<"Received", "Cancel">>, <<"Planned", "Permit">>,
           <<"Planned", "Cancel">>, <<"Permit", "Success">>,
           <<"Permit", "Fail">>, <<"Permit", "Cancel">>}

Init ==
    /\ phase = [q \in Queries |-> "None"]
    /\ running = [q \in Queries |-> FALSE]

Receive(q) ==
    /\ phase[q] = "None"
    /\ phase' = [phase EXCEPT ![q] = "Received"]
    /\ running' = [running EXCEPT ![q] = TRUE]

Move(q) ==
    /\ \E to \in Phases : /\ <<phase[q], to>> \in Arrows
                          /\ phase' = [phase EXCEPT ![q] = to]
    /\ UNCHANGED running

Finish(q) ==
    /\ running[q]
    /\ phase[q] \in Ended
    /\ running' = [running EXCEPT ![q] = FALSE]
    /\ UNCHANGED phase

Next == \E q \in Queries : Receive(q) \/ Move(q) \/ Finish(q)

Spec == Init /\ [][Next]_<<phase, running>>
=============================================================================
