--------------------------- MODULE QueryLogBuffer ---------------------------
(***************************************************************************)
(* The ring buffer of QueryLog (iox_query/src/query_log.rs): the          *)
(* VecDeque behind QueryLog::log, the evicted counter, and the locked     *)
(* part of QueryLog::push that enforces max_size and appends the entry.   *)
(* Entries are abstracted to the query they record; QueryLog composes     *)
(* this module with the entries themselves.                               *)
(***************************************************************************)
EXTENDS Integers, Sequences, SequencesExt

CONSTANTS Queries, MaxSize

ASSUME MaxSize \in Nat

VARIABLES
    log,       \* QueryLog::log (by query)
    evicted,   \* QueryLog::evicted
    inserted   \* history: every query ever appended to log, in order

bufvars == <<log, evicted, inserted>>

BufInit ==
    /\ log = <<>>
    /\ evicted = 0
    /\ inserted = <<>>

(* A faulty variant of EnforceLimit that pops from the back of the deque. *)
EnforceLimitPopBack(l) ==
    IF Len(l) > MaxSize THEN SubSeq(l, 1, MaxSize) ELSE l

(* The enforce-limit loop of push: pop_front while len > max_size. *)
EnforceLimit(l) ==
    IF Len(l) > MaxSize THEN SubSeq(l, Len(l) - MaxSize + 1, Len(l)) ELSE l

(* QueryLog::push after the entry is built: with max_size 0 it returns   *)
(* the token without storing the entry; otherwise, under the lock, it    *)
(* evicts from the front while the log is longer than max_size, counting *)
(* each eviction, then appends the new entry.                            *)
Insert(q) ==
    IF MaxSize = 0
      THEN UNCHANGED bufvars
      ELSE LET kept == EnforceLimit(log)
           IN  /\ log' = Append(kept, q)
               /\ evicted' = evicted + (Len(log) - Len(kept))
               /\ inserted' = Append(inserted, q)

(* Each query is pushed once; pushes of distinct queries may come in any *)
(* order.                                                                  *)
BufNext == \E q \in Queries : ~Contains(inserted, q) /\ Insert(q)

BufSpec == BufInit /\ [][BufNext]_bufvars

-----------------------------------------------------------------------------
(* push keeps the most recent entries in FIFO order and accounts for     *)
(* each one it evicts: the log is a suffix of the entries ever appended, *)
(* in the order their pushes took the lock, and evicted counts exactly   *)
(* the entries before it.  How long the suffix is, is LogWithinMaxSize's *)
(* question.                                                              *)
LogWindow ==
    /\ IsSuffix(log, inserted)
    /\ evicted + Len(log) = Len(inserted)

(* The doc comment of QueryLog::new: the log holds at most max_size      *)
(* items; adding item max_size + 1 evicts item 0.                        *)
LogWithinMaxSize == Len(log) <= MaxSize
=============================================================================
