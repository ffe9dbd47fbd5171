------------------------------ MODULE QueryLog ------------------------------
(***************************************************************************)
(* The query log of iox_query/src/query_log.rs: a ring buffer of          *)
(* QueryLogEntry records (QueryLog::push, the eviction loop) and the      *)
(* type-state QueryCompletedToken that drives each entry through its      *)
(* phases (planned, fail, permit, success, finish and Drop).              *)
(*                                                                         *)
(* Every query is driven by its own thread holding its token; all threads *)
(* share the log and the time provider.  Every atomic store of the code   *)
(* is one step, so a concurrent reader of QueryLog::entries() (which      *)
(* clones the Arc'd entries and reads their atomics without a lock) may   *)
(* observe any state of this model: the invariants below are what such a  *)
(* reader is guaranteed to see.                                           *)
(*                                                                         *)
(* A panic ("expect(valid state)") unwinds the token holder's thread: the *)
(* token is dropped, and Drop runs if the token still owns its entry.     *)
(***************************************************************************)
EXTENDS Integers, Sequences, SequencesExt, FiniteSets, TLC

LOCAL INSTANCE Graphs

CONSTANTS
    Queries,          \* the queries pushed into the log (model values)
    MaxSize,          \* QueryLog::max_size
    MaxTime,          \* bound of the time provider's clock
    ClockMayRegress,  \* may the time provider's clock go backwards?
    Plans,            \* the execution plans a query may be planned with
    Earlier           \* queries pushed and dropped before, oldest first

ASSUME /\ MaxSize \in Nat
       /\ Range(Earlier) \cap Queries = {}
       /\ Len(Earlier) <= MaxSize + 1
       /\ MaxTime \in Nat \ {0}
       /\ ClockMayRegress \in BOOLEAN
       /\ Plans # {}

VARIABLES
    now,       \* the shared TimeProvider's current time
    log,       \* QueryLog::log, the VecDeque of entries (by query)
    evicted,   \* QueryLog::evicted
    inserted,  \* history: every query ever appended to log, in order
    entry,     \* the QueryLogEntry of every pushed query
    pc,        \* where the thread holding query q's token is
    plan       \* the plan held by q's token state (StatePlanned, StatePermit)

(* The ring buffer: Insert, LogWindow, LogWithinMaxSize. *)
INSTANCE QueryLogBuffer

vars == <<now, log, evicted, entry, pc, inserted, plan>>

(* A faulty variant of PhaseIds whose Fail id is past from_id's table. *)
PhaseIdsFailSix == [Received |-> 0, Planned |-> 1, Permit |-> 2,
                    Cancel |-> 3, Success |-> 4, Fail |-> 6]

(* QueryPhase::id(), the u8 stored in QueryLogEntry::phase. *)
PhaseIds == [Received |-> 0, Planned |-> 1, Permit |-> 2,
             Cancel |-> 3, Success |-> 4, Fail |-> 5]

(* UNCOMPLETED_DURATION, the "not set" value of an AtomicDuration. *)
Unset == -1

Duration == {Unset} \cup 0 .. MaxTime

(* AtomicDuration::set_relative: store now - origin, or, when the clock  *)
(* went backwards (checked_duration_since is None), keep the old value.  *)
SetRelative(old, origin, t) == IF t >= origin THEN t - origin ELSE old

(* QueryLogEntry: issue_time, the AtomicDurations, the success and      *)
(* running flags and the phase byte (an AtomicU8).  id, the namespace,    *)
(* query type and text and the trace id are written once by push and     *)
(* told apart by no property, so they are left out.                       *)
Entry == [issue : 0 .. MaxTime, phase : 0 .. 255,
          plan : Duration, permit : Duration, execute : Duration,
          end2end : Duration, compute : {Unset} \cup Nat,
          success : BOOLEAN, running : BOOLEAN]

(* The value an AtomicDuration holds, 0 when it is not set. *)
Val(d) == IF d = Unset THEN 0 ELSE d

(* An ExecutionPlan, as the log sees it: a tree of nodes, each with its  *)
(* children() in order and its metrics(), an Option of a metrics set     *)
(* whose elapsed_compute() is an Option of nanoseconds; an Option is     *)
(* <<>> (None) or <<x>> (Some x).                                         *)
NoPlan == [root |-> "none"]

(* The node's own elapsed_compute, 0 when it has none. *)
OwnCompute(p, n) ==
    LET m == p.metrics[n] IN IF m # <<>> /\ m[1] # <<>> THEN m[1][1] ELSE 0

(* A faulty collect_compute_duration that returns as soon as a node has *)
(* no metrics, without visiting its children.                            *)
RECURSIVE CollectComputeDurationStopsAtNoMetrics(_, _), SumStops(_, _, _)
CollectComputeDurationStopsAtNoMetrics(p, n) ==
    IF p.metrics[n] = <<>> THEN 0
    ELSE OwnCompute(p, n) + SumStops(p, p.children[n], 0)
SumStops(p, cs, total) ==
    IF cs = <<>> THEN total
    ELSE SumStops(p, Tail(cs),
                  total + CollectComputeDurationStopsAtNoMetrics(p, Head(cs)))

(* collect_compute_duration: the node's own elapsed_compute, then, child *)
(* by child, the total of each child's subtree.                           *)
RECURSIVE CollectComputeDuration(_, _), SumChildren(_, _, _)
CollectComputeDuration(p, n) == OwnCompute(p, n) + SumChildren(p, p.children[n], 0)
SumChildren(p, cs, total) ==
    IF cs = <<>> THEN total
    ELSE SumChildren(p, Tail(cs), total + CollectComputeDuration(p, Head(cs)))

(* QueryLog::push builds the entry: issue_time = now, running, every     *)
(* duration unset, phase Received.                                        *)
NewEntry(t) == [issue |-> t, phase |-> PhaseIds.Received,
                plan |-> Unset, permit |-> Unset, execute |-> Unset,
                end2end |-> Unset, compute |-> Unset,
                success |-> FALSE, running |-> TRUE]

(* The entry of a query whose token was dropped in state Received at the *)
(* instant it was pushed: Drop cancels it, end2end_duration is 0 and     *)
(* running is cleared.                                                    *)
DroppedAtPush(t) == [NewEntry(t) EXCEPT !.phase = PhaseIds.Cancel,
                                        !.end2end = 0, !.running = FALSE]

(* The log as the earlier queries left it: each push appended its entry *)
(* (none is stored with max_size 0), and there were too few to evict.   *)
Init ==
    /\ now = 0
    /\ log = IF MaxSize = 0 THEN <<>> ELSE Earlier
    /\ evicted = 0
    /\ inserted = log
    /\ entry = [q \in Range(Earlier) |-> DroppedAtPush(0)]
    /\ pc = [q \in Queries |-> "idle"]
    /\ plan = [q \in Queries |-> NoPlan]

-----------------------------------------------------------------------------
(* Helpers for one token step: q's thread moves from pc "from" to "to". *)
At(q, from) == pc[q] = from
Goto(q, to) == pc' = [pc EXCEPT ![q] = to]
Store(q, f, v) == entry' = [entry EXCEPT ![q][f] = v]

(* QueryLog::push, first half: the entry is allocated and logged. *)
PushCreate(q) ==
    /\ At(q, "idle")
    /\ entry' = entry @@ (q :> NewEntry(now))
    /\ Goto(q, "pushing")
    /\ UNCHANGED <<now, log, evicted, inserted, plan>>

(* QueryLog::push, second half: the entry is stored in the ring buffer *)
(* and the token returned.                                               *)
PushInsert(q) ==
    /\ At(q, "pushing")
    /\ Insert(q)
    /\ Goto(q, "received")
    /\ UNCHANGED <<now, entry, plan>>

(* Received::planned and Received::fail both start with set_time:        *)
(* plan_duration = now - issue_time.                                      *)
SetPlanTime(q, to) ==
    /\ Store(q, "plan", SetRelative(entry[q].plan, entry[q].issue, now))
    /\ Goto(q, to)
    /\ UNCHANGED <<now, log, evicted, inserted, plan>>

(* A faulty variant of PlannedSetTime that forgets set_time. *)
PlannedSetTimeSkipped(q) ==
    /\ At(q, "received")
    /\ Goto(q, "planned_phase")
    /\ UNCHANGED <<now, log, evicted, inserted, plan, entry>>

PlannedSetTime(q) == At(q, "received") /\ SetPlanTime(q, "planned_phase")

(* Received::planned: the entry moves to phase Planned and the token,   *)
(* now in StatePlanned, holds the plan it was given.                      *)
PlannedPhase(q) ==
    /\ At(q, "planned_phase")
    /\ Store(q, "phase", PhaseIds.Planned)
    /\ Goto(q, "planned")
    /\ \E p \in Plans : plan' = [plan EXCEPT ![q] = p]
    /\ UNCHANGED <<now, log, evicted, inserted>>

FailSetTime(q) == At(q, "received") /\ SetPlanTime(q, "fail_phase")

(* A faulty variant of FailPhase whose fail takes the entry out of the *)
(* token, as planned does, so that Drop finds nothing to finalise.      *)
FailPhaseTakesEntry(q) ==
    /\ At(q, "fail_phase")
    /\ Store(q, "phase", PhaseIds.Fail)
    /\ Goto(q, "leaked")
    /\ UNCHANGED <<now, log, evicted, inserted, plan>>

(* Received::fail: phase Fail, then the consumed token is dropped. *)
FailPhase(q) ==
    /\ At(q, "fail_phase")
    /\ Store(q, "phase", PhaseIds.Fail)
    /\ Goto(q, "drop")
    /\ UNCHANGED <<now, log, evicted, inserted, plan>>

(* A faulty variant of PermitSetTime measuring the permit wait from the *)
(* issue time instead of from the end of planning.                      *)
PermitSetTimeFromIssue(q) ==
    /\ At(q, "planned")
    /\ IF entry[q].plan = Unset
         THEN /\ Goto(q, "leaked")
              /\ UNCHANGED entry
         ELSE /\ Store(q, "permit", SetRelative(entry[q].permit,
                                     entry[q].issue, now))
              /\ Goto(q, "permit_phase")
    /\ UNCHANGED <<now, log, evicted, inserted, plan>>

(* Planned::permit takes the entry out of the token, then reads          *)
(* plan_duration().expect(..): if set_time found the clock going         *)
(* backwards it is unset and the thread panics; the token no longer owns *)
(* the entry, so its Drop does nothing.  Otherwise permit_duration =      *)
(* now - (issue_time + plan_duration).                                   *)
PermitSetTime(q) ==
    /\ At(q, "planned")
    /\ IF entry[q].plan = Unset
         THEN /\ Goto(q, "leaked")
              /\ UNCHANGED entry
         ELSE /\ Store(q, "permit", SetRelative(entry[q].permit,
                                     entry[q].issue + entry[q].plan, now))
              /\ Goto(q, "permit_phase")
    /\ UNCHANGED <<now, log, evicted, inserted, plan>>

PermitPhase(q) ==
    /\ At(q, "permit_phase")
    /\ Store(q, "phase", PhaseIds.Permit)
    /\ Goto(q, "permit")
    /\ UNCHANGED <<now, log, evicted, inserted, plan>>

(* Permit::success stores success = true, then phase Success. *)
SuccessFlag(q) ==
    /\ At(q, "permit")
    /\ Store(q, "success", TRUE)
    /\ Goto(q, "success_phase")
    /\ UNCHANGED <<now, log, evicted, inserted, plan>>

SuccessPhase(q) ==
    /\ At(q, "success_phase")
    /\ Store(q, "phase", PhaseIds.Success)
    /\ Goto(q, "finish")
    /\ UNCHANGED <<now, log, evicted, inserted, plan>>

(* A faulty variant of ExecFail that forgets to store phase Fail. *)
ExecFailNoPhase(q) ==
    /\ At(q, "permit")
    /\ Goto(q, "finish")
    /\ UNCHANGED <<now, log, evicted, inserted, plan, entry>>

(* Permit::fail stores phase Fail, then calls finish. *)
ExecFail(q) ==
    /\ At(q, "permit")
    /\ Store(q, "phase", PhaseIds.Fail)
    /\ Goto(q, "finish")
    /\ UNCHANGED <<now, log, evicted, inserted, plan>>

(* finish: execute_duration = now - (issue + permit + plan); both        *)
(* durations are read with expect(..), so an unset one panics and the    *)
(* token, which still owns its entry, is dropped.                        *)
FinishExecute(q) ==
    /\ At(q, "finish")
    /\ IF entry[q].permit = Unset \/ entry[q].plan = Unset
         THEN /\ Goto(q, "drop")
              /\ UNCHANGED entry
         ELSE LET origin == entry[q].issue + entry[q].permit + entry[q].plan
              IN  /\ Store(q, "execute",
                           SetRelative(entry[q].execute, origin, now))
                  /\ Goto(q, "finish_compute")
    /\ UNCHANGED <<now, log, evicted, inserted, plan>>

(* collect_compute_time: compute_duration = collect_compute_duration of *)
(* the plan of the token's state; StateReceived holds none and returns.  *)
CollectComputeTime(q) ==
    IF plan[q] = NoPlan THEN UNCHANGED entry
    ELSE Store(q, "compute", CollectComputeDuration(plan[q], plan[q].root))

(* finish: collect_compute_time, then the consumed token is dropped. *)
FinishCompute(q) ==
    /\ At(q, "finish_compute")
    /\ CollectComputeTime(q)
    /\ Goto(q, "drop")
    /\ UNCHANGED <<now, log, evicted, inserted, plan>>

(* Faulty variants of DropCheck: one cancels whatever phase is not Fail *)
(* (no execute_duration test), one cancels whatever has no execute      *)
(* duration (no Fail test).                                              *)
DropCheckIgnoresExecute(q) ==
    /\ pc[q] \in {"received", "planned", "permit", "drop"}
    /\ IF entry[q].phase # PhaseIds.Fail
         THEN /\ Store(q, "phase", PhaseIds.Cancel)
              /\ Goto(q, IF entry[q].permit # Unset THEN "drop_compute"
                                                    ELSE "drop_end")
         ELSE /\ Goto(q, "drop_end")
              /\ UNCHANGED entry
    /\ UNCHANGED <<now, log, evicted, inserted, plan>>

DropCheckIgnoresFail(q) ==
    /\ pc[q] \in {"received", "planned", "permit", "drop"}
    /\ IF entry[q].execute = Unset
         THEN /\ Store(q, "phase", PhaseIds.Cancel)
              /\ Goto(q, IF entry[q].permit # Unset THEN "drop_compute"
                                                    ELSE "drop_end")
         ELSE /\ Goto(q, "drop_end")
              /\ UNCHANGED entry
    /\ UNCHANGED <<now, log, evicted, inserted, plan>>

(* A faulty variant of DropCheck that clears running first, before the  *)
(* compute and end2end statistics are stored.                            *)
DropCheckStopsFirst(q) ==
    /\ pc[q] \in {"received", "planned", "permit", "drop"}
    /\ IF entry[q].phase # PhaseIds.Fail /\ entry[q].execute = Unset
         THEN /\ entry' = [entry EXCEPT ![q].phase = PhaseIds.Cancel,
                                        ![q].running = FALSE]
              /\ Goto(q, IF entry[q].permit # Unset THEN "drop_compute"
                                                    ELSE "drop_end")
         ELSE /\ Store(q, "running", FALSE)
              /\ Goto(q, "drop_end")
    /\ UNCHANGED <<now, log, evicted, inserted, plan>>

(* Drop for QueryCompletedToken, when the token still owns its entry:    *)
(* unless the phase is Fail or execute_duration is set, the query counts *)
(* as cancelled; compute time is collected if a permit was recorded.     *)
(* The holder of a token in state Received, Planned or Permit may drop   *)
(* it at any time (the future running the query is dropped).             *)
DropCheck(q) ==
    /\ pc[q] \in {"received", "planned", "permit", "drop"}
    /\ IF entry[q].phase # PhaseIds.Fail /\ entry[q].execute = Unset
         THEN /\ Store(q, "phase", PhaseIds.Cancel)
              /\ Goto(q, IF entry[q].permit # Unset THEN "drop_compute"
                                                    ELSE "drop_end")
         ELSE /\ Goto(q, "drop_end")
              /\ UNCHANGED entry
    /\ UNCHANGED <<now, log, evicted, inserted, plan>>

(* Drop: partial compute statistics of a cancelled, permitted query. *)
DropCompute(q) ==
    /\ At(q, "drop_compute")
    /\ CollectComputeTime(q)
    /\ Goto(q, "drop_end")
    /\ UNCHANGED <<now, log, evicted, inserted, plan>>

(* Drop: end2end_duration = now - issue_time. *)
DropEnd(q) ==
    /\ At(q, "drop_end")
    /\ Store(q, "end2end", SetRelative(entry[q].end2end, entry[q].issue, now))
    /\ Goto(q, "drop_running")
    /\ UNCHANGED <<now, log, evicted, inserted, plan>>

(* Drop: running = false, then the entry is logged. *)
DropRunning(q) ==
    /\ At(q, "drop_running")
    /\ Store(q, "running", FALSE)
    /\ Goto(q, "done")
    /\ UNCHANGED <<now, log, evicted, inserted, plan>>

(* The time provider advances; a wall clock may also step backwards. *)
Tick ==
    /\ now < MaxTime
    /\ now' = now + 1
    /\ UNCHANGED <<log, evicted, entry, pc, inserted, plan>>

Regress ==
    /\ ClockMayRegress
    /\ now > 0
    /\ now' = now - 1
    /\ UNCHANGED <<log, evicted, entry, pc, inserted, plan>>

-----------------------------------------------------------------------------
(* Every step of the thread holding q's token, once q is pushed. *)
TokenStep(q) ==
    \/ PushInsert(q)
    \/ PlannedSetTime(q) \/ PlannedPhase(q)
    \/ FailSetTime(q) \/ FailPhase(q)
    \/ PermitSetTime(q) \/ PermitPhase(q)
    \/ SuccessFlag(q) \/ SuccessPhase(q) \/ ExecFail(q)
    \/ FinishExecute(q) \/ FinishCompute(q)
    \/ DropCheck(q) \/ DropCompute(q) \/ DropEnd(q) \/ DropRunning(q)

Next ==
    \/ \E q \in Queries : PushCreate(q) \/ TokenStep(q)
    \/ Tick
    \/ Regress

(* A thread that holds a token keeps running until it drops the token:   *)
(* Rust ends every scope, so each token step is weakly fair.  Clients    *)
(* need not send queries, so PushCreate is not fair.                      *)
Spec == Init /\ [][Next]_vars /\ \A q \in Queries : WF_vars(TokenStep(q))

-----------------------------------------------------------------------------
(* The abstract phase of an entry: QueryPhase::from_id. *)
PhaseName(id) == CHOOSE n \in DOMAIN PhaseIds : PhaseIds[n] = id

Terminal == {PhaseIds.Cancel, PhaseIds.Success, PhaseIds.Fail}

(* AtomicDuration::get as a reader sees it: None (<<>>) or Some(d). *)
Get(d) == IF d = Unset THEN <<>> ELSE <<d>>

(* The accessors of QueryLogEntry: phase() decodes the byte, the         *)
(* durations are read through get(), cancelled() is phase() = Cancel.   *)
Read(e) == [phase |-> PhaseName(e.phase), plan |-> Get(e.plan),
            permit |-> Get(e.permit), execute |-> Get(e.execute),
            end2end |-> Get(e.end2end), compute |-> Get(e.compute),
            success |-> e.success, running |-> e.running,
            cancelled |-> e.phase = PhaseIds.Cancel]

(* QueryLogEntries: the entries, max_size and the evicted count. *)
QueryLogEntries(es, ev) == [entries |-> es, max_size |-> MaxSize, evicted |-> ev]

(* QueryLog::entries: under the log's lock, a clone of the deque (the    *)
(* entries are shared, so their atomics are read later, as they are     *)
(* then) and the evicted counter.                                         *)
Entries == QueryLogEntries([i \in DOMAIN log |-> entry[log[i]]], evicted)

(* What a reader of entries() reads of each entry, through the accessors. *)
ReaderView == {Read(Entries.entries[i]) : i \in DOMAIN Entries.entries}

(* Every phase stored is one QueryPhase::from_id can decode (any other   *)
(* u8 reaches its unreachable!()), and every duration is unset or a time *)
(* span of the clock.                                                     *)
TypeOK ==
    /\ now \in 0 .. MaxTime
    /\ log \in Seq(Queries \cup Range(Earlier))
    /\ evicted \in Nat
    /\ DOMAIN entry \subseteq Queries \cup Range(Earlier)
    /\ \A q \in DOMAIN entry : entry[q] \in Entry /\ entry[q].phase \in 0 .. 5

(* A query whose success flag is set never ends up cancelled or failed:  *)
(* Drop after Permit::success must leave the Success phase alone.        *)
SuccessIsFinal ==
    \A q \in DOMAIN entry :
        entry[q].success => entry[q].phase \in {PhaseIds.Permit, PhaseIds.Success}

(* The phase durations partition the time since issue: plan, permit and *)
(* execute together never exceed the time elapsed so far, nor the       *)
(* end2end duration recorded by Drop.                                    *)
DurationsConsistent ==
    \A q \in DOMAIN entry :
        LET e == entry[q]
            parts == Val(e.plan) + Val(e.permit) + Val(e.execute)
        IN  /\ e.issue + parts <= now
            /\ e.end2end # Unset => parts <= e.end2end

(* What a reader of QueryLog::entries() may rely on, reading an entry    *)
(* through its accessors: the durations stored before the phase (SeqCst) *)
(* are published with it, and a stopped entry has its end2end duration.  *)
PublishedBeforePhase ==
    \A v \in ReaderView :
        /\ v.phase \notin {"Received", "Cancel"} => v.plan # <<>>
        /\ v.phase \in {"Permit", "Success"} => v.permit # <<>>
        /\ ~v.running => v.end2end # <<>>

(* The plan's compute time by the spec's reading (its section 4.6): the  *)
(* elapsed_compute of every node of the tree, each counted once.         *)
PlanGraph(p) == [node |-> DOMAIN p.children,
                 edge |-> UNION {{<<n, c>> : c \in Range(p.children[n])} :
                                   n \in DOMAIN p.children}]
PlanTotal == [p \in Plans |->
                MapThenSumSet(LAMBDA n : OwnCompute(p, n),
                              {p.root} \cup Descendants(PlanGraph(p), p.root))]

(* compute_duration is recorded exactly for the queries that got a       *)
(* permit, and is their whole plan's: finish, or Drop of a cancelled     *)
(* query that had a permit, stores collect_compute_duration of the plan  *)
(* the token state carries, and that walk reaches every node of the      *)
(* tree, below nodes without metrics too.                                 *)
ComputeIsPlanTotal ==
    \A q \in DOMAIN entry :
        /\ entry[q].compute # Unset =>
              /\ entry[q].permit # Unset
              /\ entry[q].compute = PlanTotal[plan[q]]
        /\ ~entry[q].running /\ entry[q].permit # Unset =>
              entry[q].compute # Unset

(* The spec's reading guarantee (its section 5): a reader of entries()   *)
(* that sees a terminal phase also sees the end2end duration stored in   *)
(* the transition into it.                                                *)
PhaseImpliesAllDurations ==
    \A v \in ReaderView :
        v.phase \in {"Cancel", "Success", "Fail"} => v.end2end # <<>>

(* Whatever the clock does, a query that has stopped running has ended: *)
(* Drop, the only writer of running = false, leaves Received, Planned    *)
(* and Permit behind (as Cancel) unless fail or finish already ended it. *)
StoppedHasEnded ==
    \A q \in DOMAIN entry : ~entry[q].running => entry[q].phase \in Terminal

(* Once Drop has cleared running, no thread writes the entry again: a    *)
(* reader that sees running = false sees the entry's final values.       *)
StoppedEntryFrozen ==
    [][\A q \in DOMAIN entry : ~entry[q].running => entry'[q] = entry[q]]_vars

(* Every pushed query eventually stops running, whatever its thread does. *)
EventuallyFinished ==
    \A q \in Queries : (q \in DOMAIN entry) ~> (q \in DOMAIN entry /\ ~entry[q].running)

(* The entries refine the phase diagram of QueryPhase. *)
Lifecycle == INSTANCE QueryLifecycle WITH
    phase <- [q \in Queries |-> IF q \in DOMAIN entry
                                  THEN PhaseName(entry[q].phase) ELSE "None"],
    running <- [q \in Queries |-> q \in DOMAIN entry /\ entry[q].running]

LifecycleRefined == Lifecycle!Spec
=============================================================================
