------------------------------ MODULE PanicHook ------------------------------
(***************************************************************************)
(* The panic hook guard of panic_logging/src/lib.rs.                       *)
(*                                                                         *)
(* std keeps one process-wide panic hook; take_hook and set_hook each     *)
(* take its lock once, so a call that does both can interleave with       *)
(* another thread's.  SendPanicsToTracing::new_inner moves the current    *)
(* hook into an Arc, keeps one reference in the guard and captures the    *)
(* other in the tracing closure it installs.  Dropping the guard installs *)
(* a dummy hook (dropping whatever hook was installed) and, if that left  *)
(* the Arc with one reference, reinstalls the hook it holds.             *)
(* make_panics_fatal wraps the current hook in one that exits.            *)
(*                                                                         *)
(* Each guard is built and dropped by its own thread; other threads may   *)
(* panic at any time.  A hook is a value: the default, the dummy, guard   *)
(* g's tracing closure (which reaches cell[g] through g's Arc), or the    *)
(* fatal closure around the hook it took.                                 *)
(***************************************************************************)
EXTENDS Naturals, FiniteSets

CONSTANTS
    Guards,         \* the guards, each on its own thread
    MetricGuards,   \* those built by new_with_metrics (the others by new)
    DefaultGuards,  \* those built by the derived Default (no hook held)
    Messages,       \* panic payloads (a model value for a non-string one)
    FatalCalls,     \* how many times make_panics_fatal is called
    MaxPanics       \* bound on the number of panics

ASSUME MetricGuards \cup DefaultGuards \subseteq Guards

DefaultHook == [kind |-> "default"]
DummyHook == [kind |-> "dummy"]
TracingHook(g) == [kind |-> "tracing", g |-> g]
FatalHook(h) == [kind |-> "fatal", inner |-> h]

(* PanicType::classify on message(info). *)
Classify(m) == IF m \in {"offset overflow", "offset"} THEN "OffsetOverflow"
                                                      ELSE "Unknown"
PanicTypes == {"Unknown", "OffsetOverflow"}

(* Metrics::new: thread_panic_count, one counter per PanicType::all().   *)
(* The registry hands every guard built with it the same counters.       *)
MetricsNew == [t \in PanicTypes |-> 0]

(* Metrics::inc, once per tracing closure with metrics the panic passed *)
(* through: the counter of the panic's type ("all types covered").       *)
Inc(c, t, n) == [c EXCEPT ![t] = @ + n]

NoPanic == [none |-> TRUE]

VARIABLES
    hook,     \* the installed panic hook
    cell,     \* cell[g]: the hook in guard g's Arc (current_panic_hook)
    refs,     \* refs[g]: the strong count of that Arc
    held,     \* held[g]: the guard's old_panic_hook is Some
    pc,       \* pc[g]: where guard g's thread is
    fpc,      \* where make_panics_fatal is
    ftaken,   \* the hook make_panics_fatal took
    fcalls,   \* completed make_panics_fatal calls
    counts,   \* thread_panic_count per panic type
    panics,   \* panics so far
    last,     \* what the last panic's hook call did
    exited    \* the fatal hook exited the process

vars == <<hook, cell, refs, held, pc, fpc, ftaken, fcalls, counts, panics,
          last, exited>>

(* Dropping a hook releases the Arcs it captures; an Arc whose count     *)
(* reaches zero drops the hook it holds in turn.                          *)
RECURSIVE Release(_, _), ReleaseArc(_, _)
ReleaseArc(g, r) ==
    LET r1 == [r EXCEPT ![g] = @ - 1]
    IN  IF r1[g] = 0 THEN Release(cell[g], r1) ELSE r1
Release(h, r) ==
    CASE h.kind = "tracing" -> ReleaseArc(h.g, r)
      [] h.kind = "fatal"   -> Release(h.inner, r)
      [] OTHER              -> r

(* Calling a hook: each tracing closure logs (and counts, if it has      *)
(* metrics) before calling the hook it captured; the fatal closure calls *)
(* the hook it took, then exits; the default hook prints the panic.      *)
RECURSIVE Invoke(_)
Invoke(h) ==
    CASE h.kind = "default" ->
            [logged |-> {}, printed |-> TRUE, dummy |-> FALSE, exit |-> FALSE]
      [] h.kind = "dummy" ->
            [logged |-> {}, printed |-> FALSE, dummy |-> TRUE, exit |-> FALSE]
      [] h.kind = "tracing" ->
            LET r == Invoke(cell[h.g]) IN [r EXCEPT !.logged = @ \cup {h.g}]
      [] h.kind = "fatal" -> [Invoke(h.inner) EXCEPT !.exit = TRUE]

Init ==
    /\ hook = DefaultHook
    /\ cell = [g \in Guards |-> DefaultHook]
    /\ refs = [g \in Guards |-> 0]
    /\ held = [g \in Guards |-> FALSE]
    /\ pc = [g \in Guards |-> "idle"]
    /\ fpc = "idle"
    /\ ftaken = DefaultHook
    /\ fcalls = 0
    /\ counts = MetricsNew
    /\ panics = 0
    /\ last = NoPanic
    /\ exited = FALSE

Running == ~exited

(* new_inner, first statement: take_hook (the default takes its place)  *)
(* into a new Arc, cloned into old_panic_hook: two references.           *)
NewTake(g) ==
    /\ Running /\ pc[g] = "idle" /\ g \notin DefaultGuards
    /\ cell' = [cell EXCEPT ![g] = hook]
    /\ refs' = [refs EXCEPT ![g] = 2]
    /\ held' = [held EXCEPT ![g] = TRUE]
    /\ hook' = DefaultHook
    /\ pc' = [pc EXCEPT ![g] = "took"]
    /\ UNCHANGED <<fpc, ftaken, fcalls, counts, panics, last, exited>>

(* new_inner, set_hook: installs the tracing closure and drops whatever  *)
(* hook is installed now.                                                 *)
NewSet(g) ==
    /\ Running /\ pc[g] = "took"
    /\ refs' = Release(hook, refs)
    /\ hook' = TracingHook(g)
    /\ pc' = [pc EXCEPT ![g] = "live"]
    /\ UNCHANGED <<cell, held, fpc, ftaken, fcalls, counts, panics, last, exited>>

(* #[derive(Default)]: a guard that installs nothing and holds None. *)
NewDefault(g) ==
    /\ Running /\ pc[g] = "idle" /\ g \in DefaultGuards
    /\ pc' = [pc EXCEPT ![g] = "live"]
    /\ UNCHANGED <<hook, cell, refs, held, fpc, ftaken, fcalls, counts, panics,
                   last, exited>>

(* Drop, not panicking, with the hook held: take it and install the      *)
(* dummy hook, dropping the installed one.                                *)
DropDummy(g) ==
    /\ Running /\ pc[g] = "live" /\ held[g]
    /\ refs' = Release(hook, refs)
    /\ hook' = DummyHook
    /\ held' = [held EXCEPT ![g] = FALSE]
    /\ pc' = [pc EXCEPT ![g] = "dummy"]
    /\ UNCHANGED <<cell, fpc, ftaken, fcalls, counts, panics, last, exited>>

(* Drop, second half: Arc::try_unwrap succeeds only on the last          *)
(* reference, and set_hook then reinstalls the old hook; otherwise the   *)
(* Arc is dropped and the dummy hook stays.                               *)
DropRestore(g) ==
    /\ Running /\ pc[g] = "dummy"
    /\ IF refs[g] = 1
         THEN /\ hook' = cell[g]
              /\ refs' = Release(hook, [refs EXCEPT ![g] = 0])
         ELSE /\ refs' = ReleaseArc(g, refs)
              /\ UNCHANGED hook
    /\ pc' = [pc EXCEPT ![g] = "dropped"]
    /\ UNCHANGED <<cell, held, fpc, ftaken, fcalls, counts, panics, last, exited>>

(* Drop with old_panic_hook None ("shouldn't happen"): only a warning. *)
DropNone(g) ==
    /\ Running /\ pc[g] = "live" /\ ~held[g]
    /\ pc' = [pc EXCEPT ![g] = "dropped"]
    /\ UNCHANGED <<hook, cell, refs, held, fpc, ftaken, fcalls, counts, panics,
                   last, exited>>

(* Drop while the guard's thread unwinds: return early; the guard's      *)
(* fields are dropped, releasing its Arc reference.                       *)
DropUnwinding(g) ==
    /\ Running /\ pc[g] = "unwinding"
    /\ refs' = IF held[g] THEN ReleaseArc(g, refs) ELSE refs
    /\ held' = [held EXCEPT ![g] = FALSE]
    /\ pc' = [pc EXCEPT ![g] = "dropped"]
    /\ UNCHANGED <<hook, cell, fpc, ftaken, fcalls, counts, panics, last, exited>>

(* make_panics_fatal: take_hook, then set_hook of the exiting closure.  *)
FatalTake ==
    /\ Running /\ fpc = "idle" /\ fcalls < FatalCalls
    /\ ftaken' = hook
    /\ hook' = DefaultHook
    /\ fpc' = "took"
    /\ UNCHANGED <<cell, refs, held, pc, fcalls, counts, panics, last, exited>>

FatalSet ==
    /\ Running /\ fpc = "took"
    /\ refs' = Release(hook, refs)
    /\ hook' = FatalHook(ftaken)
    /\ fpc' = "idle"
    /\ fcalls' = fcalls + 1
    /\ UNCHANGED <<cell, held, pc, ftaken, counts, panics, last, exited>>

Quiet == \A g \in Guards : pc[g] \in {"idle", "live", "dropped"}

(* A thread panics: the installed hook is called with the payload.  When *)
(* the thread is a live guard's, it then unwinds through the guard.      *)
Panic(t, m) ==
    LET r == Invoke(hook) IN
    /\ Running /\ panics < MaxPanics
    /\ IF t = "worker" THEN TRUE ELSE pc[t] = "live"
    /\ counts' = Inc(counts, Classify(m), Cardinality(r.logged \cap MetricGuards))
    /\ last' = [logged |-> r.logged, dummy |-> r.dummy, exit |-> r.exit,
                 live |-> {g \in Guards : pc[g] = "live" /\ held[g]},
                 quiet |-> Quiet /\ fpc = "idle", fatal |-> fcalls > 0]
    /\ exited' = r.exit
    /\ panics' = panics + 1
    /\ pc' = IF t = "worker" THEN pc ELSE [pc EXCEPT ![t] = "unwinding"]
    /\ UNCHANGED <<hook, cell, refs, held, fpc, ftaken, fcalls>>

Next ==
    \/ \E g \in Guards :
          \/ NewTake(g) \/ NewSet(g) \/ NewDefault(g)
          \/ DropDummy(g) \/ DropRestore(g) \/ DropNone(g) \/ DropUnwinding(g)
    \/ FatalTake \/ FatalSet
    \/ \E t \in Guards \cup {"worker"}, m \in Messages : Panic(t, m)

Spec == Init /\ [][Next]_vars

-----------------------------------------------------------------------------
=============================================================================
