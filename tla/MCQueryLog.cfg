\* Two queries on a monotonic clock: the phase machine, the durations and
\* the ring buffer under every interleaving of the two token holders.  The
\* log starts with the entry of an earlier query, which the second push
\* evicts, leaving the two queries in the order they took the lock.
CONSTANTS
    Queries = {q1, q2}
    MaxSize = 1
    MaxTime = 2
    ClockMayRegress = FALSE
    Plans <- MCPlans
    Earlier <- MCEarlier
    e0 = e0

SPECIFICATION Spec

\* Both queries finish and the clock reaches its bound: the model stops.
CHECK_DEADLOCK FALSE

INVARIANT TypeOK
INVARIANT SuccessIsFinal
INVARIANT DurationsConsistent
INVARIANT PublishedBeforePhase
INVARIANT ComputeIsPlanTotal
INVARIANT LogWindow
PROPERTY LifecycleRefined
PROPERTY EventuallyFinished
