\* Two queries on a wall clock that may step backwards: what a reader can
\* still rely on when set_relative skips stores and expect(..) panics.
CONSTANTS
    Queries = {q1, q2}
    MaxSize = 1
    MaxTime = 2
    ClockMayRegress = TRUE
    Plans <- MCPlans
    Earlier <- MCNoEarlier
    e0 = e0

SPECIFICATION Spec

\* Both queries finish (or leak) and the clock has nowhere to go: the
\* bounded model stops.
CHECK_DEADLOCK FALSE

INVARIANT StoppedHasEnded
PROPERTY StoppedEntryFrozen
