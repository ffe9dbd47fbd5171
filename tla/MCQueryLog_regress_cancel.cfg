\* A wall clock that steps back between permit and success.
CONSTANTS
    Queries = {q1, q2}
    MaxSize = 1
    MaxTime = 2
    ClockMayRegress = TRUE
    Plans <- MCPlans
    Earlier <- MCNoEarlier
    e0 = e0

SPECIFICATION Spec

\* Both queries finish and the clock reaches its bound: the model stops.
CHECK_DEADLOCK FALSE

INVARIANT SuccessIsFinal
