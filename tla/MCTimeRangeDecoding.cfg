\* Every format of up to three chrono items over a calendar that has month
\* ends, a leap day and a year end.
CONSTANTS
    Timestamps <- MCTimestamps
    MaxItems = 3

SPECIFICATION Spec

\* The format has MaxItems items; rows keep being written, so the model
\* never stops, but the check says so explicitly.
CHECK_DEADLOCK FALSE

INVARIANT TimeRangeExact
INVARIANT TimeRangeDecoded
