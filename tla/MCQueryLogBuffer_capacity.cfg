\* The documented bound of QueryLog::new: at most max_size entries.
CONSTANTS
    Queries = {q1, q2, q3, q4, q5}
    MaxSize = 2

SPECIFICATION BufSpec

CHECK_DEADLOCK FALSE

INVARIANT LogWithinMaxSize
