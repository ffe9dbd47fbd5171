----------------------- MODULE MCTimeRangeDecoding ------------------------
(* A calendar for TLC: the first, late and last days of January, February *)
(* and December of a common and a leap year, at midnight and after noon.  *)
EXTENDS TimeRangeDecoding

MCTimestamps ==
    {t \in [y : {2023, 2024}, m : {1, 2, 12}, d : {1, 28, 29, 31}, h : {0, 13}] :
        t.d <= DaysIn(t.y, t.m)}
=============================================================================
