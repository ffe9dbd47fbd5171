------------------------- MODULE PartitionTimeRange -------------------------
(***************************************************************************)
(* The time range a partition key part stands for                         *)
(* (data_types/src/partition_template.rs: parse_part_time_format and      *)
(* parsed_implicit_defaults).  A strftime format is the sequence of its   *)
(* chrono items; a rendered key part is the sequence of the values its    *)
(* items render (a number per numeric item, the text of a literal), so   *)
(* chrono's parse reads back one value per item.  Timestamps are UTC      *)
(* date-times of a small calendar, compared field by field.  TimeRangeDecoding checks   *)
(* these operators; PartitionKey decodes keys with them.                  *)
(***************************************************************************)
EXTENDS Integers, Sequences, SequencesExt

(* The chrono items of the formats: %Y, %y, %m, %d, %H, %I, %M, %S, the   *)
(* literal "-", and %a (a Fixed item, the weekday name).                  *)
Items == {"Y", "y", "m", "d", "H", "I", "M", "S", "-", "a"}

NoValue == -1       \* a field of chrono's Parsed that is not set
Dropped == [dropped |-> TRUE]  \* an Option that is None
NoEnd == [unset |-> TRUE]       \* the end loop's end, still None

Leap(y) == (y % 4 = 0 /\ y % 100 # 0) \/ y % 400 = 0
DaysIn(y, m) ==
    CASE m = 2 -> IF Leap(y) THEN 29 ELSE 28
      [] m \in {4, 6, 9, 11} -> 30
      [] OTHER -> 31

(* Day of the week, 0 = Sunday (what %a renders). *)
WeekDay(y, m, d) ==
    LET off == <<0, 3, 2, 5, 0, 3, 5, 1, 4, 6, 2, 4>>
        yy == IF m < 3 THEN y - 1 ELSE y
    IN  (yy + yy \div 4 - yy \div 100 + yy \div 400 + off[m] + d) % 7

Earlier(a, b) ==
    \/ a.y < b.y
    \/ a.y = b.y /\ a.m < b.m
    \/ a.y = b.y /\ a.m = b.m /\ a.d < b.d
    \/ a.y = b.y /\ a.m = b.m /\ a.d = b.d /\ a.h < b.h

(* chrono's Months addition: the day is clamped to the target month. *)
AddMonths(t, k) ==
    LET n == t.m - 1 + k
        y == t.y + n \div 12
        m == (n % 12) + 1
    IN  [t EXCEPT !.y = y, !.m = m,
                  !.d = IF t.d <= DaysIn(y, m) THEN t.d ELSE DaysIn(y, m)]

AddDay(t) ==
    IF t.d < DaysIn(t.y, t.m) THEN [t EXCEPT !.d = t.d + 1]
    ELSE LET n == AddMonths(t, 1) IN [n EXCEPT !.d = 1]

(* Utc timestamp formatting: the value each item renders. *)
RenderItem(t, i) ==
    CASE i = "Y" -> t.y
      [] i = "y" -> t.y % 100
      [] i = "m" -> t.m
      [] i = "d" -> t.d
      [] i = "H" -> t.h
      [] i = "I" -> IF t.h % 12 = 0 THEN 12 ELSE t.h % 12
      [] i = "M" -> 0
      [] i = "S" -> 0
      [] i = "-" -> "-"
      [] i = "a" -> WeekDay(t.y, t.m, t.d)
Render(t, f) == [k \in 1 .. Len(f) |-> RenderItem(t, f[k])]

(* chrono::format::parse: each item reads its value into the Parsed      *)
(* fields it sets (%H sets both halves of the hour, %I only hour_mod_12);*)
(* setting a field twice to different values fails the parse.             *)
EmptyParsed ==
    [f \in {"year", "year_mod_100", "month", "day", "hour_div_12",
            "hour_mod_12", "minute", "second", "nanosecond", "weekday"}
       |-> NoValue]
Unset(p, x) == p[x] = NoValue
ItemSets(i, v) ==
    CASE i = "Y" -> "year" :> v
      [] i = "y" -> "year_mod_100" :> v
      [] i = "m" -> "month" :> v
      [] i = "d" -> "day" :> v
      [] i = "H" -> ("hour_div_12" :> v \div 12) @@ ("hour_mod_12" :> v % 12)
      [] i = "I" -> "hour_mod_12" :> v % 12
      [] i = "M" -> "minute" :> v
      [] i = "S" -> "second" :> v
      [] i = "a" -> "weekday" :> v
      [] OTHER -> <<>>
Parse(value, f) ==
    LET sets == [k \in 1 .. Len(f) |-> ItemSets(f[k], value[k])]
        fields == UNION {DOMAIN sets[k] : k \in 1 .. Len(f)}
        val(x) == sets[CHOOSE k \in 1 .. Len(f) : x \in DOMAIN sets[k]][x]
    IN  IF \E k, l \in 1 .. Len(f) :
             \E x \in DOMAIN sets[k] \cap DOMAIN sets[l] : sets[k][x] # sets[l][x]
          THEN Dropped
          ELSE [x \in DOMAIN EmptyParsed |->
                  IF x \in fields THEN val(x) ELSE EmptyParsed[x]]

(* A faulty parsed_implicit_defaults without the check that a parsed day *)
(* has a parsed month.                                                    *)
ParsedImplicitDefaultsNoMonthCheck(p) ==
    LET p1 == IF Unset(p, "month") THEN [p EXCEPT !.month = 1] ELSE p
        p2 == IF Unset(p1, "day") THEN [p1 EXCEPT !.day = 1] ELSE p1
        hourGap == Unset(p2, "hour_div_12") \/ Unset(p2, "hour_mod_12")
        p3 == IF hourGap THEN [p2 EXCEPT !.hour_div_12 = 0, !.hour_mod_12 = 0]
                         ELSE p2
        p4 == IF Unset(p3, "minute") THEN [p3 EXCEPT !.minute = 0] ELSE p3
    IN  CASE Unset(p, "year") -> Dropped
          [] Unset(p1, "day") /\ (~Unset(p1, "hour_div_12") \/ ~Unset(p1, "hour_mod_12"))
               -> Dropped
          [] hourGap /\ (~Unset(p2, "hour_div_12") \/ ~Unset(p2, "hour_mod_12"
                          ) \/ ~Unset(p2, "minute")) -> Dropped
          [] Unset(p3, "minute") /\ (~Unset(p3, "second") \/ ~Unset(p3, "nanosecond"))
               -> Dropped
          [] OTHER -> p4

(* parsed_implicit_defaults: fill the fields coarser than those parsed,  *)
(* refusing a finer field whose coarser neighbour is missing.            *)
ParsedImplicitDefaults(p) ==
    LET p1 == IF Unset(p, "month") THEN [p EXCEPT !.month = 1] ELSE p
        p2 == IF Unset(p1, "day") THEN [p1 EXCEPT !.day = 1] ELSE p1
        hourGap == Unset(p2, "hour_div_12") \/ Unset(p2, "hour_mod_12")
        p3 == IF hourGap THEN [p2 EXCEPT !.hour_div_12 = 0, !.hour_mod_12 = 0]
                         ELSE p2
        p4 == IF Unset(p3, "minute") THEN [p3 EXCEPT !.minute = 0] ELSE p3
    IN  CASE Unset(p, "year") -> Dropped
          [] Unset(p, "month") /\ ~Unset(p, "day") -> Dropped
          [] Unset(p1, "day") /\ (~Unset(p1, "hour_div_12") \/ ~Unset(p1, "hour_mod_12"))
               -> Dropped
          [] hourGap /\ (~Unset(p2, "hour_div_12") \/ ~Unset(p2, "hour_mod_12"
                          ) \/ ~Unset(p2, "minute")) -> Dropped
          [] Unset(p3, "minute") /\ (~Unset(p3, "second") \/ ~Unset(p3, "nanosecond"))
               -> Dropped
          [] OTHER -> p4

(* Parsed::to_datetime_with_timezone(&Utc): the fields must name one     *)
(* existing instant and agree with each other.                           *)
ToDatetime(p) ==
    LET t == [y |-> p.year, m |-> p.month, d |-> p.day,
              h |-> p.hour_div_12 * 12 + p.hour_mod_12]
    IN  IF \/ p.month \notin 1 .. 12
           \/ p.day \notin 1 .. DaysIn(p.year, p.month)
           \/ p.year_mod_100 # NoValue /\ p.year % 100 # p.year_mod_100
           \/ p.weekday # NoValue /\ p.weekday # WeekDay(p.year, p.month, p.day)
          THEN Dropped ELSE t

(* A faulty ItemEnd that gives up on literals as on Fixed items. *)
ItemEndLiteralUnsupported(begin, i) ==
    CASE i = "Y" -> AddMonths(begin, 12)
      [] i = "m" -> AddMonths(begin, 1)
      [] i = "d" -> AddDay(begin)
      [] OTHER   -> Dropped

(* The end loop of parse_part_time_format: %Y, %m and %d each propose    *)
(* begin + 12 months, + 1 month, + 1 day and the earliest is kept;       *)
(* literals propose nothing; any other numeric item or a Fixed item      *)
(* gives up on the whole part.                                            *)
ItemEnd(begin, i) ==
    CASE i = "Y" -> AddMonths(begin, 12)
      [] i = "m" -> AddMonths(begin, 1)
      [] i = "d" -> AddDay(begin)
      [] i = "-" -> NoEnd
      [] OTHER   -> Dropped

RECURSIVE EndLoop(_, _, _)
EndLoop(begin, f, end) ==
    IF f = <<>> THEN end
    ELSE LET e == ItemEnd(begin, Head(f)) IN
         CASE e = Dropped -> Dropped
           [] e = NoEnd -> EndLoop(begin, Tail(f), end)
           [] end = NoEnd \/ Earlier(e, end) -> EndLoop(begin, Tail(f), e)
           [] OTHER -> EndLoop(begin, Tail(f), end)

(* parse_part_time_format: the range [begin, end) of the key part, or    *)
(* Dropped when it is not a date range the decoder understands.          *)
ParseTimeFormat(value, f) ==
    LET p == Parse(value, f)
        q == IF p = Dropped THEN Dropped ELSE ParsedImplicitDefaults(p)
        begin == IF q = Dropped THEN Dropped ELSE ToDatetime(q)
        end == IF begin = Dropped THEN Dropped ELSE EndLoop(begin, f, NoEnd)
    IN  IF end \in {Dropped, NoEnd} THEN Dropped
        ELSE [begin |-> begin, end |-> end]

(* The formats the spec (section 4.4) decodes to a range: numeric fields *)
(* %Y, %m and %d only, a year, and a month if there is a day.            *)
DateFormat(f) ==
    LET used == {f[k] : k \in DOMAIN f} IN
    /\ "Y" \in used
    /\ used \subseteq {"Y", "m", "d", "-"}
    /\ "d" \in used => "m" \in used
=============================================================================
