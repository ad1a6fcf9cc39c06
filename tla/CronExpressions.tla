-------------------------- MODULE CronExpressions --------------------------
(***************************************************************************)
(* Cron expressions: the values that the five fields stand for and the     *)
(* search for the first slot after an instant, on the calendar of UTC.     *)
(*                                                                         *)
(* An instant is a number of minutes since 1 March 2000.  A field is a set *)
(* of tokens [base, step]: the base <<>> is "*", <<a, b>> is "a-b", and    *)
(* <<a, a>> is "a".                                                        *)
(***************************************************************************)
EXTENDS Integers, FiniteSets

CONSTANTS
  Expressions,  \* expressions that are tried
  Starts,       \* instants from which a schedule is followed
  MaxSlots,     \* bound: slots that are computed one after the other
  Error         \* an Error is thrown

VARIABLES
  expr, from,
  slot,   \* what computeNextCronFireTime gave for from, or from itself at first
  count

vars == <<expr, from, slot, count>>
-----------------------------------------------------------------------------
(* The calendar, which is that of Date.  A year begins with March here.    *)
Least(S) == CHOOSE x \in S : \A y \in S : x <= y

DaysInMonth(y, m) ==
  CASE m \in {4, 6, 9, 11} -> 30
    [] m = 2 -> IF y % 4 = 0 /\ (y % 100 # 0 \/ y % 400 = 0) THEN 29 ELSE 28
    [] OTHER -> 31

DayNumber(y, m, d) ==
  LET year == (IF m < 3 THEN y - 1 ELSE y) - 2000
      month == (m + 9) % 12
  IN 365 * year + (year \div 4) - (year \div 100) + (year \div 400) + ((153 * month + 2) \div 5) + d - 1

(* 1 March 2000 was a Wednesday. *)
Weekday(day) == (day + 3) % 7

DateUTC(y, m, d, hour, minute) == (DayNumber(y, m, d) * 24 + hour) * 60 + minute

YearOf(day) == Least({y \in {(day \div 366) + 2000 + i : i \in 0 .. 2} : day < DayNumber(y + 1, 1, 1)})
CivilOf(t) ==
  LET day == t \div 1440
      y == YearOf(day)
      m == Least({i \in 1 .. 12 : i = 12 \/ day < DayNumber(y, i + 1, 1)})
  IN [year |-> y, month |-> m, day |-> day - DayNumber(y, m, 1) + 1,
      hour |-> (t % 1440) \div 60, minute |-> t % 60]
-----------------------------------------------------------------------------
(* Parsing.  Sunday may be given as 7. *)
Fields == {"minute", "hour", "dayOfMonth", "month", "dayOfWeek"}
Minimum == [minute |-> 0, hour |-> 0, dayOfMonth |-> 1, month |-> 1, dayOfWeek |-> 0]
Maximum == [minute |-> 59, hour |-> 23, dayOfMonth |-> 31, month |-> 12, dayOfWeek |-> 6]
MaxInput == [Maximum EXCEPT !.dayOfWeek = 7]

Star(token) == token.base = <<>>
ParseCronRange(f, token) == IF Star(token) THEN <<Minimum[f], MaxInput[f]>> ELSE token.base

Wrong(f, token) ==
  \/ token.step < 1
  \/ ~Star(token) /\ ~(Minimum[f] <= token.base[1] /\ token.base[1] <= token.base[2] /\ token.base[2] <= MaxInput[f])

NormalizeCronValue(f, v) == IF f = "dayOfWeek" /\ v = 7 THEN 0 ELSE v

(* A bug: a step counts from the minimum of the field, not from the start of the range. *)
StepsFromMinimum(f, token) ==
  LET range == ParseCronRange(f, token)
  IN {NormalizeCronValue(f, v) : v \in {v \in range[1] .. range[2] : (v - Minimum[f]) % token.step = 0}}

TokenValues(f, token) ==
  LET range == ParseCronRange(f, token)
  IN {NormalizeCronValue(f, v) : v \in {v \in range[1] .. range[2] : (v - range[1]) % token.step = 0}}

ParseCronField(f, tokens) ==
  LET values == UNION {TokenValues(f, token) : token \in tokens}
  IN [values |-> values,
      wildcard |-> /\ \E token \in tokens : Star(token)
                   /\ Cardinality(values) = Maximum[f] - Minimum[f] + 1]

ParseCronExpression(e) ==
  IF \E f \in Fields : e[f] = {} \/ \E token \in e[f] : Wrong(f, token) THEN Error
  ELSE [f \in Fields |-> ParseCronField(f, e[f])]
-----------------------------------------------------------------------------
(* When both days restrict, one of them is enough. *)
MatchesDay(parsed, y, m, d) ==
  LET dom == d \in parsed.dayOfMonth.values
      dow == Weekday(DayNumber(y, m, d)) \in parsed.dayOfWeek.values
  IN CASE parsed.dayOfMonth.wildcard -> parsed.dayOfWeek.wildcard \/ dow
       [] parsed.dayOfWeek.wildcard -> dom
       [] OTHER -> dom \/ dow

CronLookaheadYears == 8

(* The loops of computeNextCronFireTime: the start matters as long as what *)
(* is outside is that of the start.                                        *)
Months(parsed, start, y) == {m \in parsed.month.values : ~(y = start.year /\ m < start.month)}

Days(parsed, start, y, m) ==
  LET first == IF y = start.year /\ m = start.month THEN start.day ELSE 1
  IN {d \in first .. DaysInMonth(y, m) : MatchesDay(parsed, y, m, d)}

SameDay(start, y, m, d) == y = start.year /\ m = start.month /\ d = start.day

Minutes(parsed, start, y, m, d, hour) ==
  {n \in parsed.minute.values : ~(SameDay(start, y, m, d) /\ hour = start.hour /\ n < start.minute)}

Hours(parsed, start, y, m, d) ==
  {h \in parsed.hour.values : ~(SameDay(start, y, m, d) /\ h < start.hour) /\ Minutes(parsed, start, y, m, d, h) # {}}

ComputeNextCronFireTime(e, after) ==
  LET parsed == ParseCronExpression(e)
      start == CivilOf(after + 1)
      DaysWith(y, m) == {d \in Days(parsed, start, y, m) : Hours(parsed, start, y, m, d) # {}}
      MonthsWith(y) == {m \in Months(parsed, start, y) : DaysWith(y, m) # {}}
      years == {y \in start.year .. start.year + CronLookaheadYears : MonthsWith(y) # {}}
      y == Least(years)
      m == Least(MonthsWith(y))
      d == Least(DaysWith(y, m))
      h == Least(Hours(parsed, start, y, m, d))
  IN IF parsed = Error \/ years = {} THEN Error
     ELSE DateUTC(y, m, d, h, Least(Minutes(parsed, start, y, m, d, h)))

Init == expr \in Expressions /\ from \in Starts /\ slot = from /\ count = 0

Advance ==
  /\ slot # Error /\ count < MaxSlots
  /\ from' = slot /\ slot' = ComputeNextCronFireTime(expr, slot) /\ count' = count + 1
  /\ UNCHANGED expr

Next == Advance

Spec == Init /\ [][Next]_vars
-----------------------------------------------------------------------------
(* What an expression says of an instant, without parsing or searching. *)
Says(f, v) == \E token \in expr[f] : \E w \in {v} \cup (IF f = "dayOfWeek" /\ v = 0 THEN {7} ELSE {}) :
  IF Star(token) THEN (w - Minimum[f]) % token.step = 0
  ELSE w >= token.base[1] /\ w <= token.base[2] /\ (w - token.base[1]) % token.step = 0
Free(f) == (\E token \in expr[f] : Star(token)) /\ \A v \in Minimum[f] .. Maximum[f] : Says(f, v)

DayIsMeant(day) ==
  LET date == CivilOf(day * 1440)
      dom == Says("dayOfMonth", date.day)
      dow == Says("dayOfWeek", Weekday(day))
  IN /\ Says("month", date.month)
     /\ IF Free("dayOfMonth") \/ Free("dayOfWeek") THEN dom /\ dow ELSE dom \/ dow

Meant(t) == DayIsMeant(t \div 1440) /\ Says("hour", (t % 1440) \div 60) /\ Says("minute", t % 60)

WellFormed == \A f \in Fields : expr[f] # {} /\ \A token \in expr[f] : ~Wrong(f, token)

NoneBetween(a, b) ==
  LET day == a \div 1440
      last == b \div 1440
      NoneOf(t1, t2) == \A t \in t1 .. t2 : ~Meant(t)
  IN IF day = last THEN NoneOf(a + 1, b - 1)
     ELSE /\ NoneOf(a + 1, day * 1440 + 1439) /\ NoneOf(last * 1440, b - 1)
          /\ \A d \in day + 1 .. last - 1 : ~DayIsMeant(d)

(* Each slot is the first instant after the one before that the expression *)
(* means: none is left out and none is another, across hours, days, months *)
(* and leap years; an error is for an expression that is not well formed   *)
(* or means no day of the next eight years (computeNextCronFireTime).      *)
SlotsExact == count > 0 =>
  IF slot = Error THEN ~WellFormed \/ NoneBetween(from, DateUTC(CivilOf(from + 1).year + CronLookaheadYears + 1, 1, 1, 0, 0))
  ELSE WellFormed /\ slot > from /\ Meant(slot) /\ NoneBetween(from, slot)
=============================================================================
