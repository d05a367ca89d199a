------------------------------ MODULE CronParse ------------------------------
(* runtime.parseCron and nextAfter: the five fields of an expression, and the  *)
(* scan for the first minute after a given one that matches them, over a       *)
(* calendar whose hours, days, months and weeks may be short.  A field is a    *)
(* set of parts "*", "N", "a-b", each with a step ("/n").                      *)
EXTENDS Integers, Sequences

CONSTANTS
    Minutes, Hours,   \* minutes of an hour, hours of a day (60 and 24)
    MonthDays,        \* days of each month of a year
    WeekDays,         \* days of a week (7)
    ScanDays,         \* days nextAfter looks at (five years)
    Expressions,      \* expressions to parse
    Times             \* minutes from which the next one is asked for

FieldNames == {"minute", "hour", "dom", "month", "dow"}

ASSUME CalendarAssumption ==
    /\ {Minutes, Hours, WeekDays, ScanDays} \subseteq Nat \ {0}
    /\ MonthDays \in Seq(Nat \ {0}) /\ MonthDays # <<>>

\* A part is what Atoi may return for its numbers: also what parseCronField rejects.
ASSUME ExpressionsAssumption ==
    /\ \A e \in Expressions : DOMAIN e = FieldNames
    /\ \A e \in Expressions, f \in FieldNames : \A p \in e[f] :
           p.base \in {"*", "N", "a-b"} /\ {p.lo, p.hi, p.step} \subseteq Int
    /\ Times \subseteq Nat

VARIABLES expr, from, scan

cvars == <<expr, from, scan>>

DayLength == Minutes * Hours
LongestMonth == CHOOSE n \in {MonthDays[i] : i \in DOMAIN MonthDays} :
                    \A i \in DOMAIN MonthDays : MonthDays[i] <= n
FieldMin == [f \in FieldNames |-> IF f \in {"dom", "month"} THEN 1 ELSE 0]
FieldMax == [minute |-> Minutes - 1, hour |-> Hours - 1, dom |-> LongestMonth,
             month |-> Len(MonthDays), dow |-> WeekDays - 1]

\* The calendar.  Day 0 is the first of a year and of a week.
DaysBefore[m \in 1..(Len(MonthDays) + 1)] ==
    IF m = 1 THEN 0 ELSE DaysBefore[m - 1] + MonthDays[m - 1]
DayOfYear(day) == day % DaysBefore[Len(MonthDays) + 1]
MonthOf(day) == CHOOSE m \in DOMAIN MonthDays :
    DaysBefore[m] <= DayOfYear(day) /\ DayOfYear(day) < DaysBefore[m + 1]
Clock(t) ==
    LET day == t \div DayLength
    IN  [minute |-> t % Minutes, hour |-> (t \div Minutes) % Hours,
         dom |-> DayOfYear(day) - DaysBefore[MonthOf(day)] + 1,
         month |-> MonthOf(day), dow |-> day % WeekDays]

\* parseCronField.
Lo(p, f) == IF p.base = "*" THEN FieldMin[f] ELSE p.lo
Hi(p, f) == IF p.base = "*" THEN FieldMax[f] ELSE p.hi
PartOK(p, f) ==
    p.step > 0 /\ Lo(p, f) >= FieldMin[f] /\ Hi(p, f) <= FieldMax[f] /\ Lo(p, f) <= Hi(p, f)
Values(f) ==
    UNION {{v \in Lo(p, f)..Hi(p, f) : (v - Lo(p, f)) % p.step = 0} : p \in expr[f]}
Restricted(f) == \A p \in expr[f] : p.base # "*"
ParseOK == \A f \in FieldNames : \A p \in expr[f] : PartOK(p, f)

\* Mutant of Matches: both day fields must match.
MatchesAll(t) == \A f \in FieldNames : Clock(t)[f] \in Values(f)

\* (*cronSpec).matches.
Matches(t) ==
    LET c == Clock(t)
        domOK == c.dom \in Values("dom")
        dowOK == c.dow \in Values("dow")
    IN  /\ c.minute \in Values("minute") /\ c.hour \in Values("hour")
        /\ c.month \in Values("month")
        /\ (Restricted("dom") \/ Restricted("dow")) =>
               (Restricted("dom") /\ domOK) \/ (Restricted("dow") /\ dowOK)

CronInit ==
    /\ expr \in Expressions /\ from \in Times
    /\ scan = [pc |-> "parse", day |-> 0, minute |-> 0, days |-> 0]

Reject ==
    /\ scan.pc = "parse" /\ ~ParseOK
    /\ scan' = [scan EXCEPT !.pc = "rejected"]
    /\ UNCHANGED <<expr, from>>

\* nextAfter starts in the minute after `from` ...
Accept ==
    /\ scan.pc = "parse" /\ ParseOK
    /\ scan' = [pc |-> "scan", day |-> from \div DayLength,
                minute |-> (from % DayLength) + 1, days |-> 0]
    /\ UNCHANGED <<expr, from>>

Candidate == scan.day * DayLength + scan.minute

\* ... and looks at one minute after the other, ...
Look ==
    /\ scan.pc = "scan" /\ scan.minute < DayLength
    /\ scan' = IF Matches(Candidate) THEN [scan EXCEPT !.pc = "found"]
                                     ELSE [scan EXCEPT !.minute = @ + 1]
    /\ UNCHANGED <<expr, from>>

\* ... one day after the other, ScanDays of them.
NextDay ==
    /\ scan.pc = "scan" /\ scan.minute = DayLength
    /\ scan' = [pc |-> IF scan.days + 1 = ScanDays THEN "never" ELSE "scan",
                day |-> scan.day + 1, minute |-> 0, days |-> scan.days + 1]
    /\ UNCHANGED <<expr, from>>

CronNext == Reject \/ Accept \/ Look \/ NextDay

CronSpec == CronInit /\ [][CronNext]_cvars

-----------------------------------------------------------------------------
(* Properties *)

\* What an expression means, from its parts: "standard cron dom/dow semantics:
\* when BOTH are restricted, a day matches if EITHER matches".
Covers(f, v) == \E p \in expr[f] :
    IF p.base = "*" THEN (v - FieldMin[f]) % p.step = 0
                    ELSE \E k \in 0..v : v = p.lo + k * p.step /\ v <= p.hi
Plain(f) == \E p \in expr[f] : p.base = "*" /\ p.step = 1
Means(t) ==
    LET c == Clock(t)
        dom == Covers("dom", c.dom)
        dow == Covers("dow", c.dow)
    IN  /\ \A f \in {"minute", "hour", "month"} : Covers(f, c[f])
        /\ IF Plain("dom") \/ Plain("dow") THEN dom /\ dow ELSE dom \/ dow

StarStep(f) == \E p \in expr[f] : p.base = "*" /\ p.step > 1

\* The answer is the first minute after `from` the expression stands for, and
\* there is none only if no such minute lies in the days looked at; for
\* expressions whose day fields have no "*/n", which DayStepsHonoured is about.
NextIsLeast ==
    ~StarStep("dom") /\ ~StarStep("dow") =>
        /\ scan.pc = "found" =>
               /\ from < Candidate /\ Means(Candidate)
               /\ \A t \in (from + 1)..(Candidate - 1) : ~Means(t)
        /\ scan.pc = "never" =>
               \A t \in (from + 1)..(((from \div DayLength) + ScanDays) * DayLength - 1) : ~Means(t)

\* "Supports the standard subset: '*', 'N', 'a-b', 'a,b', '*/n', 'a-b/n'"
\* (cron_parse.go): also in the day fields.  Does not hold: a field that begins
\* with a star counts as unrestricted.
DayStepsHonoured == scan.pc = "found" => Means(Candidate)

=============================================================================
