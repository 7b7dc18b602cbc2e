------------------------------- MODULE IsoWeeks -------------------------------
(***************************************************************************)
(* The ISO weeks the integrations ask for (packages/aula-client/src/       *)
(* integrations/types.ts): isoWeekString and isoWeekToMonday, over the     *)
(* days of a calendar.  A day is counted from 1970-01-01, a Thursday; all  *)
(* of the arithmetic is in UTC.                                            *)
(***************************************************************************)
EXTENDS Integers

CONSTANTS FirstYear, LastYear   \* bound: the years the days run through

YearsAssumption == /\ FirstYear \in Nat /\ LastYear \in Nat
                   /\ 1970 < FirstYear /\ FirstYear < LastYear

VARIABLES
    today,          \* Date.now(), in days
    isoWeek,        \* what isoWeekString made of it: year and week
    monday          \* isoWeekToMonday of that

vars == <<today, isoWeek, monday>>

-----------------------------------------------------------------------------
Leaps(y) == (y \div 4) - (y \div 100) + (y \div 400)
\* Date.UTC(year, 0, day).
JanuaryDay(y, d) == (y - 1970) * 365 + Leaps(y - 1) - Leaps(1969) + d - 1
YearOf(day) == CHOOSE y \in FirstYear - 1..LastYear + 1 :
                  JanuaryDay(y, 1) <= day /\ day < JanuaryDay(y + 1, 1)

\* getUTCDay() || 7: Monday is 1, Sunday 7.
UtcDay(day) == (day + 4) % 7
DayNum(day) == IF UtcDay(day) = 0 THEN 7 ELSE UtcDay(day)

\* The Thursday of the week decides its year.
IsoWeekString(day) ==
    LET thursday == day + 4 - DayNum(day)
        yearStart == JanuaryDay(YearOf(thursday), 1)
    IN [year |-> YearOf(thursday),
        week |-> (thursday - yearStart + 1 + 6) \div 7]

\* 4 January is in week 1.
IsoWeekToMonday(w) == LET jan4 == JanuaryDay(w.year, 4) IN
                      jan4 - (DayNum(jan4) - 1) + (w.week - 1) * 7

Resolved(day) == /\ isoWeek' = IsoWeekString(day)
                 /\ monday' = IsoWeekToMonday(isoWeek')

Init == /\ today = JanuaryDay(FirstYear, 1)
        /\ isoWeek = IsoWeekString(today) /\ monday = IsoWeekToMonday(isoWeek)

\* A day passes, and an integration tool is called without a week.
NextDay == /\ today < JanuaryDay(LastYear + 1, 1)
           /\ today' = today + 1
           /\ Resolved(today')
Next == NextDay
Spec == Init /\ [][Next]_vars

-----------------------------------------------------------------------------
TypeOK == /\ today \in Nat /\ monday \in Nat
          /\ isoWeek \in [year : FirstYear - 1..LastYear + 1, week : 1..53]

\* The two are inverses: the week of a day leads back to the Monday on or before it, on
\* both sides of every New Year; and a week never has two names (types.ts:67-97).
WeeksRoundTrip ==
    [][/\ monday' <= today' /\ today' < monday' + 7 /\ UtcDay(monday') = 1
       /\ (isoWeek' = isoWeek) <=> (monday' = monday)]_vars
=============================================================================
