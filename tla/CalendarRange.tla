----------------------------- MODULE CalendarRange -----------------------------
(***************************************************************************)
(* The presets of aula.calendar.events (packages/mcp-server/src/           *)
(* calendar-range.ts): windows of Copenhagen wall-clock time computed with *)
(* UTC instants.  An instant is an hour since a Monday 00:00 UTC; a day is *)
(* counted from that Monday, in Copenhagen.  Summer time begins and ends   *)
(* at 01:00 UTC of a Sunday.                                               *)
(***************************************************************************)
EXTENDS Integers

CONSTANTS
    Weeks,          \* bound: weeks the clock runs through
    SpringWeek,     \* the week whose Sunday begins summer time
    AutumnWeek      \* the week whose Sunday ends it

CalendarAssumption == /\ {Weeks, SpringWeek, AutumnWeek} \subseteq Nat
                      /\ SpringWeek < AutumnWeek /\ AutumnWeek < Weeks

VARIABLES
    now,            \* Date.now(), in hours
    range, start, end   \* the last preset asked for and its window, as instants

vars == <<now, range, start, end>>

Presets == {"today", "tomorrow", "this_week", "next_week"}
Init == /\ now \in {0, (SpringWeek * 7 + 5) * 24, (AutumnWeek * 7 + 5) * 24}
        /\ range = "today" /\ start = 0 /\ end = 0

-----------------------------------------------------------------------------
Spring == (SpringWeek * 7 + 6) * 24 + 1
Autumn == (AutumnWeek * 7 + 6) * 24 + 1

\* copenhagenOffsetMinutes, in hours.
Offset(t) == IF Spring <= t /\ t < Autumn THEN 2 ELSE 1

\* The calendar day Copenhagen has at an instant, and its UTC midnight.
CopenhagenDay(t) == (t + Offset(t)) \div 24

StartOfUtcDay(t) == (t \div 24) * 24 - Offset((t \div 24) * 24)
StartOfDayCopenhagen(t) == LET utcMidnight == CopenhagenDay(t) * 24 IN
                           utcMidnight - Offset(utcMidnight)

\* copenhagenDayOfWeek: 0 is Sunday.
DayOfWeek(t) == (CopenhagenDay(t) + 1) % 7

\* setUTCDate: so many times 24 hours.
AddDays(t, n) == t + 24 * n

StartOfWeekMonday(t) == AddDays(t, IF DayOfWeek(t) = 0 THEN -6 ELSE 1 - DayOfWeek(t))

Resolve(r, t) ==
    LET today == StartOfDayCopenhagen(t)
        tomorrow == AddDays(today, 1)
        monday == StartOfWeekMonday(today)
        nextMonday == AddDays(monday, 7) IN
    CASE r = "today" -> <<today, AddDays(today, 1)>>
      [] r = "tomorrow" -> <<tomorrow, AddDays(tomorrow, 1)>>
      [] r = "this_week" -> <<monday, AddDays(monday, 7)>>
      [] r = "next_week" -> <<nextMonday, AddDays(nextMonday, 7)>>

\* currentWeekRange of tools.ts, which the weekly tools use: the Monday of the UTC week.
CurrentWeek(t) == (t \div 168) * 168

\* resolveCalendarRange; aulaTs writes the instants as wall-clock time and offset.
Ask(r) == /\ range' = r
          /\ start' = Resolve(r, now)[1] /\ end' = Resolve(r, now)[2]
          /\ UNCHANGED now

Hour == /\ now < Weeks * 168
        /\ now' = now + 1
        /\ UNCHANGED <<range, start, end>>

Next == Hour \/ \E r \in Presets : Ask(r)
Spec == Init /\ [][Next]_vars

-----------------------------------------------------------------------------
TypeOK == /\ now \in 0..Weeks * 168 /\ range \in Presets
          /\ {start, end} \subseteq -200..(Weeks + 2) * 168

\* What the presets name, day by day: the local midnights that begin a day.
LocalMidnight(day) == CHOOSE t \in {day * 24 - 1, day * 24 - 2} : t + Offset(t) = day * 24
FirstDay(r, t) == LET day == CopenhagenDay(t) IN
    CASE r = "today" -> day
      [] r = "tomorrow" -> day + 1
      [] r = "this_week" -> day - (day % 7)
      [] r = "next_week" -> day - (day % 7) + 7
Days(r) == IF r \in {"today", "tomorrow"} THEN 1 ELSE 7
First(r, t) == LocalMidnight(FirstDay(r, t))
Last(r, t) == LocalMidnight(FirstDay(r, t) + Days(r))

\* A preset begins and ends at the local midnights it names, whatever the hour of the day
\* it is asked at, at midnight and at the ends of a week too, when the clocks stand there as
\* at the midnight today began with; a boundary beyond a change of the clocks is a day's
\* right one to within the hour of the change, and may be right (calendar-range.ts:6,
\* 26-50, 93-100).
Near(boundary, midnight) ==
    /\ boundary - midnight \in {-1, 0, 1}
    /\ Offset(StartOfDayCopenhagen(now)) = Offset(midnight) => boundary = midnight
WindowsAreExact ==
    [][\A r \in Presets : Ask(r) => /\ Near(start', First(r, now))
                                    /\ Near(end', Last(r, now))]_vars

\* The weekly tools and the calendar speak of the same week, except in the first hours
\* of a Copenhagen Monday, when the week in UTC is still the last one (tools.ts:94-100).
WeeksAgree ==
    [][Ask("this_week") =>
          \/ CurrentWeek(now) = FirstDay("this_week", now) * 24
          \/ /\ CopenhagenDay(now) % 7 = 0
             /\ now - LocalMidnight(CopenhagenDay(now)) < Offset(now)]_vars
=============================================================================
