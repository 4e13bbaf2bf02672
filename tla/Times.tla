------------------------------- MODULE Times -------------------------------
(***************************************************************************)
(* Times in natural language: when a reminder is due (daemon/timeparse.go) *)
(* and which range a question is about (query/intent.go).                  *)
(*                                                                         *)
(* A time is a number of seconds since the beginning of a year in the      *)
(* past; no year has a leap day, no clock is changed, and all is of one    *)
(* time zone.  A phrase is what the patterns of the code find in it, so    *)
(* text in which one pattern finds what was meant for another has both.    *)
(***************************************************************************)
EXTENDS Integers, Sequences

CONSTANTS
    Now,          \* times at which is asked
    FirstWeekday, \* weekday of the first day, Sunday being 0
    Reminder,     \* phrases for ParseReminderTime:
                  \*   [relative, date, weekday, hour, minute, half, absolute]
    Asking        \* phrases for DetectTimeIntent: [kind, n, year, month, day, month2, day2]

VARIABLES now, parsed

timeVars == <<now, parsed>>

None == -1
NothingParsed == [what |-> "nothing"]

TimesInit == now \in Now /\ parsed = NothingParsed

\* What the patterns of the code find in a phrase that names hours, months and days there are.
\* They take any number of two digits, but nothing is meant by an hour 25 or a month 13.
ASSUME TimesAssumption ==
    /\ Now \subseteq Nat /\ FirstWeekday \in 0 .. 6
    /\ \A p \in Reminder :
         /\ p.relative \in Nat \cup {None} /\ p.absolute \in Nat \cup {None}
         /\ p.date \in {"", "today", "tomorrow", "in two days", "in three days", "next week"}
         /\ p.weekday \in 0 .. 6 /\ p.hour \in (0 .. 23) \cup {None}
         /\ p.minute \in 0 .. 59 /\ p.half \in {"", "morning", "noon", "afternoon", "evening"}
    /\ \A q \in Asking :
         /\ q.kind \in {"last days", "last week", "this week", "days ago", "dates", "early month",
                        "mid month", "late month", "month", "date", "full date"}
         /\ q.n \in Nat /\ q.year \in Nat \cup {None} /\ q.month \in 1 .. 12 /\ q.month2 \in 1 .. 12
         /\ q.day \in 1 .. 31 /\ q.day2 \in 1 .. 31

-----------------------------------------------------------------------------
(* The calendar *)

MonthStart == <<0, 31, 59, 90, 120, 151, 181, 212, 243, 273, 304, 334, 365>>

Hour == 3600
DayLong == 86400

Day(t) == t \div DayLong
Midnight(d) == DayLong * d
Weekday(d) == (d + FirstWeekday) % 7
Year(d) == d \div 365
Date(year, month, day) == 365 * year + MonthStart[month] + day - 1

-----------------------------------------------------------------------------
(* ParseReminderTime *)

\* extractDate.  "In three days" has the words for "in two" in it, which come first.
DayOffset(p) ==
    CASE p.date = "today" -> 0
      [] p.date = "tomorrow" -> 1
      [] p.date \in {"in two days", "in three days"} -> 2
      [] p.date = "next week" ->
           LET days == (p.weekday - Weekday(Day(now)) + 7) % 7 IN IF days = 0 THEN 7 ELSE days

\* extractTimeOfDay: with a word for the afternoon or the evening, an hour below twelve is one
\* of those; twelve in the morning is midnight.
HourOfDay(p) ==
    IF p.half \in {"afternoon", "evening"} /\ p.hour < 12 THEN p.hour + 12
    ELSE IF p.half = "morning" /\ p.hour = 12 THEN 0
    ELSE p.hour

TimeOfDay(p) == Hour * HourOfDay(p) + 60 * p.minute

OnlyTime(p) ==
    LET at == Midnight(Day(now)) + TimeOfDay(p) IN IF at < now THEN at + DayLong ELSE at

DateAndTime(p) ==
    Midnight(Day(now) + DayOffset(p)) + IF p.hour = None THEN 0 ELSE TimeOfDay(p)

\* The first pattern that is found decides; the time in an absolute date and time is found
\* before its date.
ParseReminderTime(p) ==
    IF p.relative # None THEN now + p.relative
    ELSE IF p.date # "" THEN DateAndTime(p)
    ELSE IF p.hour # None THEN OnlyTime(p)
    ELSE IF p.absolute # None THEN Midnight(p.absolute)
    ELSE now + Hour

-----------------------------------------------------------------------------
(* DetectTimeIntent *)

Monday == Day(now) - ((Weekday(Day(now)) + 6) % 7)

Days(first, last) == [from |-> Midnight(first), to |-> Midnight(last + 1) - 1]
Shift(r, days) == [from |-> r.from + DayLong * days, to |-> r.to + DayLong * days]

ThisYear == Year(Day(now))

\* Mutant: only the beginning decides whether the range is one of the year before.
YearBeforeByStart(r) == IF r.from > now THEN Shift(r, -365) ELSE r

\* A part of a month whose end is still to come is taken to be last year's.
YearBefore(r) == IF r.to > now THEN Shift(r, -365) ELSE r

\* Weeks begin and end at the time of day of the question.  A year that is named before a month
\* is read and dropped; that of a full date, which q.n has as a day, is not.
DetectTimeIntent(q) ==
    CASE q.kind = "last days" -> [from |-> now - DayLong * q.n, to |-> now]
      [] q.kind = "last week" ->
           LET start == now - DayLong * (Day(now) - Monday) - DayLong * 7
           IN  [from |-> start, to |-> start + DayLong * 6]
      [] q.kind = "this week" -> [from |-> now - DayLong * (Day(now) - Monday), to |-> now]
      [] q.kind = "days ago" -> Days(Day(now) - q.n, Day(now) - q.n)
      [] q.kind = "dates" ->
           LET r == [from |-> Midnight(Date(ThisYear, q.month, q.day)),
                     to |-> Midnight(Date(ThisYear, q.month2, q.day2) + 1) - 1]
           IN  IF r.from > now THEN Shift(r, -365) ELSE r
      [] q.kind = "early month" -> YearBefore(Days(Date(ThisYear, q.month, 1), Date(ThisYear, q.month, 10)))
      [] q.kind = "mid month" -> YearBefore(Days(Date(ThisYear, q.month, 8), Date(ThisYear, q.month, 20)))
      [] q.kind = "late month" -> YearBefore(Days(Date(ThisYear, q.month, 18), Date(ThisYear, q.month + 1, 1) - 1))
      [] q.kind = "month" -> YearBefore(Days(Date(ThisYear, q.month, 1), Date(ThisYear, q.month + 1, 1) - 1))
      [] q.kind = "date" ->
           LET d == Date(ThisYear, q.month, q.day)
           IN  IF Midnight(d) > now + DayLong THEN Days(d - 365, d - 365) ELSE Days(d, d)
      [] q.kind = "full date" -> Days(q.n, q.n)

-----------------------------------------------------------------------------

ParseReminder(p) ==
    /\ parsed = NothingParsed
    /\ parsed' = [what |-> "reminder", phrase |-> p, at |-> ParseReminderTime(p)]
    /\ UNCHANGED now

ParseQuestion(q) ==
    /\ parsed = NothingParsed
    /\ parsed' = [what |-> "range", phrase |-> q, range |-> DetectTimeIntent(q)]
    /\ UNCHANGED now

TimesNext ==
    \/ \E p \in Reminder : ParseReminder(p)
    \/ \E q \in Asking : ParseQuestion(q)

TimesSpec == TimesInit /\ [][TimesNext]_timeVars

-----------------------------------------------------------------------------
(* Properties *)

\* The hour that is meant by one of the hours 0 to 12 with a word for the time of day: before
\* noon in the morning, from noon on in the afternoon and the evening.  Not said is what the
\* code takes as it is written: twelve in the evening, and the hours after twelve at noon.
HourIsMeant(p, hour) ==
    /\ hour % 12 = p.hour % 12
    /\ p.half = "" \/ p.hour > 12 => hour = p.hour
    /\ p.half = "morning" /\ p.hour <= 12 => hour < 12
    /\ p.half = "noon" /\ p.hour \in 10 .. 12 => hour = p.hour
    /\ p.half \in {"afternoon", "evening"} /\ p.hour < 12 => hour >= 12

\* A reminder is due when its phrase says: never in the past, unless the phrase names today
\* or a date that is past; at the hour and the minute that are named; on the day that is named
\* (in three days, for which the code has a case, it takes for in two); and with a time alone
\* within a day.
DueAsSaid(p, at) ==
    /\ p.date # "today" /\ p.absolute = None => at >= now
    /\ p.relative = None /\ p.hour # None =>
         LET time == at % DayLong IN HourIsMeant(p, time \div Hour) /\ time % Hour = 60 * p.minute
    /\ p.relative = None /\ p.date = "" /\ p.hour # None /\ p.absolute = None =>
         at - now < DayLong
    /\ p.relative = None =>
         /\ p.date = "today" => Day(at) = Day(now)
         /\ p.date = "tomorrow" => Day(at) = Day(now) + 1
         /\ p.date = "in two days" => Day(at) = Day(now) + 2
         /\ p.date = "next week" =>
              Weekday(Day(at)) = p.weekday /\ Day(at) - Day(now) \in 1 .. 7

\* A range, unless it is one date, has begun; of one of past days, weeks or parts of a month
\* nothing is in the future; it ends after it begins, unless the second of its two dates comes
\* first in a year; and the month it is about is, whatever year is named before it, the last of
\* that name that is over, from its first day to its last.
RangeIsPast(q, r) ==
    /\ q.kind \notin {"date", "full date"} => r.from <= now
    /\ q.kind \notin {"date", "full date", "dates", "days ago"} => r.to <= now
    /\ q.kind # "dates" \/ Date(0, q.month, q.day) <= Date(0, q.month2, q.day2) => r.from <= r.to
    /\ q.kind = "month" =>
         /\ r.to + DayLong * 365 > now
         /\ Day(r.to + 1) - Day(r.from) = MonthStart[q.month + 1] - MonthStart[q.month]

\* A reminder is due when its phrase says, and a range is what the question is about.
TimesAsSaid ==
    /\ parsed.what = "reminder" => DueAsSaid(parsed.phrase, parsed.at)
    /\ parsed.what = "range" => RangeIsPast(parsed.phrase, parsed.range)
=============================================================================
