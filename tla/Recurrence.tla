----------------------------- MODULE Recurrence -----------------------------
(***************************************************************************)
(* The times of a schedule and of a series: what POST /schedules makes of  *)
(* the time fields of a request, and what PreviewRecurrence answers        *)
(* (internal/api/recurrence.go).  A date is the number of days since       *)
(* 1 January of BaseYear.                                                  *)
(***************************************************************************)
EXTENDS LocalTime, Sequences, FiniteSets

CONSTANTS
    BaseYear,      \* the year dates are counted from
    BaseWeekday,   \* the weekday of its first day, Monday being 0
    MaxMonth,      \* bound: the months dates may lie in, from BaseYear on
    Requests,      \* requests for a schedule; "recurrence" is None in a single one
    Moves          \* changes of this and the following occurrences

ASSUME CalendarAssumption ==
    BaseYear \in Nat /\ BaseWeekday \in 0 .. 6 /\ MaxMonth \in Nat

VARIABLES
    request,   \* the request being answered, None when there is none
    times,     \* the times of its first occurrence
    anchor,    \* anchorDate: the instant the days of its series are counted from
    days,      \* the instants its series has candidates for
    answer     \* what it was answered

vars == <<request, times, anchor, days, answer>>

-----------------------------------------------------------------------------
(* The Gregorian calendar, as package time has it (external).               *)

leap(y) == (y % 4 = 0 /\ y % 100 # 0) \/ y % 400 = 0

monthLength(m) ==
    LET n == (m % 12) + 1
    IN  IF n = 2 THEN IF leap(BaseYear + m \div 12) THEN 29 ELSE 28
        ELSE IF n \in {4, 6, 9, 11} THEN 30 ELSE 31

monthStart[m \in 0 .. MaxMonth] ==
    IF m = 0 THEN 0 ELSE monthStart[m - 1] + monthLength(m - 1)

monthOf ==
    [day \in 0 .. monthStart[MaxMonth] - 1 |->
        CHOOSE m \in 0 .. MaxMonth - 1 : monthStart[m] <= day /\ day < monthStart[m + 1]]
dayOfMonth(day) == day - monthStart[monthOf[day]] + 1
weekday(day) == (day + BaseWeekday) % 7

\* The same day a year later, 1 March for 29 February.
yearLater(day) == monthStart[monthOf[day] + 12] + dayOfMonth(day) - 1

\* t.AddDate(1, 0, 0)
addYear(z, u) == Date(z, yearLater(date(z, u)) * Day + clock(z, u))

-----------------------------------------------------------------------------
(* generateOccurrences.                                                     *)

elements(s) == {s[i] : i \in DOMAIN s}
each(s, Op(_)) == [i \in DOMAIN s |-> Op(s[i])]

\* The elements of s that are in K, in the order of s: what a loop appends.  The
\* n-th of them is not before position n.
keep(s, K) ==
    LET at   == {i \in 1 .. Len(s) : s[i] \in K}
        rank == [i \in at |-> Cardinality(at \cap (1 .. i))]
    IN  [n \in 1 .. Cardinality(at) |-> s[CHOOSE i \in at \cap (n .. Len(s)) : rank[i] = n]]

upTo(s, n) == IF n = None \/ Len(s) <= n THEN s ELSE SubSeq(s, 1, n)

Frequencies == {"DAILY", "WEEKLY", "MONTHLY"}

ruleInvalid(rule) ==
    \/ rule.frequency \notin Frequencies
    \/ rule.interval \notin 1 .. 30
    \/ (rule.count = None) = (rule.until = None)
    \/ rule.count # None /\ rule.count \notin 1 .. 100
    \/ Len(rule.exdates) > 100
    \/ \E i, j \in DOMAIN rule.weekdays : i # j /\ rule.weekdays[i] = rule.weekdays[j]
    \/ rule.frequency # "WEEKLY" /\ rule.weekdays # <<>>

weekdaySet(z, start, rule) ==
    IF rule.frequency = "WEEKLY" /\ rule.weekdays = <<>>
    THEN {weekday(date(z, start))} ELSE elements(rule.weekdays)

anchorDate(z, t, allDay) ==
    dateAtTimezoneMidnight(z,
        date(z, IF allDay THEN dateAtTimezoneMidnight(z, t.startDate) ELSE t.start))

\* Integer division in Go: towards zero.
quo(a, b) == IF a < 0 THEN -((-a) \div b) ELSE a \div b

dayDelta(z, a, b) == date(z, b) - date(z, a)

weekStart(z, u) == addDays(z, u, -weekday(date(z, u)))

\* Mutant: weeks are counted from the anchor's day.
recurrenceMatches_rolling(z, from, candidate, rule, weekdays) ==
    CASE rule.frequency = "DAILY" -> dayDelta(z, from, candidate) % rule.interval = 0
      [] rule.frequency = "WEEKLY" ->
            /\ (dayDelta(z, from, candidate) \div 7) % rule.interval = 0
            /\ weekday(date(z, candidate)) \in weekdays

recurrenceMatches(z, from, candidate, rule, weekdays) ==
    CASE rule.frequency = "DAILY" -> dayDelta(z, from, candidate) % rule.interval = 0
      [] rule.frequency = "WEEKLY" ->
            /\ quo(dayDelta(z, weekStart(z, from), weekStart(z, candidate)), 7)
                   % rule.interval = 0
            /\ weekday(date(z, candidate)) \in weekdays

\* The last instant a candidate may have: until, which is at most a year
\* ahead, or a year ahead.
limit(z, from, rule) ==
    IF rule.until = None THEN addYear(z, from) ELSE dateAtTimezoneMidnight(z, rule.until)

\* A later offset gives a later instant, so that leaving the loop at the limit
\* is the same as leaving out what lies beyond it.
dailyCandidates(z, from, last, rule, weekdays) ==
    LET all == [i \in 1 .. 367 |-> addDays(z, from, i - 1)]
    IN  keep(all, {c \in elements(all) :
                      c <= last /\ recurrenceMatches(z, from, c, rule, weekdays)})

\* The months the rule visits: each is the month of the instant made from its
\* first day.
monthsVisited(z, from, last, rule) ==
    LET first(n) == dateAtTimezoneMidnight(z, monthStart[monthOf[date(z, from)] + n])
        month(n) == monthOf[date(z, first(n))]
    IN  each(keep([i \in 1 .. 13 |-> i - 1],
                  {n \in 0 .. 12 : n % rule.interval = 0 /\ first(n) <= last}), month)

lastDay(z, m) == dayOfMonth(date(z, dateAtTimezoneMidnight(z, monthStart[m + 1] - 1)))

monthlyCandidates(z, from, last, rule) ==
    LET visited == monthsVisited(z, from, last, rule)
        on(m) == dateAtTimezoneMidnight(z, monthStart[m] + dayOfMonth(date(z, from)) - 1)
        all == each(keep(visited, {m \in elements(visited) :
                                      dayOfMonth(date(z, from)) <= lastDay(z, m)}), on)
    IN  keep(all, {c \in elements(all) : c >= from /\ (rule.until # None => c <= last)})

\* Mutant: the months without the day are left out in silence.
skippedMonths_silent(z, from, last, rule) == <<>>

\* The last days of the months that lack the anchor's day.
skippedMonths(z, from, last, rule) ==
    LET visited == monthsVisited(z, from, last, rule)
        final(m) == date(z, dateAtTimezoneMidnight(z, monthStart[m] + lastDay(z, m) - 1))
    IN  IF rule.frequency # "MONTHLY" THEN <<>>
        ELSE each(keep(visited, {m \in elements(visited) :
                                    dayOfMonth(date(z, from)) > lastDay(z, m)}), final)

\* The candidates that are not excluded, up to the count.
seriesCandidates(z, from, last, rule, weekdays) ==
    LET all == IF rule.frequency = "MONTHLY"
               THEN monthlyCandidates(z, from, last, rule)
               ELSE dailyCandidates(z, from, last, rule, weekdays)
    IN  upTo(keep(all, {c \in elements(all) : date(z, c) \notin elements(rule.exdates)}),
             rule.count)

\* Mutant: the fold is passed on for times that are not ambiguous.
resolveRecurringLocal_direct(z, wall, fold) == resolveLocalDateTime(z, wall, fold)

resolveRecurringLocal(z, wall, fold) ==
    IF resolveLocalDateTime(z, wall, "").error = "ambiguous"
    THEN resolveLocalDateTime(z, wall, fold) ELSE resolveLocalDateTime(z, wall, "")

Occurrence(start, end, startDate, endDate, localStart) ==
    [error |-> "none", start |-> start, end |-> end,
     startDate |-> startDate, endDate |-> endDate, localStart |-> localStart]
NoOccurrence(error) ==
    [error |-> error, start |-> None, end |-> None,
     startDate |-> None, endDate |-> None, localStart |-> None]

allDayOccurrence(z, t, candidate) ==
    LET last == date(z, addDays(z, candidate, t.endDate - t.startDate))
    IN  Occurrence(dateAtTimezoneMidnight(z, date(z, candidate)),
                   dateAtTimezoneMidnight(z, last),
                   date(z, candidate), last, local(z, candidate))

\* Mutant: the occurrence lasts as long as the first one does.
timedOccurrence_elapsed(z, t, candidate, startFold, endFold) ==
    LET wall == date(z, candidate) * Day + clock(z, t.start)
        start == resolveRecurringLocal(z, wall, startFold)
    IN  IF start.error # "none" THEN NoOccurrence(start.error)
        ELSE IF t.end = None THEN Occurrence(start.at, None, None, None, wall)
        ELSE Occurrence(start.at, start.at + (t.end - t.start), None, None, wall)

\* The start is at the clock of the first occurrence on the candidate's date.
\* The end is counted from localStartWall, that clock added to what the clocks
\* show at the candidate: on a day without a midnight that is later.
timedOccurrence(z, t, candidate, startFold, endFold) ==
    LET wall  == date(z, candidate) * Day + clock(z, t.start)
        shown == local(z, candidate) + clock(z, t.start)
        start == resolveRecurringLocal(z, wall, startFold)
        end   == resolveRecurringLocal(z, shown + local(z, t.end) - local(z, t.start), endFold)
    IN  IF start.error # "none" THEN NoOccurrence(start.error)
        ELSE IF t.end = None THEN Occurrence(start.at, None, None, None, shown)
        ELSE IF end.error # "none" THEN NoOccurrence(end.error)
        ELSE IF end.at <= start.at THEN NoOccurrence("invalid")
        ELSE Occurrence(start.at, end.at, None, None, shown)

NoSeries(error) == [error |-> error, occurrences |-> <<>>, skipped |-> <<>>]

firstError(occurrences) ==
    occurrences[earliest({i \in DOMAIN occurrences : occurrences[i].error # "none"})].error

lastDate(occurrences) ==
    LET final == occurrences[Len(occurrences)]
    IN  IF final.startDate # None THEN final.startDate ELSE final.localStart \div Day

\* A series is refused with the error of the first occurrence that has one.
\* What is skipped after the last occurrence is not reported.
series(occurrences, missing) ==
    IF \E i \in DOMAIN occurrences : occurrences[i].error # "none"
    THEN NoSeries(firstError(occurrences))
    ELSE IF Len(occurrences) \notin 1 .. 100 THEN NoSeries("size")
    ELSE [error |-> "none", occurrences |-> occurrences,
          skipped |-> keep(missing, {d \in elements(missing) : d <= lastDate(occurrences)})]

timesInvalid(z, t, allDay) ==
    IF allDay
    THEN \/ t.startDate = None \/ t.endDate = None
         \/ t.endDate <= t.startDate \/ t.endDate - t.startDate > 366
    ELSE t.end # None /\ local(z, t.end) <= local(z, t.start)

untilInvalid(z, from, rule) ==
    /\ rule.until # None
    /\ \/ dateAtTimezoneMidnight(z, rule.until) < from
       \/ dateAtTimezoneMidnight(z, rule.until) > addYear(z, from)

\* The folds are for the occurrences: the anchor takes them only when it is
\* ambiguous without.
resolveRecurrenceAnchorTimes(in) ==
    LET plain == resolveScheduleTimes([in EXCEPT !.startFold = "", !.endFold = ""])
    IN  IF plain.error = "ambiguous" /\ (in.startFold # "" \/ in.endFold # "")
        THEN resolveScheduleTimes(in) ELSE plain

-----------------------------------------------------------------------------
(* updateScheduleFollowing: the times of a later occurrence when the        *)
(* selected one is moved from move.old to move.new.                         *)

\* The wall times the later occurrence moves to.
movedStart(move) ==
    local(move.newZone, move.other.start)
        + (local(move.newZone, move.new.start) - local(move.zone, move.old.start))
movedEnd(move) ==
    movedStart(move) + (local(move.newZone, move.new.end) - local(move.newZone, move.new.start))

\* Mutant: the later occurrence moves by the time that passed.
shiftTimed_elapsed(move) ==
    LET start == move.other.start + (move.new.start - move.old.start)
    IN  Times(start, IF move.new.end = None THEN None
                     ELSE start + (move.new.end - move.new.start), None, None)

\* It moves by the difference of the wall times and lasts as long as the
\* selected one does on the wall.
shiftTimed(move) ==
    LET start == resolveServiceWall(move.newZone, movedStart(move), move.startFold)
        end   == resolveServiceWall(move.newZone, movedEnd(move), move.endFold)
    IN  IF start.error # "none" THEN Refused("invalid")
        ELSE IF move.new.end = None THEN Times(start.at, None, None, None)
        ELSE IF end.error # "none" \/ end.at <= start.at THEN Refused("invalid")
        ELSE Times(start.at, end.at, None, None)

\* It moves by as many days and spans as many.
shiftAllDay(move) ==
    LET z    == move.newZone
        day  == (IF move.other.startDate = None THEN date(z, move.other.start)
                 ELSE move.other.startDate)
                  + (IF move.old.startDate = None \/ move.new.startDate = None THEN 0
                     ELSE move.new.startDate - move.old.startDate)
        last == day + (IF move.new.startDate = None \/ move.new.endDate = None THEN 1
                       ELSE move.new.endDate - move.new.startDate)
    IN  Times(dateAtTimezoneMidnight(z, day), dateAtTimezoneMidnight(z, last), day, last)

\* The zones are known, and the offsets are given for the times asked for and
\* their surroundings.  An all-day schedule has its dates.
ASSUME RequestsAssumption ==
    /\ None \notin Int
    /\ \A in \in Requests :
           /\ "zone" \in DOMAIN in
           /\ in.zone \in Zones /\ in.startFold \in Folds /\ in.endFold \in Folds
           /\ in.localStartAt \in Walls \cup {None} /\ in.localEndAt \in Walls \cup {None}
    /\ \A move \in Moves :
           /\ move.zone \in Zones /\ move.newZone \in Zones
           /\ move.startFold \in Folds /\ move.endFold \in Folds
           /\ IF move.allDay
              THEN {move.old.startDate, move.new.startDate, move.other.startDate} \subseteq Int
              ELSE /\ {move.old.start, move.new.start, move.other.start} \subseteq From .. To
                   /\ movedStart(move) \in Walls
                   /\ move.new.end # None => move.new.end \in From .. To /\ movedEnd(move) \in Walls

\* How long the first occurrence lasts on the wall.
wallDuration(z, t, allDay) ==
    IF allDay THEN (t.endDate - t.startDate) * Day
    ELSE IF t.end = None THEN 0 ELSE local(z, t.end) - local(z, t.start)

\* The rules are made of dates and weekdays.  The offsets and the calendar reach
\* from more than a week before the first day of a series to more than a year
\* after it.
ASSUME SeriesAssumption ==
    \A in \in Requests : in.recurrence # None =>
        LET z == in.zone
            r == in.recurrence
            t == resolveRecurrenceAnchorTimes(in)
            first == IF in.allDay THEN t.startDate ELSE date(z, t.start)
        IN  /\ r.interval \in Int /\ r.count \in Int \cup {None}
            /\ r.until # None => r.until \in Int /\ r.until * Day \in Walls
            /\ r.exdates \in Seq(Int) /\ r.weekdays \in Seq(0 .. 6)
            /\ t.error = "none" /\ ~ timesInvalid(z, t, in.allDay) =>
                   /\ t.start \in From .. To /\ t.end \in (From .. To) \cup {None}
                   /\ in.allDay => t.startDate \in Int /\ t.endDate \in Int
                   /\ (first - 31) * Day \in Walls
                   /\ (first + 400) * Day + wallDuration(z, t, in.allDay) \in Walls
                   /\ first \in 0 .. monthStart[MaxMonth] - 1 /\ monthOf[first] + 14 <= MaxMonth

-----------------------------------------------------------------------------
Init == request = None /\ times = None /\ anchor = None /\ days = <<>> /\ answer = None

Asked(op, in) == [op |-> op, in |-> in]

\* The times of a single schedule, which has to end after it starts.
CreateSchedule(in) ==
    /\ request = None /\ in.recurrence = None
    /\ request' = Asked("create", in)
    /\ times' = resolveScheduleTimes(in)
    /\ answer' = IF times'.error = "none" /\ times'.end # None /\ times'.end <= times'.start
                 THEN Refused("invalid") ELSE times'
    /\ UNCHANGED <<anchor, days>>

\* generateOccurrences(in, times')
PreviewRecurrence(in) ==
    LET z == in.zone
        r == in.recurrence
    IN  /\ request = None /\ r # None
        /\ request' = Asked("preview", in)
        /\ times' = resolveRecurrenceAnchorTimes(in)
        /\ anchor' = IF \/ times'.error # "none" \/ ruleInvalid(r)
                        \/ timesInvalid(z, times', in.allDay)
                     THEN None
                     ELSE anchorDate(z, times', in.allDay)
        /\ days' = IF anchor' = None \/ untilInvalid(z, anchor', r) THEN <<>>
                   ELSE seriesCandidates(z, anchor', limit(z, anchor', r), r,
                                         weekdaySet(z, times'.start, r))
        /\ answer' = IF times'.error # "none" THEN NoSeries(times'.error)
                     ELSE IF anchor' = None \/ untilInvalid(z, anchor', r)
                     THEN NoSeries("invalid")
                     ELSE series([i \in DOMAIN days' |->
                              IF in.allDay THEN allDayOccurrence(z, times', days'[i])
                              ELSE timedOccurrence(z, times', days'[i], in.startFold, in.endFold)],
                              skippedMonths(z, anchor', limit(z, anchor', r), r))

UpdateFollowing(move) ==
    /\ request = None
    /\ request' = Asked("move", move)
    /\ answer' = IF move.allDay THEN shiftAllDay(move) ELSE shiftTimed(move)
    /\ UNCHANGED <<times, anchor, days>>

\* The answer is sent and the next request may come.
Respond ==
    /\ request # None
    /\ request' = None /\ times' = None /\ anchor' = None /\ days' = <<>> /\ answer' = None

Next == \/ \E move \in Moves : UpdateFollowing(move)
        \/ \E in \in Requests : CreateSchedule(in) \/ PreviewRecurrence(in)
        \/ Respond

Spec == Init /\ [][Next]_vars

-----------------------------------------------------------------------------
(* For reference: the series as the rule describes it, on calendar days.    *)

Answered(op) == request # None /\ request.op = op /\ answer.error = "none"

rule == request.in.recurrence

firstDay == IF request.in.allDay THEN times.startDate ELSE date(request.in.zone, times.start)

monday(d) == d - weekday(d)

onRule(first, d) ==
    CASE rule.frequency = "DAILY" -> (d - first) % rule.interval = 0
      [] rule.frequency = "WEEKLY" ->
            /\ (monday(d) - monday(first)) % (7 * rule.interval) = 0
            /\ IF rule.weekdays = <<>> THEN weekday(d) = weekday(first)
               ELSE weekday(d) \in elements(rule.weekdays)
      [] rule.frequency = "MONTHLY" ->
            /\ dayOfMonth(d) = dayOfMonth(first)
            /\ (monthOf[d] - monthOf[first]) % rule.interval = 0

\* The days of the year from the first one on which the rule is due.
dueDays(first) ==
    {d \in first .. (IF rule.until = None THEN yearLater(first) ELSE rule.until) :
        onRule(first, d) /\ d \notin elements(rule.exdates)}

\* Those among the first n.
among(due, n) == {d \in due : n # None => Cardinality({e \in due : e < d}) < n}

\* The day an occurrence is on.
day(occurrence) ==
    IF occurrence.startDate = None THEN date(request.in.zone, occurrence.start)
    ELSE occurrence.startDate

-----------------------------------------------------------------------------
(* Properties.                                                              *)

\* resolveLocalDateTime: a schedule created for a wall time starts at an instant
\* that shows it, and is refused as nonexistent or ambiguous exactly when no
\* instant or several do, although only seven offsets around it are looked at.
WallTimeKept ==
    request # None /\ request.op = "create" /\ request.in.localStartAt # None =>
        LET in == request.in
            Of(wall) == IF wall = None THEN {} ELSE instants(in.zone, wall)
        IN  /\ answer.error = "none" =>
                   /\ answer.start \in Of(in.localStartAt)
                   /\ in.startFold = "" => single(Of(in.localStartAt))
                   /\ \A u \in Of(in.localStartAt) :
                          /\ in.startFold = "earlier" => answer.start <= u
                          /\ in.startFold = "later" => answer.start >= u
            /\ answer.error = "nonexistent" =>
                   Of(in.localStartAt) = {} \/ Of(in.localEndAt) = {}
            /\ answer.error = "ambiguous" =>
                   ~ single(Of(in.localStartAt)) \/ ~ single(Of(in.localEndAt))

\* The days of a series, counted by AddDate on instants of a zone with changing
\* offsets, are the days the rule is due on, in order and without a hole, up to
\* the count or the date until, and there are never more than 100.
RuleHonoured ==
    Answered("preview") =>
        /\ Len(answer.occurrences) \in 1 .. 100
        /\ \A i, j \in DOMAIN answer.occurrences :
               i < j => day(answer.occurrences[i]) < day(answer.occurrences[j])
        /\ {day(answer.occurrences[i]) : i \in DOMAIN answer.occurrences}
               = among(dueDays(firstDay), rule.count)

\* Every occurrence shows the clock of the first one and, on a day that has a
\* midnight, lasts as long on the wall, on both sides of a change of the offset;
\* all-day ones begin and end at the start of their days and span as many.
ClockKept ==
    Answered("preview") =>
        LET z == request.in.zone
        IN  \A i \in DOMAIN answer.occurrences :
                LET o == answer.occurrences[i]
                IN  IF request.in.allDay
                    THEN /\ o.endDate - o.startDate = times.endDate - times.startDate
                         /\ \A u \in {o.start, o.end} : date(z, u - 1) < date(z, u)
                         /\ date(z, o.start) = o.startDate /\ date(z, o.end) = o.endDate
                    ELSE /\ clock(z, o.start) = clock(z, times.start)
                         /\ clock(z, days[i]) = 0 => local(z, o.start) = o.localStart
                         /\ clock(z, days[i]) = 0 /\ times.end # None =>
                                local(z, o.end) - local(z, o.start)
                                    = local(z, times.end) - local(z, times.start)

\* No month is passed over in silence: every month the rule visits up to the
\* last occurrence has an occurrence, an excluded date, or an entry in skipped,
\* and what is skipped lacks the day.
MonthsAccounted ==
    Answered("preview") /\ rule.frequency = "MONTHLY" =>
        LET months(D) == {monthOf[d] : d \in D}
            held == {day(answer.occurrences[i]) : i \in DOMAIN answer.occurrences}
            lacking == months(elements(answer.skipped))
        IN  /\ \A m \in monthOf[firstDay] .. latest(months(held)) :
                   (m - monthOf[firstDay]) % rule.interval = 0 =>
                       m \in months(held) \cup lacking \cup months(elements(rule.exdates))
            /\ \A m \in lacking : monthLength(m) < dayOfMonth(firstDay)

\* A series is refused only for a reason in the fields or in the days it asks
\* for: a wall time that does not exist, or exists twice and no fold is chosen,
\* an end that is not after the start, no occurrence at all, or more than 100.
RefusalJustified ==
    request # None /\ request.op = "preview" /\ answer.error # "none" =>
        LET in    == request.in
            z     == in.zone
            lasts == IF times.end = None THEN 0 ELSE local(z, times.end) - local(z, times.start)
            reason(starts, ends) ==
                CASE answer.error = "nonexistent" -> \E w \in starts \cup ends : instants(z, w) = {}
                  [] answer.error = "ambiguous" ->
                        \/ in.startFold = "" /\ \E w \in starts : ~ single(instants(z, w))
                        \/ in.endFold = "" /\ \E w \in ends : ~ single(instants(z, w))
                  [] answer.error = "size" -> Cardinality(starts) \notin 1 .. 100
                  [] answer.error = "invalid" ->
                        \E w \in ends : \E u \in instants(z, w - lasts), v \in instants(z, w) : v <= u
            asked(starts) == reason(starts, IF lasts = 0 THEN {} ELSE {w + lasts : w \in starts})
        IN  \/ times.error # "none" \/ ruleInvalid(rule) \/ timesInvalid(z, times, in.allDay)
            \/ rule.until # None /\ rule.until \notin firstDay .. yearLater(firstDay)
            \/ asked({d * Day + clock(z, times.start) :
                         d \in among(dueDays(firstDay), rule.count)})

\* A later occurrence moved with the selected one moves as far on the wall and
\* lasts as long, when the patch leaves the time zone alone.
MovesTogether ==
    Answered("move") /\ request.in.zone = request.in.newZone =>
        LET move == request.in
            z    == move.zone
        IN  IF move.allDay
            THEN answer.startDate - move.other.startDate = move.new.startDate - move.old.startDate
            ELSE /\ local(z, answer.start) - local(z, move.other.start)
                        = local(z, move.new.start) - local(z, move.old.start)
                 /\ move.new.end # None =>
                        local(z, answer.end) - local(z, answer.start)
                            = local(z, move.new.end) - local(z, move.new.start)

\* openapi.yaml, RecurrenceRule: "Until is inclusive in the series timezone."
\* A rule that is due every day has its last occurrence on the date until.
UntilInclusive ==
    Answered("preview") /\ rule.frequency = "DAILY" /\ rule.interval = 1
    /\ rule.until # None /\ rule.exdates = <<>> =>
        day(answer.occurrences[Len(answer.occurrences)]) = rule.until
=============================================================================
