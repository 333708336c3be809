------------------------------ MODULE LocalTime ------------------------------
(***************************************************************************)
(* Local times and instants: internal/api/localtime.go, the same           *)
(* resolution in internal/service/schedules.go, resolveScheduleTimes of    *)
(* internal/api/schedules.go, and the two functions of Go's package time   *)
(* they rest on.                                                           *)
(*                                                                         *)
(* An instant is a number of ticks, a wall time the number of ticks a      *)
(* clock in UTC would need to show it.  Offset gives, for each zone and    *)
(* instant in From .. To, how far the zone's wall time is ahead of UTC.    *)
(***************************************************************************)
EXTENDS Integers

CONSTANTS
    Zones,     \* zones of the IANA database
    Offset,    \* the offset of each zone at each instant
    From, To,  \* the instants the offsets are given for
    Hour,      \* ticks in an hour
    Spacing,   \* the least time between two changes of a zone's offset
    None       \* a field that is absent, a result there is not

\* An offset is at most 14 hours, and it stays for a while.
ASSUME ZonesAssumption ==
    /\ From \in Int /\ To \in Int /\ Hour \in Nat \ {0}
    /\ Spacing \in Nat /\ Spacing >= 29 * Hour
    /\ Offset \in [Zones -> [From .. To -> -(14 * Hour) .. 14 * Hour]]
    /\ \A z \in Zones : \A u \in From .. To :
           \E a \in (u - Spacing + 1) .. u :
               \A v \in a .. a + Spacing - 1 : v \in From .. To => Offset[z][v] = Offset[z][u]

Day == 24 * Hour

\* What a clock in the zone shows at instant u.
local(z, u) == u + Offset[z][u]

date(z, u) == local(z, u) \div Day
clock(z, u) == local(z, u) % Day

\* time.Date (external): the offset in force at the wall time taken as UTC
\* leads to a guess, and the offset in force at the guess to the result.  A
\* wall time that does not exist becomes one before or after the gap.
Date(z, wall) == wall - Offset[z][wall - Offset[z][wall]]

dateAtTimezoneMidnight(z, day) == Date(z, day * Day)

\* t.AddDate(0, 0, n) (external): n days later at the same clock.
addDays(z, u, n) == Date(z, (date(z, u) + n) * Day + clock(z, u))

-----------------------------------------------------------------------------
(* resolveLocalDateTime and resolveServiceWall.                             *)

probes(wall) == {wall + n * Hour : n \in {-48, -24, -6, 0, 6, 24, 48}}

\* The offsets found around the wall time, and the instants they lead to which
\* show the wall time.
candidates(z, wall) ==
    {c \in {wall - Offset[z][p] : p \in probes(wall)} : local(z, c) = wall}

earliest(S) == CHOOSE c \in S : \A d \in S : c <= d
latest(S) == CHOOSE c \in S : \A d \in S : d <= c

Resolved(at) == [error |-> "none", at |-> at]
Failed(error) == [error |-> error, at |-> None]

Folds == {"", "earlier", "later"}

\* Mutant: the earlier instant is taken when there is no choice.
chosen_default(C, fold) == Resolved(IF fold = "later" THEN latest(C) ELSE earliest(C))

chosen(C, fold) ==
    CASE fold = "earlier" -> Resolved(earliest(C))
      [] fold = "later"   -> Resolved(latest(C))
      [] OTHER            -> Failed("ambiguous")

single(C) == \A c, d \in C : c = d

resolveLocalDateTime(z, wall, fold) ==
    LET C == candidates(z, wall)
    IN  IF C = {} THEN Failed("nonexistent")
        ELSE IF ~ single(C) THEN chosen(C, fold)
        ELSE IF fold # "" THEN Failed("invalid")
        ELSE Resolved(earliest(C))

\* The service takes a fold that is not needed for no fold.
resolveServiceWall(z, wall, fold) ==
    LET C == candidates(z, wall)
    IN  IF C = {} THEN Failed("invalid")
        ELSE IF ~ single(C)
        THEN IF fold = "" THEN Failed("invalid") ELSE chosen(C, fold)
        ELSE Resolved(earliest(C))

-----------------------------------------------------------------------------
(* resolveScheduleTimes: the four ways to give the times of a schedule.     *)

\* The answer: both instants, and the dates of an all-day schedule.
Times(start, end, startDate, endDate) ==
    [error |-> "none", start |-> start, end |-> end,
     startDate |-> startDate, endDate |-> endDate]
Refused(error) ==
    [error |-> error, start |-> None, end |-> None, startDate |-> None, endDate |-> None]

given(in, fields) == \E f \in fields : in[f] # None

byDates(in) ==
    LET start == dateAtTimezoneMidnight(in.zone, in.startDate)
        end   == dateAtTimezoneMidnight(in.zone, in.endDate)
    IN  IF in.startDate = None \/ in.endDate = None
           \/ given(in, {"startAt", "localStartAt", "endAt", "localEndAt"})
        THEN Refused("invalid")
        ELSE IF end <= start THEN Refused("invalid")
        ELSE Times(start, end, in.startDate, in.endDate)

byWallTimes(in) ==
    LET start == resolveLocalDateTime(in.zone, in.localStartAt, in.startFold)
        end   == resolveLocalDateTime(in.zone, in.localEndAt, in.endFold)
    IN  IF in.startAt # None \/ in.localStartAt = None
           \/ (in.endAt # None /\ in.localEndAt # None)
        THEN Refused("invalid")
        ELSE IF start.error # "none" THEN Refused(start.error)
        ELSE IF in.localEndAt = None THEN Times(start.at, in.endAt, None, None)
        ELSE IF end.error # "none" THEN Refused(end.error)
        ELSE Times(start.at, end.at, None, None)

\* An all-day schedule from instants: the days they fall on, at least one.
byInstantsAllDay(in) ==
    LET z  == in.zone
        sd == date(z, in.startAt)
        ed == IF in.endAt # None /\ date(z, in.endAt) > sd
              THEN date(z, in.endAt)
              ELSE date(z, addDays(z, in.startAt, 1))
    IN  Times(dateAtTimezoneMidnight(z, sd), dateAtTimezoneMidnight(z, ed), sd, ed)

resolveScheduleTimes(in) ==
    IF in.allDay /\ given(in, {"startDate", "endDate"}) THEN byDates(in)
    ELSE IF given(in, {"startDate", "endDate"}) THEN Refused("invalid")
    ELSE IF given(in, {"localStartAt", "localEndAt"}) THEN byWallTimes(in)
    ELSE IF in.startAt = None THEN Refused("invalid")
    ELSE IF in.allDay THEN byInstantsAllDay(in)
    ELSE IF in.startFold # "" \/ in.endFold # "" THEN Refused("invalid")
    ELSE Times(in.startAt, in.endAt, None, None)

-----------------------------------------------------------------------------
\* For reference: the instants at which a clock in the zone shows wall.
instants(z, wall) ==
    {u \in wall - 14 * Hour .. wall + 14 * Hour : u \in From .. To /\ local(z, u) = wall}

\* The wall times whose surroundings the offsets are given for.
Walls == From + 62 * Hour .. To - 62 * Hour

\* Every day of the zone has a midnight, and its offsets are less than a day
\* apart: it does not cross the date line.
HasMidnights(z) ==
    /\ \A wall \in Walls : wall % Day = 0 => instants(z, wall) # {}
    /\ \A a, b \in {Offset[z][u] : u \in From .. To} : a - b < Day

\* No day has two.
OneMidnight(z) == \A wall \in Walls : wall % Day = 0 => single(instants(z, wall))
=============================================================================
