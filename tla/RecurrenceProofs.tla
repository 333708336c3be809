-------------------------- MODULE RecurrenceProofs --------------------------
(***************************************************************************)
(* Proofs about wall times and series, for every zone whose offset stays   *)
(* within 14 hours and is kept for 29 hours or more.                       *)
(*                                                                         *)
(* ProbesSuffice: the seven offsets resolveLocalDateTime and               *)
(* resolveServiceWall look at lead to every instant that shows the wall    *)
(* time.  An instant that does lies within 14 hours of the wall time; the  *)
(* period its offset is in force for reaches so far to one side or to the  *)
(* other that a probe falls into it.                                       *)
(*                                                                         *)
(* DateShows: time.Date answers with an instant that shows the wall time   *)
(* if there is one.  In a zone whose days have midnights, the candidates   *)
(* of a series are therefore the midnights of calendar days, in the order  *)
(* of the days, so that comparing instants is comparing dates, and what    *)
(* generateOccurrences computes by AddDate and Before on instants is what  *)
(* the rule says on the calendar.                                          *)
(***************************************************************************)
EXTENDS Recurrence, FiniteSetTheorems, WellFoundedInduction, TLAPS

-----------------------------------------------------------------------------
(* The earliest and the latest of some instants.                            *)

\* Of some numbers one is the least.
LEMMA LeastNumber ==
    ASSUME NEW N \in SUBSET Nat, N # {}
    PROVE  \E n \in N : \A m \in N : n <= m
  <1> DEFINE R == OpToRel(<, Nat)
  <1>1. PICK n \in N : \A m \in N : ~ (<<m, n>> \in R)
    <2>1. IsWellFoundedOn(R, Nat)
      BY NatLessThanWellFounded
    <2> HIDE DEF R
    <2> QED BY <2>1, WFMin
  <1>2. \A m \in N : ~ (m < n)
    BY <1>1 DEF OpToRel
  <1> QED BY <1>2

\* What earliest and latest choose among the instants of an interval.
LEMMA Extremes ==
    ASSUME NEW lo \in Int, NEW hi \in Int, NEW S \in SUBSET (lo .. hi), S # {}
    PROVE  /\ earliest(S) \in S /\ \A d \in S : earliest(S) <= d
           /\ latest(S) \in S /\ \A d \in S : d <= latest(S)
  <1>1. \E c \in S : \A d \in S : c <= d
    <2> DEFINE N == {u - lo : u \in S}
    <2>1. N \in SUBSET Nat /\ N # {}
      OBVIOUS
    <2>2. PICK n \in N : \A m \in N : n <= m
      BY <2>1, LeastNumber
    <2>3. PICK c \in S : n = c - lo
      BY <2>2
    <2>4. \A d \in S : n <= d - lo
      BY <2>2
    <2> QED BY <2>3, <2>4
  <1>2. \E c \in S : \A d \in S : d <= c
    <2> DEFINE N == {hi - u : u \in S}
    <2>1. N \in SUBSET Nat /\ N # {}
      <3>1. \A u \in S : hi - u \in Nat
        OBVIOUS
      <3> QED BY <3>1
    <2>2. PICK n \in N : \A m \in N : n <= m
      BY <2>1, LeastNumber
    <2>3. PICK c \in S : n = hi - c
      BY <2>2
    <2>4. \A d \in S : n <= hi - d
      BY <2>2
    <2> QED BY <2>3, <2>4
  <1> QED BY <1>1, <1>2 DEF earliest, latest

-----------------------------------------------------------------------------
(* The probes.                                                              *)

\* A period of 29 hours or more around an instant within 14 hours of the wall
\* time has a probe in it.
LEMMA ProbeInPeriod ==
    ASSUME NEW wall \in Int, NEW u \in wall - 14 * Hour .. wall + 14 * Hour,
           NEW a \in (u - Spacing + 1) .. u
    PROVE  \E p \in probes(wall) : p \in a .. a + Spacing - 1
  <1>1. /\ Hour \in Nat /\ Hour > 0 /\ Spacing \in Nat /\ Spacing >= 29 * Hour
        /\ a \in Int /\ u \in Int
    BY ZonesAssumption
  <1>2. /\ wall - 24 * Hour \in probes(wall) /\ wall - 6 * Hour \in probes(wall)
        /\ wall \in probes(wall)
        /\ wall + 6 * Hour \in probes(wall) /\ wall + 24 * Hour \in probes(wall)
    <2>1. /\ wall - 24 * Hour = wall + (-24) * Hour /\ wall - 6 * Hour = wall + (-6) * Hour
          /\ wall = wall + 0 * Hour
      BY <1>1
    <2> QED BY <2>1 DEF probes
  <1>3. CASE a <= wall - 24 * Hour
    <2>1. wall - 24 * Hour \in a .. a + Spacing - 1
      BY <1>1, <1>3
    <2> QED BY <1>2, <2>1
  <1>4. CASE a > wall - 24 * Hour /\ a <= wall - 6 * Hour
    <2>1. wall - 6 * Hour \in a .. a + Spacing - 1
      BY <1>1, <1>4
    <2> QED BY <1>2, <2>1
  <1>5. CASE a > wall - 6 * Hour /\ a <= wall
    <2>1. wall \in a .. a + Spacing - 1
      BY <1>1, <1>5
    <2> QED BY <1>2, <2>1
  <1>6. CASE a > wall /\ a <= wall + 6 * Hour
    <2>1. wall + 6 * Hour \in a .. a + Spacing - 1
      BY <1>1, <1>6
    <2> QED BY <1>2, <2>1
  <1>7. CASE a > wall + 6 * Hour
    <2>1. wall + 24 * Hour \in a .. a + Spacing - 1
      BY <1>1, <1>7
    <2> QED BY <1>2, <2>1
  <1> QED BY <1>1, <1>3, <1>4, <1>5, <1>6, <1>7

\* The probes of a wall time lie where the offsets are given.
LEMMA ProbesGiven ==
    ASSUME NEW wall \in Walls
    PROVE  /\ wall \in Int /\ probes(wall) \subseteq From .. To
           /\ wall - 14 * Hour .. wall + 14 * Hour \subseteq From .. To
  <1>1. Hour \in Nat /\ From \in Int /\ To \in Int
    BY ZonesAssumption
  <1>2. wall \in Int /\ From + 62 * Hour <= wall /\ wall <= To - 62 * Hour
    BY <1>1 DEF Walls
  <1>3. ASSUME NEW n \in {-48, -24, -6, 0, 6, 24, 48}
        PROVE  wall + n * Hour \in From .. To
    BY <1>1, <1>2
  <1>4. probes(wall) \subseteq From .. To
    BY <1>3 DEF probes
  <1> QED BY <1>1, <1>2, <1>4

\* What a clock shows is a wall time.
LEMMA ClocksShow ==
    ASSUME NEW z \in Zones, NEW u \in From .. To
    PROVE  u \in Int /\ local(z, u) \in Int
  <1>1. From \in Int /\ To \in Int /\ Hour \in Nat
    BY ZonesAssumption
  <1>2. Offset \in [Zones -> [From .. To -> -(14 * Hour) .. 14 * Hour]]
    BY ZonesAssumption
  <1>3. Offset[z][u] \in -(14 * Hour) .. 14 * Hour
    BY <1>2
  <1>4. Offset[z][u] \in Int
    BY <1>1, <1>3
  <1> QED BY <1>1, <1>4 DEF local

\* resolveLocalDateTime and resolveServiceWall find every instant at which a
\* clock in the zone shows the wall time, and no other, although they look at
\* the offsets of seven instants only.
THEOREM ProbesSuffice ==
    ASSUME NEW z \in Zones, NEW wall \in Walls
    PROVE  candidates(z, wall) = instants(z, wall)
  <1>1. /\ wall \in Int /\ Hour \in Nat /\ From \in Int /\ To \in Int
        /\ probes(wall) \subseteq From .. To
        /\ wall - 14 * Hour .. wall + 14 * Hour \subseteq From .. To
        /\ \A u \in From .. To : Offset[z][u] \in -(14 * Hour) .. 14 * Hour
    BY ProbesGiven, ZonesAssumption
  <1>2. ASSUME NEW u \in instants(z, wall) PROVE u \in candidates(z, wall)
    <2>1. u \in wall - 14 * Hour .. wall + 14 * Hour /\ u \in From .. To /\ local(z, u) = wall
      BY <1>2 DEF instants
    <2>2. PICK a \in (u - Spacing + 1) .. u :
              \A v \in a .. a + Spacing - 1 : v \in From .. To => Offset[z][v] = Offset[z][u]
      BY <2>1, ZonesAssumption
    <2>3. PICK p \in probes(wall) : p \in a .. a + Spacing - 1
      BY <1>1, <2>1, ProbeInPeriod
    <2>4. Offset[z][p] = Offset[z][u]
      BY <1>1, <2>2, <2>3
    <2>5. u = wall - Offset[z][p]
      BY <1>1, <2>1, <2>4 DEF local
    <2> QED BY <2>1, <2>3, <2>5 DEF candidates
  <1>3. ASSUME NEW c \in candidates(z, wall) PROVE c \in instants(z, wall)
    <2>1. PICK p \in probes(wall) : c = wall - Offset[z][p]
      BY <1>3 DEF candidates
    <2>2. c \in wall - 14 * Hour .. wall + 14 * Hour
      BY <1>1, <2>1
    <2>3. local(z, c) = wall
      BY <1>3 DEF candidates
    <2> QED BY <1>1, <2>2, <2>3 DEF instants
  <1> QED BY <1>2, <1>3

-----------------------------------------------------------------------------
(* A wall time resolved.                                                    *)

\* What an answer R to a wall time says of the instants that show it.
Settles(R, I, fold) ==
    /\ R.error = "none" =>
           /\ R.at \in I
           /\ fold = "" => single(I)
           /\ \A u \in I : /\ fold = "earlier" => R.at <= u
                           /\ fold = "later" => R.at >= u
    /\ R.error = "nonexistent" => I = {}
    /\ R.error = "ambiguous" => ~ single(I)

\* Both extremes of the instants that show a wall time.
LEMMA InstantsExtremes ==
    ASSUME NEW z \in Zones, NEW wall \in Walls, instants(z, wall) # {}
    PROVE  LET I == instants(z, wall)
           IN  /\ earliest(I) \in I /\ \A d \in I : earliest(I) <= d
               /\ latest(I) \in I /\ \A d \in I : d <= latest(I)
  <1>1. wall \in Int /\ Hour \in Nat
    BY ProbesGiven, ZonesAssumption
  <1>2. instants(z, wall) \in SUBSET (wall - 14 * Hour .. wall + 14 * Hour)
    BY DEF instants
  <1>3. wall - 14 * Hour \in Int /\ wall + 14 * Hour \in Int
    BY <1>1
  <1> QED BY <1>2, <1>3, Extremes

\* resolveLocalDateTime, which the handlers use.
LEMMA LocalSettles ==
    ASSUME NEW z \in Zones, NEW wall \in Walls, NEW fold \in Folds
    PROVE  Settles(resolveLocalDateTime(z, wall, fold), instants(z, wall), fold)
  <1> DEFINE I == instants(z, wall)
             R == resolveLocalDateTime(z, wall, fold)
  <1>1. R = IF I = {} THEN Failed("nonexistent")
            ELSE IF ~ single(I) THEN chosen(I, fold)
            ELSE IF fold # "" THEN Failed("invalid")
            ELSE Resolved(earliest(I))
    BY ProbesSuffice DEF resolveLocalDateTime
  <1>2. \A e : Failed(e).error = e
    BY DEF Failed
  <1>3. \A at : Resolved(at).error = "none" /\ Resolved(at).at = at
    BY DEF Resolved
  <1>4. I # {} => /\ earliest(I) \in I /\ \A d \in I : earliest(I) <= d
                  /\ latest(I) \in I /\ \A d \in I : d <= latest(I)
    BY InstantsExtremes
  <1>5. I \subseteq Int
    BY ProbesGiven, ZonesAssumption DEF instants
  <1> SUFFICES Settles(R, I, fold)
    OBVIOUS
  <1> HIDE DEF I, R
  <1>6. CASE I = {}
    BY <1>1, <1>2, <1>6 DEF Settles
  <1>7. CASE I # {} /\ ~ single(I)
    <2>1. CASE fold = "earlier"
      <3>1. R = Resolved(earliest(I))
        BY <1>1, <1>7, <2>1 DEF chosen
      <3> QED BY <1>3, <1>4, <1>7, <2>1, <3>1 DEF Settles
    <2>2. CASE fold = "later"
      <3>1. R = Resolved(latest(I))
        BY <1>1, <1>7, <2>2 DEF chosen
      <3>2. \A d \in I : latest(I) >= d
        BY <1>4, <1>5, <1>7
      <3> QED BY <1>3, <1>4, <1>7, <2>2, <3>1, <3>2 DEF Settles
    <2>3. CASE fold = ""
      <3>1. R = Failed("ambiguous")
        BY <1>1, <1>7, <2>3 DEF chosen
      <3>2. R.error = "ambiguous"
        BY <1>2, <3>1
      <3> QED BY <1>7, <3>2 DEF Settles
    <2> QED BY <2>1, <2>2, <2>3 DEF Folds
  <1>8. CASE I # {} /\ single(I) /\ fold # ""
    <2>1. R.error = "invalid"
      BY <1>1, <1>2, <1>8
    <2> QED BY <2>1 DEF Settles
  <1>9. CASE I # {} /\ single(I) /\ fold = ""
    BY <1>1, <1>3, <1>4, <1>9 DEF Settles
  <1> QED BY <1>6, <1>7, <1>8, <1>9

\* resolveServiceWall, which the service uses: what it answers shows the wall
\* time.
LEMMA ServiceShows ==
    ASSUME NEW z \in Zones, NEW wall \in Walls, NEW fold \in Folds,
           resolveServiceWall(z, wall, fold).error = "none"
    PROVE  LET at == resolveServiceWall(z, wall, fold).at
           IN  at \in From .. To /\ local(z, at) = wall
  <1> DEFINE I == instants(z, wall)
             R == resolveServiceWall(z, wall, fold)
  <1>1. R = IF I = {} THEN Failed("invalid")
            ELSE IF ~ single(I) THEN IF fold = "" THEN Failed("invalid") ELSE chosen(I, fold)
            ELSE Resolved(earliest(I))
    BY ProbesSuffice DEF resolveServiceWall
  <1>2. \A e : Failed(e).error = e
    BY DEF Failed
  <1>3. \A at : Resolved(at).error = "none" /\ Resolved(at).at = at
    BY DEF Resolved
  <1>4. I # {} => earliest(I) \in I /\ latest(I) \in I
    BY InstantsExtremes
  <1>5. \A u \in I : u \in From .. To /\ local(z, u) = wall
    BY DEF instants
  <1>6. R.error = "none"
    OBVIOUS
  <1> HIDE DEF I, R
  <1>7. I # {} /\ (R = Resolved(earliest(I)) \/ R = Resolved(latest(I)))
    BY <1>1, <1>2, <1>6 DEF chosen, Folds
  <1>8. R.at \in I
    BY <1>3, <1>4, <1>7
  <1>9. R.at \in From .. To /\ local(z, R.at) = wall
    BY <1>5, <1>8
  <1> QED BY <1>9 DEF R

-----------------------------------------------------------------------------
(* Single schedules: POST /schedules.                                       *)

\* A request that names the wall time of its start is answered by byWallTimes.
LEMMA AnsweredByWall ==
    ASSUME NEW in, in.localStartAt # None, NEW A,
           LET T == resolveScheduleTimes(in)
           IN  A = IF T.error = "none" /\ T.end # None /\ T.end <= T.start
                   THEN Refused("invalid") ELSE T
    PROVE  LET S == resolveLocalDateTime(in.zone, in.localStartAt, in.startFold)
               E == resolveLocalDateTime(in.zone, in.localEndAt, in.endFold)
           IN  /\ A.error = "none" => S.error = "none" /\ A.start = S.at
               /\ A.error \in {"nonexistent", "ambiguous"} =>
                      \/ S.error = A.error
                      \/ in.localEndAt # None /\ E.error = A.error
  <1> DEFINE S == resolveLocalDateTime(in.zone, in.localStartAt, in.startFold)
             E == resolveLocalDateTime(in.zone, in.localEndAt, in.endFold)
             T == resolveScheduleTimes(in)
             Good(B) == /\ B.error = "none" => S.error = "none" /\ B.start = S.at
                        /\ B.error \in {"nonexistent", "ambiguous"} =>
                               \/ S.error = B.error
                               \/ in.localEndAt # None /\ E.error = B.error
  <1>1. \A e : Refused(e).error = e
    BY DEF Refused
  <1>2. \A a, b, c, d : Times(a, b, c, d).error = "none" /\ Times(a, b, c, d).start = a
    BY DEF Times
  <1>3. Good(Refused("invalid"))
    BY <1>1
  <1>4. given(in, {"startAt", "localStartAt", "endAt", "localEndAt"})
        /\ given(in, {"localStartAt", "localEndAt"})
    BY DEF given
  <1>5. T \in {Refused("invalid"), byWallTimes(in)}
    BY <1>4 DEF resolveScheduleTimes, byDates
  <1>6. Good(byWallTimes(in))
    <2>1. \/ byWallTimes(in) = Refused("invalid")
          \/ S.error # "none" /\ byWallTimes(in) = Refused(S.error)
          \/ S.error = "none" /\ byWallTimes(in) = Times(S.at, in.endAt, None, None)
          \/ /\ S.error = "none" /\ in.localEndAt # None
             /\ E.error # "none" /\ byWallTimes(in) = Refused(E.error)
          \/ S.error = "none" /\ byWallTimes(in) = Times(S.at, E.at, None, None)
      BY DEF byWallTimes
    <2> HIDE DEF S, E
    <2> QED BY <1>1, <1>2, <2>1
  <1>7. A = Refused("invalid") \/ A = T
    OBVIOUS
  <1> HIDE DEF T, Good
  <1>8. Good(A)
    BY <1>3, <1>5, <1>6, <1>7
  <1> QED BY <1>8 DEF Good

\* A schedule created for a wall time starts at an instant that shows it, the
\* one the fold names if there are two, and is refused as nonexistent or as
\* ambiguous only when it is.
THEOREM WallTimesAreKept == Spec => []WallTimeKept
  <1>1. Init => WallTimeKept
    BY DEF Init, WallTimeKept
  <1>2. WallTimeKept /\ [Next]_vars => WallTimeKept'
    <2> SUFFICES ASSUME WallTimeKept, [Next]_vars PROVE WallTimeKept'
      OBVIOUS
    <2>1. ASSUME NEW in \in Requests, CreateSchedule(in) PROVE WallTimeKept'
      <3> SUFFICES ASSUME in.localStartAt # None
                   PROVE  WallTimeKept'
        <4>1. request'.in = in
          BY <2>1 DEF CreateSchedule, Asked
        <4> QED BY <4>1 DEF WallTimeKept
      <3> DEFINE S == resolveLocalDateTime(in.zone, in.localStartAt, in.startFold)
                 E == resolveLocalDateTime(in.zone, in.localEndAt, in.endFold)
                 I == instants(in.zone, in.localStartAt)
                 J == instants(in.zone, in.localEndAt)
      <3>1. request'.in = in
        BY <2>1 DEF CreateSchedule, Asked
      <3>2. /\ answer'.error = "none" => S.error = "none" /\ answer'.start = S.at
            /\ answer'.error \in {"nonexistent", "ambiguous"} =>
                   \/ S.error = answer'.error
                   \/ in.localEndAt # None /\ E.error = answer'.error
        <4>1. LET T == resolveScheduleTimes(in)
              IN  answer' = IF T.error = "none" /\ T.end # None /\ T.end <= T.start
                            THEN Refused("invalid") ELSE T
          BY <2>1 DEF CreateSchedule
        <4> QED BY <4>1, AnsweredByWall
      <3>3. Settles(S, I, in.startFold)
        BY RequestsAssumption, LocalSettles
      <3>4. in.localEndAt # None => Settles(E, J, in.endFold)
        BY RequestsAssumption, LocalSettles
      <3> HIDE DEF S, E
      <3>5. /\ answer'.error = "none" =>
                   /\ answer'.start \in I
                   /\ in.startFold = "" => single(I)
                   /\ \A u \in I : /\ in.startFold = "earlier" => answer'.start <= u
                                   /\ in.startFold = "later" => answer'.start >= u
            /\ answer'.error = "nonexistent" => I = {} \/ (in.localEndAt # None /\ J = {})
            /\ answer'.error = "ambiguous" => ~ single(I) \/ (in.localEndAt # None /\ ~ single(J))
        BY <3>2, <3>3, <3>4 DEF Settles
      <3> QED BY <3>1, <3>5 DEF WallTimeKept
    <2>2. ASSUME NEW in, PreviewRecurrence(in) PROVE WallTimeKept'
      <3>1. request'.op = "preview"
        BY <2>2 DEF PreviewRecurrence, Asked
      <3> QED BY <3>1 DEF WallTimeKept
    <2>3. ASSUME NEW move, UpdateFollowing(move) PROVE WallTimeKept'
      <3>1. request'.op = "move"
        BY <2>3 DEF UpdateFollowing, Asked
      <3> QED BY <3>1 DEF WallTimeKept
    <2>4. CASE Respond
      BY <2>4 DEF Respond, WallTimeKept
    <2>5. CASE UNCHANGED vars
      BY <2>5 DEF vars, WallTimeKept
    <2> QED BY <2>1, <2>2, <2>3, <2>4, <2>5 DEF Next
  <1> QED BY <1>1, <1>2, PTL DEF Spec

-----------------------------------------------------------------------------
(* Series: PATCH scope=following.                                           *)

\* A later occurrence moves as far on the wall as the selected one does and
\* lasts as long, on both sides of a change of the offset.
THEOREM OccurrencesMoveTogether == Spec => []MovesTogether
  <1>1. Init => MovesTogether
    BY DEF Init, MovesTogether, Answered
  <1>2. ASSUME NEW move \in Moves, UpdateFollowing(move) PROVE MovesTogether'
    <2>1. /\ request'.in = move
          /\ answer' = IF move.allDay THEN shiftAllDay(move) ELSE shiftTimed(move)
      BY <1>2 DEF UpdateFollowing, Asked
    <2>2. CASE move.allDay
      <3>1. answer'.startDate = move.other.startDate + (move.new.startDate - move.old.startDate)
        BY <2>1, <2>2, RequestsAssumption DEF shiftAllDay, Times
      <3>2. /\ move.other.startDate \in Int /\ move.new.startDate \in Int
            /\ move.old.startDate \in Int
        BY <2>2, RequestsAssumption
      <3>3. answer'.startDate - move.other.startDate = move.new.startDate - move.old.startDate
        BY <3>1, <3>2
      <3> QED BY <2>1, <2>2, <3>3 DEF MovesTogether
    <2>3. ASSUME ~ move.allDay, answer'.error = "none", move.zone = move.newZone
          PROVE  LET z == move.zone
                 IN  /\ local(z, answer'.start) - local(z, move.other.start)
                            = local(z, move.new.start) - local(z, move.old.start)
                     /\ move.new.end # None =>
                            local(z, answer'.end) - local(z, answer'.start)
                                = local(z, move.new.end) - local(z, move.new.start)
      <3> DEFINE z == move.newZone
                 S == resolveServiceWall(z, movedStart(move), move.startFold)
                 E == resolveServiceWall(z, movedEnd(move), move.endFold)
      <3>1. \A e : Refused(e).error = e
        BY DEF Refused
      <3>2. /\ S.error = "none" /\ answer'.start = S.at
            /\ move.new.end # None => E.error = "none" /\ answer'.end = E.at
        <4> HIDE DEF S, E
        <4>1. \/ answer' = Refused("invalid")
              \/ S.error = "none" /\ move.new.end = None /\ answer' = Times(S.at, None, None, None)
              \/ S.error = "none" /\ E.error = "none" /\ answer' = Times(S.at, E.at, None, None)
          BY <2>1, <2>3 DEF shiftTimed, S, E
        <4> QED BY <2>3, <3>1, <4>1 DEF Times
      <3>3. /\ z \in Zones /\ move.startFold \in Folds /\ move.endFold \in Folds
            /\ {move.old.start, move.new.start, move.other.start} \subseteq From .. To
            /\ movedStart(move) \in Walls
            /\ move.new.end # None => move.new.end \in From .. To /\ movedEnd(move) \in Walls
        BY <2>3, RequestsAssumption
      <3>4. local(z, answer'.start) = movedStart(move)
        BY <3>2, <3>3, ServiceShows
      <3>5. move.new.end # None => local(z, answer'.end) = movedEnd(move)
        BY <3>2, <3>3, ServiceShows
      <3>6. ASSUME NEW u \in From .. To PROVE local(z, u) \in Int
        <4>1. z \in Zones
          BY <3>3
        <4> HIDE DEF z, S, E
        <4> QED BY <4>1, ClocksShow
      <3> HIDE DEF z, S, E
      <3>7. local(z, answer'.start)
                = local(z, move.other.start) + (local(z, move.new.start) - local(z, move.old.start))
        BY <2>3, <3>4 DEF movedStart, z
      <3>8. move.new.end # None =>
                local(z, answer'.end)
                    = local(z, answer'.start) + (local(z, move.new.end) - local(z, move.new.start))
        BY <2>3, <3>4, <3>5 DEF movedEnd, z
      <3>9. local(z, answer'.start) \in Int
        BY <3>3, <3>6, <3>7
      <3>10. local(z, answer'.start) - local(z, move.other.start)
                 = local(z, move.new.start) - local(z, move.old.start)
        BY <3>3, <3>6, <3>7
      <3>11. move.new.end # None =>
                 local(z, answer'.end) - local(z, answer'.start)
                     = local(z, move.new.end) - local(z, move.new.start)
        BY <3>3, <3>6, <3>8, <3>9
      <3> QED BY <2>3, <3>10, <3>11 DEF z
    <2> QED BY <2>1, <2>2, <2>3 DEF MovesTogether, Answered
  <1>3. MovesTogether /\ [Next]_vars => MovesTogether'
    <2> SUFFICES ASSUME MovesTogether, [Next]_vars PROVE MovesTogether'
      OBVIOUS
    <2>1. ASSUME NEW in, CreateSchedule(in) \/ PreviewRecurrence(in) PROVE MovesTogether'
      <3>1. request'.op \in {"create", "preview"}
        BY <2>1 DEF CreateSchedule, PreviewRecurrence, Asked
      <3> QED BY <3>1 DEF MovesTogether, Answered
    <2>2. CASE Respond
      BY <2>2 DEF Respond, MovesTogether, Answered
    <2>3. CASE UNCHANGED vars
      BY <2>3 DEF vars, MovesTogether, Answered
    <2> QED BY <1>2, <2>1, <2>2, <2>3 DEF Next
  <1> QED BY <1>1, <1>3, PTL DEF Spec

-----------------------------------------------------------------------------
(* Series: the occurrences of a recurrence.                                 *)

\* A wall time put together from a day and a clock.
LEMMA WallParts ==
    ASSUME NEW D \in Nat \ {0}, NEW d \in Int, NEW c \in 0 .. D - 1
    PROVE  (d * D + c) \div D = d /\ (d * D + c) % D = c
  OBVIOUS

\* resolveRecurringLocal, which takes the fold only where there are two
\* instants: what it answers shows the wall time.
LEMMA RecurringShows ==
    ASSUME NEW z \in Zones, NEW wall \in Walls, NEW fold \in Folds,
           resolveRecurringLocal(z, wall, fold).error = "none"
    PROVE  LET at == resolveRecurringLocal(z, wall, fold).at
           IN  at \in From .. To /\ local(z, at) = wall
  <1> DEFINE R == resolveRecurringLocal(z, wall, fold)
  <1>1. PICK g \in Folds : R = resolveLocalDateTime(z, wall, g)
    BY DEF resolveRecurringLocal, Folds
  <1>2. Settles(R, instants(z, wall), g) /\ R.error = "none"
    BY <1>1, LocalSettles
  <1> HIDE DEF R
  <1>3. R.at \in instants(z, wall)
    BY <1>2 DEF Settles
  <1>4. R.at \in From .. To /\ local(z, R.at) = wall
    BY <1>3 DEF instants
  <1> QED BY <1>4 DEF R

-----------------------------------------------------------------------------
(* What a loop keeps of a sequence.                                         *)

\* How many of the positions are not after i.
upto(at, i) == Cardinality(at \cap (1 .. i))

\* Counting the positions in at.
LEMMA CountSteps ==
    ASSUME NEW L \in Nat, NEW at \in SUBSET (1 .. L)
    PROVE  /\ upto(at, 0) = 0
           /\ upto(at, L) = Cardinality(at)
           /\ \A i \in 0 .. L : upto(at, i) \in Nat /\ upto(at, i) <= i
           /\ \A i \in 1 .. L : upto(at, i) = IF i \in at THEN upto(at, i - 1) + 1
                                              ELSE upto(at, i - 1)
           /\ \A i, k \in 0 .. L : i <= k => upto(at, i) <= upto(at, k)
  <1>1. at \cap (1 .. 0) = {} /\ at \cap (1 .. L) = at
    <2>1. \A i \in 1 .. 0 : FALSE
      OBVIOUS
    <2>2. \A i \in at : i \in 1 .. L
      OBVIOUS
    <2> QED BY <2>1, <2>2
  <1>2. ASSUME NEW i \in 0 .. L
        PROVE  /\ IsFiniteSet(at \cap (1 .. i))
               /\ upto(at, i) \in Nat /\ upto(at, i) <= i
    <2>1. IsFiniteSet(1 .. i) /\ Cardinality(1 .. i) = i
      BY FS_Interval
    <2>2. at \cap (1 .. i) \in SUBSET (1 .. i)
      OBVIOUS
    <2>3. IsFiniteSet(at \cap (1 .. i)) /\ Cardinality(at \cap (1 .. i)) <= i
      BY <2>1, <2>2, FS_Subset
    <2> QED BY <2>3, FS_CardinalityType DEF upto
  <1>3. ASSUME NEW i \in 1 .. L
        PROVE  upto(at, i) = IF i \in at THEN upto(at, i - 1) + 1 ELSE upto(at, i - 1)
    <2>1. IsFiniteSet(at \cap (1 .. i - 1))
      BY <1>2
    <2>2. CASE i \in at
      <3>1. at \cap (1 .. i) = (at \cap (1 .. i - 1)) \cup {i} /\ i \notin at \cap (1 .. i - 1)
        BY <2>2
      <3> QED BY <2>1, <2>2, <3>1, FS_AddElement DEF upto
    <2>3. CASE i \notin at
      <3>1. at \cap (1 .. i) = at \cap (1 .. i - 1)
        BY <2>3
      <3> QED BY <2>3, <3>1 DEF upto
    <2> QED BY <2>2, <2>3
  <1>4. ASSUME NEW i \in 0 .. L, NEW k \in 0 .. L, i <= k
        PROVE  upto(at, i) <= upto(at, k)
    <2>1. at \cap (1 .. i) \in SUBSET (at \cap (1 .. k))
      BY <1>4
    <2> QED BY <1>2, <2>1, FS_Subset DEF upto
  <1> QED BY <1>1, <1>2, <1>3, <1>4, FS_EmptySet DEF upto

\* Each number up to the count is reached at one position.
LEMMA CountReaches ==
    ASSUME NEW L \in Nat, NEW at \in SUBSET (1 .. L), NEW n \in 1 .. Cardinality(at)
    PROVE  \E i \in at \cap (n .. L) : upto(at, i) = n
  <1> DEFINE N == {i \in 0 .. L : upto(at, i) >= n}
  <1>1. /\ Cardinality(at) \in Nat /\ upto(at, L) = Cardinality(at) /\ upto(at, 0) = 0
    <2>1. /\ upto(at, L) = Cardinality(at) /\ upto(at, 0) = 0
          /\ \A i \in 0 .. L : upto(at, i) \in Nat
      BY CountSteps
    <2>2. L \in 0 .. L
      OBVIOUS
    <2> QED BY <2>1, <2>2
  <1>2. N \in SUBSET Nat /\ N # {}
    <2>1. L \in N
      BY <1>1
    <2> QED BY <2>1
  <1>3. PICK i \in N : \A m \in N : i <= m
    <2> HIDE DEF N
    <2> QED BY <1>2, LeastNumber
  <1>4. i \in 1 .. L
    BY <1>1, <1>3
  <1>5. i - 1 \in 0 .. L /\ i - 1 \notin N
    BY <1>3, <1>4
  <1>6. upto(at, i - 1) < n
    <2>1. upto(at, i - 1) \in Nat
      BY <1>5, CountSteps
    <2>2. ~ (upto(at, i - 1) >= n)
      BY <1>5
    <2> QED BY <1>1, <2>1, <2>2
  <1>7. upto(at, i) \in Nat /\ upto(at, i - 1) \in Nat /\ upto(at, i) <= i
        /\ upto(at, i) = IF i \in at THEN upto(at, i - 1) + 1 ELSE upto(at, i - 1)
    <2>1. i \in 0 .. L
      BY <1>4
    <2>2. upto(at, i) \in Nat /\ upto(at, i) <= i
      BY <2>1, CountSteps
    <2>3. upto(at, i - 1) \in Nat
      BY <1>5, CountSteps
    <2>4. upto(at, i) = IF i \in at THEN upto(at, i - 1) + 1 ELSE upto(at, i - 1)
      <3>1. \A k \in 1 .. L : upto(at, k) = IF k \in at THEN upto(at, k - 1) + 1
                                            ELSE upto(at, k - 1)
        BY CountSteps
      <3> QED BY <1>4, <3>1
    <2> QED BY <2>2, <2>3, <2>4
  <1>8. upto(at, i) >= n
    BY <1>3
  <1> HIDE DEF N
  <1>9. i \in at /\ upto(at, i) = n /\ i >= n
    BY <1>1, <1>4, <1>6, <1>7, <1>8
  <1> QED BY <1>4, <1>9

\* k are the elements of s at the positions nth[1] < nth[2] < ..., which are all
\* the positions of elements in K.
Picked(s, K, k) ==
    \E m \in Nat : \E nth \in [1 .. m -> 1 .. Len(s)] :
        /\ k = [n \in 1 .. m |-> s[nth[n]]]
        /\ \A n, l \in 1 .. m : n < l => nth[n] < nth[l]
        /\ \A n \in 1 .. m : s[nth[n]] \in K
        /\ \A i \in 1 .. Len(s) : s[i] \in K => \E n \in 1 .. m : nth[n] = i

\* keep takes the elements in K in their order.
LEMMA Keeps ==
    ASSUME NEW S, NEW s \in Seq(S), NEW K
    PROVE  Picked(s, K, keep(s, K))
  <1> DEFINE L == Len(s)
             at == {i \in 1 .. L : s[i] \in K}
             rank == [i \in at |-> Cardinality(at \cap (1 .. i))]
             m == Cardinality(at)
             nth == [n \in 1 .. m |-> CHOOSE i \in at \cap (n .. L) : rank[i] = n]
  <1>1. L \in Nat /\ at \in SUBSET (1 .. L)
    OBVIOUS
  <1>2. keep(s, K) = [n \in 1 .. m |-> s[nth[n]]]
    BY DEF keep
  <1>3. \A i \in at : rank[i] = upto(at, i)
    BY DEF upto
  <1>4. \A i \in at : i \in 1 .. L /\ s[i] \in K
    OBVIOUS
  <1>5. \A i \in 1 .. L : s[i] \in K => i \in at
    OBVIOUS
  <1> HIDE DEF L, at, rank
  <1>6. m \in Nat
    BY <1>1, CountSteps
  <1>7. ASSUME NEW n \in 1 .. m
        PROVE  nth[n] \in at /\ upto(at, nth[n]) = n
    <2>1. \E i \in at \cap (n .. L) : rank[i] = n
      BY <1>1, <1>3, CountReaches
    <2>2. nth[n] \in at \cap (n .. L) /\ rank[nth[n]] = n
      BY <2>1
    <2> QED BY <1>3, <2>2
  <1>8. ASSUME NEW i \in at
        PROVE  upto(at, i) \in 1 .. m
    <2>1. i \in 1 .. L
      BY <1>4
    <2>2. i \in 0 .. L /\ i - 1 \in 0 .. L /\ L \in 0 .. L /\ i <= L
      BY <1>1, <2>1
    <2>3. upto(at, i) \in Nat /\ upto(at, i - 1) \in Nat
      BY <1>1, <2>2, CountSteps
    <2>4. upto(at, i) = upto(at, i - 1) + 1
      BY <1>1, <2>1, CountSteps
    <2>5. upto(at, i) <= upto(at, L) /\ upto(at, L) = m
      BY <1>1, <2>2, CountSteps
    <2> QED BY <1>6, <2>3, <2>4, <2>5
  <1>9. ASSUME NEW i \in at, NEW k \in at, i < k
        PROVE  upto(at, i) < upto(at, k)
    <2>1. i \in 1 .. L /\ k \in 1 .. L
      BY <1>4
    <2>2. i \in 0 .. L /\ k - 1 \in 0 .. L /\ i <= k - 1
      BY <1>1, <1>9, <2>1
    <2>3. upto(at, i) <= upto(at, k - 1)
      BY <1>1, <2>2, CountSteps
    <2>4. upto(at, k - 1) \in Nat /\ upto(at, i) \in Nat
      BY <1>1, <2>2, CountSteps
    <2>5. upto(at, k) = upto(at, k - 1) + 1
      BY <1>1, <2>1, CountSteps
    <2> QED BY <2>3, <2>4, <2>5
  <1>10. nth \in [1 .. m -> 1 .. L]
    BY <1>4, <1>7
  <1> HIDE DEF m, nth
  <1>11. ASSUME NEW n \in 1 .. m, NEW k \in 1 .. m, n < k
         PROVE  nth[n] < nth[k]
    <2>1. nth[n] \in at /\ nth[k] \in at /\ upto(at, nth[n]) = n /\ upto(at, nth[k]) = k
      BY <1>7
    <2>2. nth[n] \in Int /\ nth[k] \in Int /\ n \in Int /\ k \in Int
      BY <1>4, <2>1
    <2>3. CASE nth[n] = nth[k]
      BY <1>11, <2>1, <2>2, <2>3
    <2>4. CASE nth[k] < nth[n]
      <3>1. k < n
        BY <1>9, <2>1, <2>4
      <3> QED BY <1>11, <2>2, <3>1
    <2> QED BY <2>2, <2>3, <2>4
  <1>12. ASSUME NEW i \in 1 .. L, s[i] \in K
         PROVE  \E n \in 1 .. m : nth[n] = i
    <2>1. i \in at
      BY <1>5, <1>12
    <2> DEFINE n == upto(at, i)
    <2>2. n \in 1 .. m
      BY <1>8, <2>1
    <2>3. nth[n] \in at /\ upto(at, nth[n]) = n
      BY <1>7, <2>2
    <2>4. nth[n] \in Int /\ i \in Int /\ n \in Int
      BY <1>4, <1>12, <2>2, <2>3
    <2>5. ~ (nth[n] < i) /\ ~ (i < nth[n])
      <3> HIDE DEF n
      <3>1. ASSUME nth[n] < i PROVE FALSE
        BY <1>9, <2>1, <2>3, <2>4, <3>1 DEF n
      <3>2. ASSUME i < nth[n] PROVE FALSE
        BY <1>9, <2>1, <2>3, <2>4, <3>2 DEF n
      <3> QED BY <3>1, <3>2
    <2> QED BY <2>2, <2>4, <2>5
  <1>13. \A n \in 1 .. m : s[nth[n]] \in K
    BY <1>4, <1>7
  <1> QED BY <1>2, <1>6, <1>10, <1>11, <1>12, <1>13 DEF L, Picked

-----------------------------------------------------------------------------
(* The calendar.                                                            *)

\* monthStart up to month n.
monthsTo(n, f) == f = [m \in 0 .. n |-> IF m = 0 THEN 0 ELSE f[m - 1] + monthLength(m - 1)]

\* A month has 28 to 31 days.
LEMMA MonthLengths ==
    ASSUME NEW m \in Nat
    PROVE  monthLength(m) \in 28 .. 31
  BY DEF monthLength

\* There are month starts for any number of months: if not, for a least one, and
\* those of the months before extend to it.
LEMMA MonthsExist ==
    ASSUME NEW n \in Nat
    PROVE  \E f : monthsTo(n, f)
  <1> DEFINE N == {k \in Nat : ~ \E f : monthsTo(k, f)}
  <1> SUFFICES ASSUME N # {} PROVE FALSE
    OBVIOUS
  <1>1. PICK k \in N : \A j \in N : k <= j
    <2>1. N \in SUBSET Nat
      OBVIOUS
    <2> HIDE DEF N
    <2> QED BY <2>1, LeastNumber
  <1>2. k \in Nat /\ ~ \E f : monthsTo(k, f)
    BY <1>1
  <1>3. k # 0
    <2> DEFINE f == [m \in 0 .. 0 |-> 0]
    <2>1. monthsTo(0, f)
      BY DEF monthsTo
    <2> QED BY <1>2, <2>1
  <1>4. k - 1 \in Nat /\ k - 1 \notin N
    <2>1. k - 1 \in Nat
      BY <1>2, <1>3
    <2> QED BY <1>1, <1>2, <2>1
  <1>5. PICK f : monthsTo(k - 1, f)
    BY <1>4
  <1> DEFINE g == [m \in 0 .. k |-> IF m = k THEN f[k - 1] + monthLength(k - 1) ELSE f[m]]
  <1>6. ASSUME NEW m \in 0 .. k
        PROVE  g[m] = IF m = 0 THEN 0 ELSE g[m - 1] + monthLength(m - 1)
    <2>1. CASE m = k
      <3>1. m # 0 /\ m - 1 \in 0 .. k /\ m - 1 # k
        BY <1>2, <1>3, <2>1
      <3>2. g[m - 1] = f[m - 1]
        BY <3>1
      <3> QED BY <2>1, <3>1, <3>2
    <2>2. CASE m # k
      <3>1. m \in 0 .. k - 1
        BY <1>2, <2>2
      <3>2. f[m] = IF m = 0 THEN 0 ELSE f[m - 1] + monthLength(m - 1)
        BY <1>5, <3>1 DEF monthsTo
      <3>3. m # 0 => m - 1 \in 0 .. k /\ m - 1 # k
        BY <1>2, <3>1
      <3>4. g[m] = f[m] /\ (m # 0 => g[m - 1] = f[m - 1])
        BY <2>2, <3>3
      <3> QED BY <3>2, <3>4
    <2> QED BY <2>1, <2>2
  <1>7. monthsTo(k, g)
    <2>1. g = [m \in 0 .. k |-> g[m]]
      OBVIOUS
    <2> HIDE DEF g
    <2>2. [m \in 0 .. k |-> g[m]]
              = [m \in 0 .. k |-> IF m = 0 THEN 0 ELSE g[m - 1] + monthLength(m - 1)]
      BY <1>6
    <2> QED BY <2>1, <2>2 DEF monthsTo
  <1> QED BY <1>2, <1>7

\* Each month starts where the one before ends.
LEMMA MonthStarts ==
    /\ monthStart[0] = 0
    /\ \A m \in 0 .. MaxMonth : monthStart[m] \in Nat
    /\ \A m \in 0 .. MaxMonth - 1 : monthStart[m + 1] = monthStart[m] + monthLength(m)
  <1>1. MaxMonth \in Nat
    BY CalendarAssumption
  <1>2. \E f : f = [m \in 0 .. MaxMonth |-> IF m = 0 THEN 0 ELSE f[m - 1] + monthLength(m - 1)]
    BY <1>1, MonthsExist DEF monthsTo
  <1>3. monthStart = [m \in 0 .. MaxMonth |->
                         IF m = 0 THEN 0 ELSE monthStart[m - 1] + monthLength(m - 1)]
    BY <1>2 DEF monthStart
  <1>4. monthStart[0] = 0
    BY <1>1, <1>3
  <1>5. ASSUME NEW m \in 0 .. MaxMonth - 1
        PROVE  monthStart[m + 1] = monthStart[m] + monthLength(m)
    <2>1. m + 1 \in 0 .. MaxMonth /\ m + 1 # 0 /\ (m + 1) - 1 = m
      BY <1>1
    <2> QED BY <1>3, <2>1
  <1>6. ASSUME NEW m \in 0 .. MaxMonth
        PROVE  monthStart[m] \in Nat
    <2> DEFINE N == {k \in 0 .. MaxMonth : monthStart[k] \notin Nat}
    <2> SUFFICES ASSUME N # {} PROVE FALSE
      OBVIOUS
    <2>1. PICK k \in N : \A j \in N : k <= j
      <3>1. N \in SUBSET Nat
        OBVIOUS
      <3> HIDE DEF N
      <3> QED BY <3>1, LeastNumber
    <2>2. k \in 0 .. MaxMonth /\ monthStart[k] \notin Nat /\ k # 0
      BY <1>4, <2>1
    <2>3. k - 1 \in 0 .. MaxMonth - 1 /\ k - 1 \in 0 .. MaxMonth /\ k - 1 \in Nat
      BY <1>1, <2>2
    <2>4. monthStart[k - 1] \in Nat
      BY <2>1, <2>2, <2>3
    <2>5. monthStart[k] = monthStart[k - 1] + monthLength(k - 1)
      BY <1>5, <2>2, <2>3
    <2>6. monthLength(k - 1) \in 28 .. 31
      BY <2>3, MonthLengths
    <2> QED BY <2>2, <2>4, <2>5, <2>6
  <1> QED BY <1>4, <1>5, <1>6

\* An earlier month ends before a later one starts.
LEMMA MonthsOrdered ==
    ASSUME NEW j \in 0 .. MaxMonth, NEW k \in 0 .. MaxMonth, j < k
    PROVE  j + 1 \in 0 .. MaxMonth /\ monthStart[j] + 28 <= monthStart[j + 1]
           /\ monthStart[j + 1] <= monthStart[k]
  <1>1. MaxMonth \in Nat /\ j \in 0 .. MaxMonth - 1 /\ j + 1 \in 0 .. MaxMonth
        /\ j \in Nat /\ k \in Nat
    BY CalendarAssumption
  <1>2. \A m \in 0 .. MaxMonth - 1 : /\ monthStart[m] \in Nat /\ monthStart[m + 1] \in Nat
                                     /\ monthStart[m] + 28 <= monthStart[m + 1]
    <2> TAKE m \in 0 .. MaxMonth - 1
    <2>1. m \in Nat /\ m \in 0 .. MaxMonth /\ m + 1 \in 0 .. MaxMonth
      BY <1>1
    <2>2. monthLength(m) \in 28 .. 31 /\ monthStart[m] \in Nat /\ monthStart[m + 1] \in Nat
      BY <2>1, MonthLengths, MonthStarts
    <2>3. monthStart[m + 1] = monthStart[m] + monthLength(m)
      BY MonthStarts
    <2> QED BY <2>2, <2>3
  <1>3. monthStart[j + 1] <= monthStart[k]
    <2> DEFINE N == {l \in j + 1 .. MaxMonth : ~ (monthStart[j + 1] <= monthStart[l])}
    <2> SUFFICES ASSUME N # {} PROVE FALSE
      BY <1>1
    <2>1. PICK l \in N : \A i \in N : l <= i
      <3>1. N \in SUBSET Nat
        BY <1>1
      <3> HIDE DEF N
      <3> QED BY <3>1, LeastNumber
    <2>2. l \in j + 1 .. MaxMonth /\ ~ (monthStart[j + 1] <= monthStart[l])
      BY <2>1
    <2>3. monthStart[j + 1] \in Nat
      BY <1>1, <1>2
    <2>4. l # j + 1
      BY <2>2, <2>3
    <2>5. l - 1 \in j + 1 .. MaxMonth /\ l - 1 \in 0 .. MaxMonth - 1 /\ l - 1 + 1 = l
      BY <1>1, <2>2, <2>4
    <2>6. monthStart[j + 1] <= monthStart[l - 1]
      <3>1. l - 1 \notin N
        <4>1. ~ (l <= l - 1)
          BY <1>1, <2>2
        <4> HIDE DEF N
        <4> QED BY <2>1, <4>1
      <3> QED BY <2>5, <3>1
    <2>7. monthStart[l - 1] \in Nat /\ monthStart[l] \in Nat /\ monthStart[l - 1] + 28 <= monthStart[l]
      BY <1>2, <2>5
    <2> QED BY <2>2, <2>3, <2>6, <2>7
  <1> QED BY <1>1, <1>2, <1>3

\* monthOf finds the month of a date.
LEMMA MonthFound ==
    ASSUME NEW d \in 0 .. monthStart[MaxMonth] - 1
    PROVE  /\ monthOf[d] \in 0 .. MaxMonth - 1
           /\ monthStart[monthOf[d]] <= d /\ d < monthStart[monthOf[d] + 1]
  <1>1. MaxMonth \in Nat /\ MaxMonth \in 0 .. MaxMonth /\ monthStart[MaxMonth] \in Nat
        /\ monthStart[0] = 0
    BY CalendarAssumption, MonthStarts
  <1> DEFINE N == {m \in 0 .. MaxMonth : d < monthStart[m]}
  <1>2. PICK k \in N : \A j \in N : k <= j
    <2>1. N \in SUBSET Nat
      OBVIOUS
    <2>2. MaxMonth \in N
      BY <1>1
    <2> HIDE DEF N
    <2> QED BY <2>1, <2>2, LeastNumber
  <1>3. k \in 0 .. MaxMonth /\ d < monthStart[k] /\ k # 0
    BY <1>1, <1>2
  <1>4. k - 1 \in 0 .. MaxMonth - 1 /\ k - 1 \in 0 .. MaxMonth /\ k - 1 + 1 = k
    BY <1>1, <1>3
  <1>5. monthStart[k - 1] <= d
    <2>1. k - 1 \notin N
      <3>1. ~ (k <= k - 1)
        BY <1>3
      <3> HIDE DEF N
      <3> QED BY <1>2, <3>1
    <2>2. monthStart[k - 1] \in Nat
      BY <1>4, MonthStarts
    <2> QED BY <1>1, <1>4, <2>1, <2>2
  <1>6. \E m \in 0 .. MaxMonth - 1 : monthStart[m] <= d /\ d < monthStart[m + 1]
    BY <1>3, <1>4, <1>5
  <1>7. monthOf[d] = CHOOSE m \in 0 .. MaxMonth - 1 : monthStart[m] <= d /\ d < monthStart[m + 1]
    BY DEF monthOf
  <1> QED BY <1>6, <1>7

\* It is the only one the date lies in.
LEMMA MonthIs ==
    ASSUME NEW m \in 0 .. MaxMonth - 1, NEW d \in Int,
           monthStart[m] <= d, d < monthStart[m + 1]
    PROVE  d \in 0 .. monthStart[MaxMonth] - 1 /\ monthOf[d] = m
  <1>1. MaxMonth \in Nat /\ MaxMonth \in 0 .. MaxMonth /\ m \in 0 .. MaxMonth /\ m + 1 \in 0 .. MaxMonth
    BY CalendarAssumption
  <1>2. monthStart[m] \in Nat /\ monthStart[m + 1] \in Nat /\ monthStart[MaxMonth] \in Nat
    BY <1>1, MonthStarts
  <1>3. monthStart[m + 1] <= monthStart[MaxMonth]
    BY <1>1, MonthsOrdered
  <1>4. d \in 0 .. monthStart[MaxMonth] - 1
    BY <1>2, <1>3
  <1> DEFINE k == monthOf[d]
  <1>5. k \in 0 .. MaxMonth - 1 /\ monthStart[k] <= d /\ d < monthStart[k + 1]
    BY <1>4, MonthFound
  <1> HIDE DEF k
  <1>6. k \in 0 .. MaxMonth /\ k + 1 \in 0 .. MaxMonth /\ monthStart[k] \in Nat /\ monthStart[k + 1] \in Nat
    <2>1. k \in 0 .. MaxMonth /\ k + 1 \in 0 .. MaxMonth
      BY <1>1, <1>5
    <2> QED BY <2>1, MonthStarts
  <1>7. ASSUME k < m PROVE FALSE
    <2>1. monthStart[k + 1] <= monthStart[m]
      BY <1>1, <1>6, <1>7, MonthsOrdered
    <2> QED BY <1>2, <1>5, <1>6, <2>1
  <1>8. ASSUME m < k PROVE FALSE
    <2>1. monthStart[m + 1] <= monthStart[k]
      BY <1>1, <1>6, <1>8, MonthsOrdered
    <2> QED BY <1>2, <1>5, <1>6, <2>1
  <1>9. m \in Int /\ k \in Int
    BY <1>1, <1>6
  <1>10. k = m
    BY <1>7, <1>8, <1>9
  <1> QED BY <1>4, <1>10 DEF k

\* At most so many days.
longest(k) == IF k = 1 THEN 29 ELSE IF k \in {3, 5, 8, 10} THEN 30 ELSE 31

\* No month is longer than its longest.
LEMMA LongestMonths ==
    ASSUME NEW m \in Nat
    PROVE  monthLength(m) \in Nat /\ monthLength(m) <= longest(m % 12)
  BY DEF monthLength, longest

\* Twelve months have one February, and at most 366 days.
LEMMA YearLength ==
    ASSUME NEW m \in Nat, m + 12 <= MaxMonth
    PROVE  monthStart[m + 12] <= monthStart[m] + 366
  <1>1. MaxMonth \in Nat
    BY CalendarAssumption
  <1>2. \A i \in 0 .. 11 : /\ monthStart[m + i] \in Nat
                           /\ monthStart[m + (i + 1)] = monthStart[m + i] + monthLength(m + i)
    <2> TAKE i \in 0 .. 11
    <2>1. m + i \in 0 .. MaxMonth - 1 /\ m + i \in 0 .. MaxMonth /\ (m + i) + 1 = m + (i + 1)
      BY <1>1
    <2> QED BY <2>1, MonthStarts
  <1>3. \A i \in 0 .. 11 : monthLength(m + i) \in Nat /\ monthLength(m + i) <= longest((m + i) % 12)
    <2> TAKE i \in 0 .. 11
    <2>1. m + i \in Nat
      OBVIOUS
    <2> QED BY <2>1, LongestMonths
  <1> DEFINE s(i) == monthStart[m + i]
             l(i) == monthLength(m + i)
  <1>4. s(12) = s(0) + l(0) + l(1) + l(2) + l(3) + l(4) + l(5) + l(6) + l(7) + l(8) + l(9) + l(10) + l(11)
    <2>1. \A i \in 0 .. 11 : s(i) \in Nat /\ l(i) \in Nat /\ s(i + 1) = s(i) + l(i)
      BY <1>2, <1>3
    <2> HIDE DEF s, l
    <2>2. s(1) = s(0) + l(0) /\ s(2) = s(1) + l(1) /\ s(3) = s(2) + l(2) /\ s(4) = s(3) + l(3)
          /\ s(0) \in Nat /\ l(0) \in Nat /\ l(1) \in Nat /\ l(2) \in Nat /\ l(3) \in Nat
      BY <2>1
    <2>3. s(5) = s(4) + l(4) /\ s(6) = s(5) + l(5) /\ s(7) = s(6) + l(6) /\ s(8) = s(7) + l(7)
          /\ l(4) \in Nat /\ l(5) \in Nat /\ l(6) \in Nat /\ l(7) \in Nat
      BY <2>1
    <2>4. s(9) = s(8) + l(8) /\ s(10) = s(9) + l(9) /\ s(11) = s(10) + l(10) /\ s(12) = s(11) + l(11)
          /\ l(8) \in Nat /\ l(9) \in Nat /\ l(10) \in Nat /\ l(11) \in Nat
      BY <2>1
    <2> QED BY <2>2, <2>3, <2>4
  <1>5. m + 0 = m /\ s(0) \in Nat
    BY <1>2
  <1>6. l(0) + l(1) + l(2) + l(3) + l(4) + l(5) + l(6) + l(7) + l(8) + l(9) + l(10) + l(11) <= 366
    <2> DEFINE r == m % 12
               h(i) == longest((m + i) % 12)
    <2>1. r \in 0 .. 11 /\ \A i \in 0 .. 11 : (m + i) % 12 = (r + i) % 12
      OBVIOUS
    <2>2. /\ l(0) \in Nat /\ l(0) <= h(0) /\ l(1) \in Nat /\ l(1) <= h(1)
          /\ l(2) \in Nat /\ l(2) <= h(2) /\ l(3) \in Nat /\ l(3) <= h(3)
          /\ l(4) \in Nat /\ l(4) <= h(4) /\ l(5) \in Nat /\ l(5) <= h(5)
          /\ l(6) \in Nat /\ l(6) <= h(6) /\ l(7) \in Nat /\ l(7) <= h(7)
          /\ l(8) \in Nat /\ l(8) <= h(8) /\ l(9) \in Nat /\ l(9) <= h(9)
          /\ l(10) \in Nat /\ l(10) <= h(10) /\ l(11) \in Nat /\ l(11) <= h(11)
      BY <1>3
    <2>3. /\ h(0) + h(1) + h(2) + h(3) + h(4) + h(5) + h(6) + h(7) + h(8) + h(9) + h(10) + h(11) = 366
          /\ \A i \in 0 .. 11 : h(i) \in Nat
      <3> HIDE DEF r
      <3>1. \A i \in 0 .. 11 : h(i) = longest((r + i) % 12)
        BY <2>1
      <3> HIDE DEF h
      <3>2. /\ h(0) = longest((r + 0) % 12) /\ h(1) = longest((r + 1) % 12)
            /\ h(2) = longest((r + 2) % 12) /\ h(3) = longest((r + 3) % 12)
            /\ h(4) = longest((r + 4) % 12) /\ h(5) = longest((r + 5) % 12)
            /\ h(6) = longest((r + 6) % 12) /\ h(7) = longest((r + 7) % 12)
            /\ h(8) = longest((r + 8) % 12) /\ h(9) = longest((r + 9) % 12)
            /\ h(10) = longest((r + 10) % 12) /\ h(11) = longest((r + 11) % 12)
        BY <3>1
      <3>3. \A i \in 0 .. 11 : h(i) \in Nat
        BY <3>1 DEF longest
      <3>4. CASE r = 0
        BY <3>2, <3>4 DEF longest
      <3>5. CASE r = 1
        BY <3>2, <3>5 DEF longest
      <3>6. CASE r = 2
        BY <3>2, <3>6 DEF longest
      <3>7. CASE r = 3
        BY <3>2, <3>7 DEF longest
      <3>8. CASE r = 4
        BY <3>2, <3>8 DEF longest
      <3>9. CASE r = 5
        BY <3>2, <3>9 DEF longest
      <3>10. CASE r = 6
        BY <3>2, <3>10 DEF longest
      <3>11. CASE r = 7
        BY <3>2, <3>11 DEF longest
      <3>12. CASE r = 8
        BY <3>2, <3>12 DEF longest
      <3>13. CASE r = 9
        BY <3>2, <3>13 DEF longest
      <3>14. CASE r = 10
        BY <3>2, <3>14 DEF longest
      <3>15. CASE r = 11
        BY <3>2, <3>15 DEF longest
      <3> QED BY <2>1, <3>3, <3>4, <3>5, <3>6, <3>7, <3>8, <3>9, <3>10, <3>11, <3>12, <3>13,
                 <3>14, <3>15
    <2> HIDE DEF h, l
    <2> QED BY <2>2, <2>3
  <1>7. \A i \in 0 .. 11 : l(i) \in Nat
    BY <1>3
  <1> HIDE DEF l
  <1> QED BY <1>4, <1>5, <1>6, <1>7

-----------------------------------------------------------------------------
(* Midnights.                                                               *)

\* In the 28 hours around a wall time the offset changes at most once: a period
\* that begins there outlasts them.
LEMMA OneChange ==
    ASSUME NEW z \in Zones, NEW wall \in Walls
    PROVE  \E T \in Int : \E a \in Int, b \in Int :
               \A u \in wall - 14 * Hour .. wall + 14 * Hour :
                   Offset[z][u] = IF u < T THEN a ELSE b
  <1> DEFINE lo == wall - 14 * Hour
             hi == wall + 14 * Hour
             C == {u \in lo .. hi : Offset[z][u] # Offset[z][lo]}
  <1>1. /\ wall \in Int /\ Hour \in Nat \ {0} /\ Spacing \in Nat /\ Spacing >= 29 * Hour
        /\ lo \in Int /\ hi \in Int /\ lo <= hi
        /\ \A u \in lo .. hi : u \in From .. To /\ u \in Int
    <2>1. wall \in Int /\ Hour \in Nat \ {0} /\ Spacing \in Nat /\ Spacing >= 29 * Hour
      BY ProbesGiven, ZonesAssumption
    <2>2. lo .. hi \subseteq From .. To
      BY ProbesGiven
    <2>3. lo \in Int /\ hi \in Int /\ lo <= hi
      BY <2>1
    <2> HIDE DEF lo, hi
    <2> QED BY <2>1, <2>2, <2>3
  <1>2. ASSUME NEW u \in lo .. hi PROVE Offset[z][u] \in Int
    <2>1. u \in From .. To
      BY <1>1
    <2>2. Offset[z][u] \in -(14 * Hour) .. 14 * Hour
      BY <2>1, ZonesAssumption
    <2> QED BY <1>1, <2>2
  <1>3. lo \in lo .. hi /\ hi \in lo .. hi
    BY <1>1
  <1>4. CASE C = {}
    <2>1. \A u \in lo .. hi : Offset[z][u] = IF u < lo THEN Offset[z][lo] ELSE Offset[z][lo]
      BY <1>4
    <2>2. Offset[z][lo] \in Int /\ lo \in Int
      BY <1>1, <1>2, <1>3
    <2> HIDE DEF lo, hi, C
    <2>3. \A u \in lo .. hi : Offset[z][u] = IF u < lo THEN Offset[z][lo] ELSE Offset[z][lo]
      BY <2>1
    <2>4. \E T \in Int : \E a \in Int, b \in Int :
              \A u \in lo .. hi : Offset[z][u] = IF u < T THEN a ELSE b
      BY <2>2, <2>3
    <2> QED BY <2>4 DEF lo, hi
  <1>5. CASE C # {}
    <2> DEFINE T == earliest(C)
    <2>1. T \in C /\ \A u \in C : T <= u
      <3>1. C \in SUBSET (lo .. hi)
        OBVIOUS
      <3> HIDE DEF C, lo, hi
      <3> QED BY <1>1, <1>5, <3>1, Extremes
    <2>2. T \in lo .. hi /\ T # lo /\ Offset[z][T] # Offset[z][lo]
      BY <2>1
    <2> HIDE DEF T
    <2>3. ASSUME NEW u \in lo .. hi, u < T PROVE Offset[z][u] = Offset[z][lo]
      <3>1. ~ (T <= u)
        BY <1>1, <2>2, <2>3
      <3>2. u \notin C
        BY <2>1, <3>1
      <3> QED BY <3>2
    <2> HIDE DEF C
    <2>4. T \in From .. To
      BY <1>1, <2>2
    <2>5. PICK p \in (T - Spacing + 1) .. T :
              \A v \in p .. p + Spacing - 1 : v \in From .. To => Offset[z][v] = Offset[z][T]
      BY <2>4, ZonesAssumption
    <2>6. T - 1 \in lo .. hi /\ T - 1 < T
      BY <1>1, <2>2
    <2>7. T - 1 \notin p .. p + Spacing - 1
      BY <1>1, <2>2, <2>3, <2>5, <2>6
    <2>8. p = T
      BY <1>1, <2>2, <2>5, <2>7
    <2>9. ASSUME NEW u \in lo .. hi, ~ (u < T) PROVE Offset[z][u] = Offset[z][T]
      <3>1. u \in p .. p + Spacing - 1
        BY <1>1, <2>2, <2>8, <2>9
      <3> QED BY <1>1, <2>5, <3>1
    <2>10. \A u \in lo .. hi : Offset[z][u] = IF u < T THEN Offset[z][lo] ELSE Offset[z][T]
      BY <2>3, <2>9
    <2>11. Offset[z][lo] \in Int /\ Offset[z][T] \in Int /\ T \in Int
      BY <1>1, <1>2, <1>3, <2>2
    <2> QED BY <2>10, <2>11
  <1> QED BY <1>4, <1>5

\* time.Date: a wall time that exists is shown at the instant Date gives it.
THEOREM DateShows ==
    ASSUME NEW z \in Zones, NEW wall \in Walls, instants(z, wall) # {}
    PROVE  Date(z, wall) \in From .. To /\ local(z, Date(z, wall)) = wall
  <1> DEFINE lo == wall - 14 * Hour
             hi == wall + 14 * Hour
  <1>1. PICK T \in Int : \E a \in Int, b \in Int :
            \A u \in lo .. hi : Offset[z][u] = IF u < T THEN a ELSE b
    BY OneChange
  <1>2. PICK a \in Int, b \in Int :
            \A u \in lo .. hi : Offset[z][u] = IF u < T THEN a ELSE b
    BY <1>1
  <1>3. /\ wall \in Int /\ Hour \in Nat \ {0} /\ lo .. hi \subseteq From .. To
        /\ \A u \in lo .. hi : u \in Int /\ Offset[z][u] \in -(14 * Hour) .. 14 * Hour
    <2>1. wall \in Int /\ Hour \in Nat \ {0} /\ lo .. hi \subseteq From .. To
      BY ProbesGiven, ZonesAssumption
    <2>2. \A u \in From .. To : Offset[z][u] \in -(14 * Hour) .. 14 * Hour
      BY ZonesAssumption
    <2> QED BY <2>1, <2>2
  <1>4. \A u \in lo .. hi : wall - Offset[z][u] \in lo .. hi
    BY <1>3
  <1>5. PICK u \in lo .. hi : u + Offset[z][u] = wall
    BY DEF instants, local
  <1>6. wall \in lo .. hi
    BY <1>3
  <1> DEFINE g == wall - Offset[z][wall]
             r == wall - Offset[z][g]
  <1>7. g \in lo .. hi /\ r \in lo .. hi
    BY <1>4, <1>6
  <1>8. Offset[z][r] = Offset[z][g]
    <2>1. /\ Offset[z][wall] = IF wall < T THEN a ELSE b
          /\ Offset[z][g] = IF g < T THEN a ELSE b
          /\ Offset[z][r] = IF r < T THEN a ELSE b
          /\ Offset[z][u] = IF u < T THEN a ELSE b
      BY <1>2, <1>6, <1>7
    <2>2. g = wall - Offset[z][wall] /\ r = wall - Offset[z][g] /\ u + Offset[z][u] = wall
          /\ g \in Int /\ r \in Int /\ u \in Int /\ wall \in Int
      BY <1>3, <1>5, <1>7
    <2> HIDE DEF g, r
    <2> QED BY <2>1, <2>2
  <1>9. r + Offset[z][r] = wall
    <2>1. Offset[z][g] \in Int
      BY <1>3, <1>7
    <2> QED BY <1>3, <1>8, <2>1
  <1>10. Date(z, wall) = r
    BY DEF Date
  <1> HIDE DEF r
  <1> QED BY <1>3, <1>7, <1>9, <1>10 DEF local

\* Days of a length.
LEMMA DayOrder ==
    ASSUME NEW D \in Nat \ {0}, NEW d \in Int, NEW e \in Int, d < e
    PROVE  d * D + D <= e * D
  <1> DEFINE n == e - d - 1
  <1>1. n \in Nat /\ e = d + 1 + n
    OBVIOUS
  <1> HIDE DEF n
  <1>2. e * D = d * D + D + n * D
    BY <1>1
  <1>3. n * D \in Nat /\ d * D \in Int
    BY <1>1
  <1> QED BY <1>2, <1>3

\* The days of which the offsets are given around the midnight.
Dates == {d \in Int : d * Day \in Walls}

\* What lies between two dates is a date.
LEMMA DatesConvex ==
    ASSUME NEW a \in Int, NEW b \in Int, NEW c \in Int, a <= b, b <= c,
           NEW x \in Nat, a * Day \in Walls, c * Day + x \in Walls
    PROVE  \A y \in 0 .. x : b * Day + y \in Walls
  <1>1. Day \in Nat \ {0} /\ From \in Int /\ To \in Int /\ Hour \in Nat
    BY ZonesAssumption DEF Day
  <1>2. a * Day <= b * Day /\ b * Day <= c * Day
    <2> DEFINE D == Day
    <2>1. D \in Nat \ {0}
      BY <1>1
    <2> HIDE DEF D
    <2>2. a * D <= b * D
      <3>1. CASE a = b
        BY <2>1, <3>1
      <3>2. CASE a < b
        <4>1. a * D + D <= b * D
          BY <2>1, <3>2, DayOrder
        <4>2. a * D \in Int /\ b * D \in Int
          BY <2>1
        <4> QED BY <2>1, <4>1, <4>2
      <3> QED BY <3>1, <3>2
    <2>3. b * D <= c * D
      <3>1. CASE b = c
        BY <2>1, <3>1
      <3>2. CASE b < c
        <4>1. b * D + D <= c * D
          BY <2>1, <3>2, DayOrder
        <4>2. b * D \in Int /\ c * D \in Int
          BY <2>1
        <4> QED BY <2>1, <4>1, <4>2
      <3> QED BY <3>1, <3>2
    <2> QED BY <2>2, <2>3 DEF D
  <1>3. a * Day \in Int /\ b * Day \in Int /\ c * Day \in Int
    BY <1>1
  <1> QED BY <1>1, <1>2, <1>3 DEF Walls

\* The midnight of a day: its date is the day and its clock is zero.
LEMMA MidnightShows ==
    ASSUME NEW z \in Zones, HasMidnights(z), NEW d \in Dates
    PROVE  LET u == dateAtTimezoneMidnight(z, d)
           IN  /\ u \in From .. To /\ u \in Int /\ local(z, u) = d * Day
               /\ date(z, u) = d /\ clock(z, u) = 0
  <1>1. Day \in Nat \ {0} /\ From \in Int /\ To \in Int /\ d \in Int /\ d * Day \in Walls
    BY ZonesAssumption DEF Day, Dates
  <1>2. (d * Day) \div Day = d /\ (d * Day) % Day = 0
    <2> DEFINE D == Day
    <2>1. D \in Nat \ {0} /\ 0 \in 0 .. D - 1
      BY <1>1
    <2> HIDE DEF D
    <2>2. (d * D + 0) \div D = d /\ (d * D + 0) % D = 0
      BY <1>1, <2>1, WallParts
    <2>3. d * D + 0 = d * D
      BY <1>1, <2>1
    <2> QED BY <2>2, <2>3 DEF D
  <1>3. instants(z, d * Day) # {}
    BY <1>1, <1>2 DEF HasMidnights
  <1>4. Date(z, d * Day) \in From .. To /\ local(z, Date(z, d * Day)) = d * Day
    BY <1>1, <1>3, DateShows
  <1> QED BY <1>1, <1>2, <1>4 DEF dateAtTimezoneMidnight, date, clock

\* The midnights are in the order of their days.
LEMMA MidnightOrder ==
    ASSUME NEW z \in Zones, HasMidnights(z), NEW d \in Dates, NEW e \in Dates
    PROVE  dateAtTimezoneMidnight(z, d) <= dateAtTimezoneMidnight(z, e) <=> d <= e
  <1> DEFINE M(x) == dateAtTimezoneMidnight(z, x)
             D == Day
  <1>1. D \in Nat \ {0} /\ d \in Int /\ e \in Int
    BY ZonesAssumption DEF Day, Dates
  <1>2. /\ M(d) \in From .. To /\ M(d) \in Int /\ M(d) + Offset[z][M(d)] = d * D
        /\ M(e) \in From .. To /\ M(e) \in Int /\ M(e) + Offset[z][M(e)] = e * D
    BY MidnightShows DEF local
  <1>3. \A u, v \in From .. To : Offset[z][u] - Offset[z][v] < D /\ Offset[z][u] \in Int
    <2>1. \A u \in From .. To : Offset[z][u] \in -(14 * Hour) .. 14 * Hour
      BY ZonesAssumption
    <2>2. \A u \in From .. To : Offset[z][u] \in Int
      BY <2>1, ZonesAssumption
    <2>3. \A u, v \in From .. To : Offset[z][u] - Offset[z][v] < D
      BY DEF HasMidnights
    <2> QED BY <2>2, <2>3
  <1> HIDE DEF M, D
  <1>4. Offset[z][M(d)] - Offset[z][M(e)] < D /\ Offset[z][M(e)] - Offset[z][M(d)] < D
        /\ Offset[z][M(d)] \in Int /\ Offset[z][M(e)] \in Int
    BY <1>2, <1>3
  <1>5. d * D \in Int /\ e * D \in Int
    BY <1>1
  <1>6. ASSUME d < e PROVE M(d) < M(e)
    <2>1. d * D + D <= e * D
      BY <1>1, <1>6, DayOrder
    <2> QED BY <1>1, <1>2, <1>4, <1>5, <2>1
  <1>7. ASSUME e < d PROVE M(e) < M(d)
    <2>1. e * D + D <= d * D
      BY <1>1, <1>7, DayOrder
    <2> QED BY <1>1, <1>2, <1>4, <1>5, <2>1
  <1>8. M(d) <= M(e) <=> d <= e
    BY <1>1, <1>2, <1>6, <1>7
  <1> QED BY <1>8 DEF M

\* Where no day has two midnights, the instant before one is of the day before.
LEMMA MidnightFirst ==
    ASSUME NEW z \in Zones, HasMidnights(z), OneMidnight(z), NEW d \in Dates
    PROVE  LET u == dateAtTimezoneMidnight(z, d)
           IN  u - 1 \in From .. To /\ date(z, u - 1) < d
  <1> DEFINE u == dateAtTimezoneMidnight(z, d)
             wall == d * Day
             lo == wall - 14 * Hour
             hi == wall + 14 * Hour
  <1>1. /\ Day \in Nat \ {0} /\ Day = 24 * Hour /\ Hour \in Nat \ {0} /\ d \in Int
        /\ wall \in Walls /\ wall \in Int /\ From \in Int /\ To \in Int /\ Spacing \in Nat
        /\ Spacing >= 29 * Hour
    BY ZonesAssumption DEF Day, Dates
  <1>2. u \in From .. To /\ u \in Int /\ u + Offset[z][u] = wall
    BY MidnightShows DEF local
  <1>3. \A v \in From .. To : Offset[z][v] \in -(14 * Hour) .. 14 * Hour /\ Offset[z][v] \in Int
    <2>1. \A v \in From .. To : Offset[z][v] \in -(14 * Hour) .. 14 * Hour
      BY ZonesAssumption
    <2> QED BY <1>1, <2>1
  <1>4. \A v, w \in From .. To : Offset[z][v] - Offset[z][w] < Day
    BY DEF HasMidnights
  <1>5. wall % Day = 0
    <2>1. clock(z, u) = 0 /\ local(z, u) = wall
      BY MidnightShows
    <2> QED BY <2>1 DEF clock
  <1>6. single(instants(z, wall))
    BY <1>1, <1>5 DEF OneMidnight
  <1> HIDE DEF u, wall
  <1>7. u \in lo .. hi /\ From + 62 * Hour <= wall /\ wall <= To - 62 * Hour
    BY <1>1, <1>2, <1>3 DEF Walls
  <1>8. u - 1 \in From .. To
    BY <1>1, <1>2, <1>7
  <1>9. Offset[z][u - 1] <= Offset[z][u]
    <2> SUFFICES ASSUME Offset[z][u - 1] > Offset[z][u] PROVE FALSE
      BY <1>2, <1>3, <1>8
    <2> DEFINE n == Offset[z][u - 1] - Offset[z][u]
               v == u - n
    <2>1. n \in 1 .. Day - 1
      BY <1>1, <1>2, <1>3, <1>4, <1>8
    <2>2. PICK p \in (u - 1 - Spacing + 1) .. u - 1 :
              \A w \in p .. p + Spacing - 1 : w \in From .. To => Offset[z][w] = Offset[z][u - 1]
      BY <1>8, ZonesAssumption
    <2>3. u \notin p .. p + Spacing - 1
      BY <1>2, <1>3, <1>8, <2>2
    <2>4. p + Spacing = u
      BY <1>1, <1>2, <2>2, <2>3
    <2>5. v \in p .. p + Spacing - 1 /\ v \in From .. To
      BY <1>1, <1>2, <1>7, <2>1, <2>2, <2>4
    <2>6. Offset[z][v] = Offset[z][u - 1]
      BY <2>2, <2>5
    <2>7. v + Offset[z][v] = wall /\ v # u
      BY <1>1, <1>2, <1>3, <1>8, <2>1, <2>6
    <2>8. v \in lo .. hi
      BY <1>1, <1>3, <2>5, <2>7
    <2> HIDE DEF v
    <2>9. v \in instants(z, wall) /\ u \in instants(z, wall)
      BY <1>2, <1>7, <2>5, <2>7, <2>8 DEF instants, local
    <2> QED BY <1>6, <2>7, <2>9 DEF single
  <1>10. local(z, u - 1) \in Int /\ local(z, u - 1) < wall
    BY <1>1, <1>2, <1>3, <1>8, <1>9 DEF local
  <1>11. local(z, u - 1) \div Day < d
    <2> DEFINE l == local(z, u - 1)
               D == Day
    <2>1. D \in Nat \ {0} /\ l \in Int /\ l < d * D
      BY <1>1, <1>10 DEF wall
    <2> HIDE DEF l, D
    <2> DEFINE q == l \div D
               c == l % D
    <2>2. q \in Int /\ c \in 0 .. D - 1 /\ l = D * q + c
      BY <2>1
    <2> HIDE DEF q, c
    <2>3. l = q * D + c /\ q * D \in Int
      BY <2>1, <2>2
    <2>4. ~ (d <= q)
      <3> SUFFICES ASSUME d <= q PROVE FALSE
        OBVIOUS
      <3>1. CASE d = q
        BY <1>1, <2>1, <2>2, <2>3, <3>1
      <3>2. CASE d < q
        <4>1. d * D + D <= q * D /\ d * D \in Int
          BY <1>1, <2>1, <2>2, <3>2, DayOrder
        <4> QED BY <2>1, <2>2, <2>3, <4>1
      <3> QED BY <1>1, <2>2, <3>1, <3>2
    <2> QED BY <1>1, <2>2, <2>4 DEF q, l, D
  <1> QED BY <1>8, <1>11 DEF date, u

-----------------------------------------------------------------------------
(* Sequences that list a set of numbers in order.                           *)

\* s has every element of D once, the lesser before the greater.
Lists(s, D) ==
    \E m \in Nat : /\ s \in [1 .. m -> D]
                   /\ \A i, j \in 1 .. m : i < j => s[i] < s[j]
                   /\ \A d \in D : \E i \in 1 .. m : s[i] = d

\* f applied to the elements of s.
mapped(s, f) == [i \in 1 .. Len(s) |-> f[s[i]]]

\* Such a sequence is one, and its elements are the set.
LEMMA ListsSeq ==
    ASSUME NEW D, NEW s, Lists(s, D)
    PROVE  /\ s \in Seq(D) /\ Len(s) \in Nat /\ DOMAIN s = 1 .. Len(s)
           /\ \A i \in 1 .. Len(s) : s[i] \in D
           /\ \A i, j \in 1 .. Len(s) : i < j => s[i] < s[j]
           /\ \A d \in D : \E i \in 1 .. Len(s) : s[i] = d
           /\ elements(s) = D
  <1>1. PICK m \in Nat : /\ s \in [1 .. m -> D]
                         /\ \A i, j \in 1 .. m : i < j => s[i] < s[j]
                         /\ \A d \in D : \E i \in 1 .. m : s[i] = d
    BY DEF Lists
  <1>2. s \in Seq(D) /\ Len(s) = m /\ DOMAIN s = 1 .. m
    BY <1>1
  <1>3. elements(s) = D
    BY <1>1, <1>2 DEF elements
  <1> QED BY <1>1, <1>2, <1>3

\* What is kept of it lists what is in both sets.
LEMMA KeepLists ==
    ASSUME NEW D \in SUBSET Int, NEW s, Lists(s, D), NEW K
    PROVE  Lists(keep(s, K), D \cap K)
  <1>1. /\ s \in Seq(D) /\ Len(s) \in Nat
        /\ \A i \in 1 .. Len(s) : s[i] \in D
        /\ \A i, j \in 1 .. Len(s) : i < j => s[i] < s[j]
        /\ \A d \in D : \E i \in 1 .. Len(s) : s[i] = d
    BY ListsSeq
  <1>2. Picked(s, K, keep(s, K))
    BY <1>1, Keeps
  <1>3. PICK m \in Nat : \E nth \in [1 .. m -> 1 .. Len(s)] :
            /\ keep(s, K) = [n \in 1 .. m |-> s[nth[n]]]
            /\ \A n, l \in 1 .. m : n < l => nth[n] < nth[l]
            /\ \A n \in 1 .. m : s[nth[n]] \in K
            /\ \A i \in 1 .. Len(s) : s[i] \in K => \E n \in 1 .. m : nth[n] = i
    BY <1>2 DEF Picked
  <1>4. PICK nth \in [1 .. m -> 1 .. Len(s)] :
            /\ keep(s, K) = [n \in 1 .. m |-> s[nth[n]]]
            /\ \A n, l \in 1 .. m : n < l => nth[n] < nth[l]
            /\ \A n \in 1 .. m : s[nth[n]] \in K
            /\ \A i \in 1 .. Len(s) : s[i] \in K => \E n \in 1 .. m : nth[n] = i
    BY <1>3
  <1> DEFINE t == keep(s, K)
  <1> HIDE DEF t
  <1>5. t = [n \in 1 .. m |-> s[nth[n]]]
    BY <1>4 DEF t
  <1>6. t \in [1 .. m -> D \cap K]
    BY <1>5, <1>1, <1>4
  <1>7. ASSUME NEW i \in 1 .. m, NEW j \in 1 .. m, i < j PROVE t[i] < t[j]
    <2>1. nth[i] \in 1 .. Len(s) /\ nth[j] \in 1 .. Len(s) /\ nth[i] < nth[j]
      BY <1>4, <1>7
    <2>2. s[nth[i]] < s[nth[j]]
      BY <1>1, <2>1
    <2> QED BY <1>5, <2>2
  <1>8. ASSUME NEW d \in D \cap K PROVE \E i \in 1 .. m : t[i] = d
    <2>1. PICK i \in 1 .. Len(s) : s[i] = d
      BY <1>1
    <2>2. PICK n \in 1 .. m : nth[n] = i
      BY <1>4, <2>1
    <2>3. t[n] = d
      BY <1>5, <2>1, <2>2
    <2> QED BY <2>3
  <1>9. Lists(t, D \cap K)
    BY <1>6, <1>7, <1>8 DEF Lists
  <1> QED BY <1>9 DEF t

\* f takes the elements of s that are in k, and no other, to K.
Takes(s, f, k, K) == \A i \in 1 .. Len(s) : f[s[i]] \in K <=> s[i] \in k

\* Keeping and applying can be exchanged.
LEMMA KeepMapped ==
    ASSUME NEW S, NEW s \in Seq(S), NEW f, NEW K, NEW k, Takes(s, f, k, K)
    PROVE  keep(mapped(s, f), K) = mapped(keep(s, k), f)
  <1> DEFINE L == Len(s)
             a == {i \in 1 .. L : s[i] \in k}
             t == mapped(s, f)
             pick(n) == CHOOSE i \in a \cap (n .. L) : [j \in a |-> Cardinality(a \cap (1 .. j))][i] = n
             G(x, A, l) == [n \in 1 .. Cardinality(A) |->
                 x[CHOOSE i \in A \cap (n .. l) : [j \in A |-> Cardinality(A \cap (1 .. j))][i] = n]]
  <1>1. L \in Nat /\ a \in SUBSET (1 .. L)
    OBVIOUS
  <1>2. Len(t) = L /\ \A i \in 1 .. L : t[i] = f[s[i]]
    BY <1>1 DEF mapped
  <1>3. {i \in 1 .. Len(t) : t[i] \in K} = a
    BY <1>2 DEF Takes
  <1>4. keep(s, k) = [n \in 1 .. Cardinality(a) |-> s[pick(n)]]
    BY DEF keep
  <1>5. keep(t, K) = [n \in 1 .. Cardinality(a) |-> t[pick(n)]]
    <2>1. keep(t, K) = G(t, {i \in 1 .. Len(t) : t[i] \in K}, Len(t))
      BY DEF keep
    <2>2. G(t, a, L) = [n \in 1 .. Cardinality(a) |-> t[pick(n)]]
      OBVIOUS
    <2> HIDE DEF G, a, L, t
    <2> QED BY <1>2, <1>3, <2>1, <2>2
  <1>6. Cardinality(a) \in Nat
    BY <1>1, CountSteps
  <1>7. ASSUME NEW n \in 1 .. Cardinality(a) PROVE pick(n) \in 1 .. L
    <2> HIDE DEF a, L
    <2>1. PICK i \in a \cap (n .. L) : upto(a, i) = n
      BY <1>1, CountReaches
    <2>2. [j \in a |-> Cardinality(a \cap (1 .. j))][i] = n
      BY <2>1 DEF upto
    <2>3. pick(n) \in a \cap (n .. L)
      BY <2>1, <2>2
    <2> QED BY <1>1, <2>3
  <1> HIDE DEF a, L, t, pick
  <1>8. Len(keep(s, k)) = Cardinality(a)
    BY <1>4, <1>6
  <1>9. keep(t, K) = [n \in 1 .. Cardinality(a) |-> f[keep(s, k)[n]]]
    BY <1>2, <1>4, <1>5, <1>7
  <1> QED BY <1>8, <1>9 DEF mapped, t

\* An increasing function gives a sequence that lists its values.
LEMMA MappedLists ==
    ASSUME NEW D \in SUBSET Int, NEW s, Lists(s, D), NEW f,
           \A d, e \in D : d < e => f[d] < f[e]
    PROVE  Lists(mapped(s, f), {f[d] : d \in D})
  <1>1. /\ Len(s) \in Nat
        /\ \A i \in 1 .. Len(s) : s[i] \in D
        /\ \A i, j \in 1 .. Len(s) : i < j => s[i] < s[j]
        /\ \A d \in D : \E i \in 1 .. Len(s) : s[i] = d
    BY ListsSeq
  <1> DEFINE t == mapped(s, f)
             E == {f[d] : d \in D}
  <1>2. \A i \in 1 .. Len(s) : t[i] = f[s[i]]
    BY DEF mapped
  <1>3. t \in [1 .. Len(s) -> E]
    BY <1>1 DEF mapped
  <1>4. \A i, j \in 1 .. Len(s) : i < j => t[i] < t[j]
    BY <1>1, <1>2
  <1>5. \A e \in E : \E i \in 1 .. Len(s) : t[i] = e
    BY <1>1, <1>2
  <1>6. Lists(t, E)
    <2> HIDE DEF t, E
    <2> QED BY <1>1, <1>3, <1>4, <1>5 DEF Lists
  <1> QED BY <1>6

\* What is listed is finite and as many as the sequence is long; so are those
\* before an element.
LEMMA ListsCount ==
    ASSUME NEW D \in SUBSET Int, NEW s, Lists(s, D)
    PROVE  /\ IsFiniteSet(D) /\ Cardinality(D) = Len(s)
           /\ \A i \in 1 .. Len(s) : Cardinality({e \in D : e < s[i]}) = i - 1
  <1>1. /\ s \in Seq(D) /\ Len(s) \in Nat
        /\ \A i \in 1 .. Len(s) : s[i] \in D
        /\ \A i, j \in 1 .. Len(s) : i < j => s[i] < s[j]
        /\ \A d \in D : \E i \in 1 .. Len(s) : s[i] = d
    BY ListsSeq
  <1>2. ASSUME NEW n \in 0 .. Len(s)
        PROVE  /\ IsFiniteSet({s[j] : j \in 1 .. n})
               /\ Cardinality({s[j] : j \in 1 .. n}) = n
    <2> DEFINE E == {s[j] : j \in 1 .. n}
               b == [j \in 1 .. n |-> s[j]]
    <2>1. IsFiniteSet(1 .. n) /\ Cardinality(1 .. n) = n
      BY FS_Interval
    <2>2. b \in Bijection(1 .. n, E)
      <3>1. \A i, j \in 1 .. n : i \in 1 .. Len(s) /\ j \in 1 .. Len(s) /\ s[i] \in Int /\ s[j] \in Int
        <4>1. \A i \in 1 .. n : i \in 1 .. Len(s)
          BY <1>1
        <4>2. \A i \in 1 .. n : s[i] \in D
          BY <1>1, <4>1
        <4> QED BY <4>1, <4>2
      <3>2. \A i, j \in 1 .. n : s[i] = s[j] => i = j
        BY <1>1, <3>1
      <3>3. b \in [1 .. n -> E]
        OBVIOUS
      <3>4. b \in Injection(1 .. n, E)
        BY <3>2, <3>3 DEF Injection, IsInjective
      <3>5. b \in Surjection(1 .. n, E)
        BY <3>3 DEF Surjection
      <3> QED BY <3>4, <3>5 DEF Bijection
    <2>3. ExistsBijection(1 .. n, E)
      BY <2>2 DEF ExistsBijection
    <2> QED BY <2>1, <2>3, FS_Bijection
  <1>3. D = {s[j] : j \in 1 .. Len(s)}
    BY <1>1
  <1>4. ASSUME NEW i \in 1 .. Len(s)
        PROVE  Cardinality({e \in D : e < s[i]}) = i - 1
    <2>1. ASSUME NEW e \in D, e < s[i] PROVE e \in {s[j] : j \in 1 .. i - 1}
      <3>1. PICK j \in 1 .. Len(s) : s[j] = e
        BY <1>1
      <3>2. s[i] \in Int /\ s[j] \in Int /\ s[j] < s[i]
        BY <1>1, <2>1, <3>1
      <3>3. ~ (i < j) /\ i # j
        BY <1>1, <3>2
      <3>4. j \in 1 .. i - 1
        BY <3>3
      <3> QED BY <3>1, <3>4
    <2>2. ASSUME NEW j \in 1 .. i - 1 PROVE s[j] \in D /\ s[j] < s[i]
      <3>1. j \in 1 .. Len(s) /\ j < i
        OBVIOUS
      <3> QED BY <1>1, <3>1
    <2>3. {e \in D : e < s[i]} = {s[j] : j \in 1 .. i - 1}
      BY <2>1, <2>2
    <2>4. i - 1 \in 0 .. Len(s)
      OBVIOUS
    <2> QED BY <1>2, <2>3, <2>4
  <1>5. Len(s) \in 0 .. Len(s)
    BY <1>1
  <1> QED BY <1>2, <1>3, <1>4, <1>5

\* Up to a count, a sequence lists the first of what it listed.
LEMMA PrefixLists ==
    ASSUME NEW D \in SUBSET Int, NEW s, Lists(s, D), NEW n \in Nat \cup {None}
    PROVE  Lists(upTo(s, n), among(D, n))
  <1>1. /\ s \in Seq(D) /\ Len(s) \in Nat
        /\ s \in [1 .. Len(s) -> D]
        /\ \A i \in 1 .. Len(s) : s[i] \in D
        /\ \A i, j \in 1 .. Len(s) : i < j => s[i] < s[j]
        /\ \A d \in D : \E i \in 1 .. Len(s) : s[i] = d
    BY ListsSeq
  <1>2. \A i \in 1 .. Len(s) : Cardinality({e \in D : e < s[i]}) = i - 1
    BY ListsCount
  <1>3. CASE n = None
    <2>1. among(D, n) = D /\ upTo(s, n) = s
      BY <1>3 DEF among, upTo
    <2> QED BY <2>1
  <1>4. CASE n # None /\ Len(s) <= n
    <2>1. \A d \in D : Cardinality({e \in D : e < d}) < n
      <3> TAKE d \in D
      <3>1. PICK i \in 1 .. Len(s) : s[i] = d
        BY <1>1
      <3>2. Cardinality({e \in D : e < d}) = i - 1
        BY <1>2, <3>1
      <3> QED BY <1>1, <1>4, <3>2
    <2>2. among(D, n) = D /\ upTo(s, n) = s
      BY <1>4, <2>1 DEF among, upTo
    <2> QED BY <2>2
  <1>5. CASE n # None /\ ~ (Len(s) <= n)
    <2> DEFINE t == upTo(s, n)
               A == among(D, n)
    <2>1. n \in Nat /\ n < Len(s)
      BY <1>1, <1>5
    <2>2. t = [i \in 1 .. n |-> s[i]]
      <3>1. t = SubSeq(s, 1, n)
        BY <1>5 DEF upTo
      <3>2. Len(SubSeq(s, 1, n)) = n /\ SubSeq(s, 1, n) \in Seq(D)
        BY <1>1, <2>1
      <3>3. \A i \in 1 .. n : SubSeq(s, 1, n)[i] = s[i]
        BY <1>1, <2>1
      <3> QED BY <3>1, <3>2, <3>3
    <2>3. ASSUME NEW i \in 1 .. Len(s) PROVE s[i] \in A <=> i <= n
      <3>1. Cardinality({e \in D : e < s[i]}) = i - 1 /\ s[i] \in D
        BY <1>1, <1>2
      <3>2. s[i] \in A <=> Cardinality({e \in D : e < s[i]}) < n
        BY <1>5, <3>1 DEF among
      <3> QED BY <2>1, <3>1, <3>2
    <2>4. A \subseteq D
      BY DEF among
    <2> HIDE DEF t, A
    <2>5. t \in [1 .. n -> A]
      <3>1. \A i \in 1 .. n : i \in 1 .. Len(s) /\ i <= n
        BY <1>1, <2>1
      <3> QED BY <2>2, <2>3, <3>1
    <2>6. ASSUME NEW i \in 1 .. n, NEW j \in 1 .. n, i < j PROVE t[i] < t[j]
      <3>1. i \in 1 .. Len(s) /\ j \in 1 .. Len(s)
        BY <1>1, <2>1
      <3> QED BY <1>1, <2>2, <2>6, <3>1
    <2>7. ASSUME NEW d \in A PROVE \E i \in 1 .. n : t[i] = d
      <3>1. PICK i \in 1 .. Len(s) : s[i] = d
        BY <1>1, <2>4
      <3>2. i <= n
        BY <2>3, <3>1
      <3>3. i \in 1 .. n
        BY <2>1, <3>2
      <3> QED BY <2>2, <3>1, <3>3
    <2>8. Lists(t, A)
      BY <2>1, <2>5, <2>6, <2>7 DEF Lists
    <2> QED BY <2>8 DEF t, A
  <1> QED BY <1>3, <1>4, <1>5

\* Cutting off and applying can be exchanged.
LEMMA PrefixMapped ==
    ASSUME NEW S, NEW s \in Seq(S), NEW f, NEW n \in Nat \cup {None}
    PROVE  upTo(mapped(s, f), n) = mapped(upTo(s, n), f)
  <1> DEFINE t == mapped(s, f)
  <1>1. Len(s) \in Nat /\ t = [i \in 1 .. Len(s) |-> f[s[i]]] /\ Len(t) = Len(s)
    BY DEF mapped
  <1> HIDE DEF t
  <1>2. CASE n = None \/ Len(s) <= n
    BY <1>1, <1>2 DEF upTo, mapped, t
  <1>3. CASE ~ (n = None \/ Len(s) <= n)
    <2>1. n \in Nat /\ n < Len(s)
      BY <1>1, <1>3
    <2>2. upTo(t, n) = SubSeq(t, 1, n) /\ upTo(s, n) = SubSeq(s, 1, n)
      BY <1>1, <1>3 DEF upTo
    <2>3. t \in Seq({f[s[i]] : i \in 1 .. Len(s)})
      BY <1>1
    <2>4. SubSeq(t, 1, n) = [i \in 1 .. n |-> t[i]]
      BY <1>1, <2>1, <2>3
    <2>5. SubSeq(s, 1, n) = [i \in 1 .. n |-> s[i]]
      BY <1>1, <2>1
    <2>6. mapped(SubSeq(s, 1, n), f) = [i \in 1 .. n |-> f[s[i]]]
      BY <2>1, <2>5 DEF mapped
    <2>7. [i \in 1 .. n |-> t[i]] = [i \in 1 .. n |-> f[s[i]]]
      <3>1. \A i \in 1 .. n : i \in 1 .. Len(s)
        BY <1>1, <2>1
      <3> QED BY <1>1, <3>1
    <2> QED BY <2>2, <2>4, <2>6, <2>7 DEF t
  <1> QED BY <1>2, <1>3

\* n numbers in a row.
row(a, n) == [i \in 1 .. n |-> a + (i - 1)]

\* They list an interval.
LEMMA RowLists ==
    ASSUME NEW a \in Int, NEW n \in Nat
    PROVE  Lists(row(a, n), a .. a + (n - 1))
  <1> DEFINE s == [i \in 1 .. n |-> a + (i - 1)]
  <1>1. s \in [1 .. n -> a .. a + (n - 1)]
    OBVIOUS
  <1>2. \A i, j \in 1 .. n : i < j => s[i] < s[j]
    OBVIOUS
  <1>3. ASSUME NEW d \in a .. a + (n - 1) PROVE \E i \in 1 .. n : s[i] = d
    <2>1. d - a + 1 \in 1 .. n /\ s[d - a + 1] = d
      OBVIOUS
    <2> QED BY <2>1
  <1> HIDE DEF s
  <1>4. Lists(s, a .. a + (n - 1))
    BY <1>1, <1>2, <1>3 DEF Lists
  <1> QED BY <1>4 DEF s, row

-----------------------------------------------------------------------------
(* The days of a series.                                                    *)

\* A series that begins on day first in a zone that has midnights, where the
\* offsets and the calendar reach.
Reached(z, first) ==
    /\ z \in Zones /\ HasMidnights(z)
    /\ first \in 0 .. monthStart[MaxMonth] - 1 /\ monthOf[first] + 14 <= MaxMonth
    /\ (first - 31) * Day \in Walls /\ (first + 400) * Day \in Walls

\* The rule, as the database and the handler have it.
RuleTyped(r) ==
    /\ r.interval \in Int /\ r.count \in Int \cup {None}
    /\ r.until # None => r.until \in Int /\ r.until * Day \in Walls
    /\ r.exdates \in Seq(Int) /\ r.weekdays \in Seq(0 .. 6)

\* dateAtTimezoneMidnight as a function of the date.
midnight(z) == [d \in Dates |-> dateAtTimezoneMidnight(z, d)]

\* The candidates c are the midnights of the days in D, in order.
MidnightsOfDays(z, c, D) == \E s : Lists(s, D) /\ c = mapped(s, midnight(z))

\* onRule and dueDays of a rule r.
onDay(r, first, d) ==
    CASE r.frequency = "DAILY" -> (d - first) % r.interval = 0
      [] r.frequency = "WEEKLY" ->
            /\ (monday(d) - monday(first)) % (7 * r.interval) = 0
            /\ IF r.weekdays = <<>> THEN weekday(d) = weekday(first)
               ELSE weekday(d) \in elements(r.weekdays)
      [] r.frequency = "MONTHLY" ->
            /\ dayOfMonth(d) = dayOfMonth(first)
            /\ (monthOf[d] - monthOf[first]) % r.interval = 0

\* The last day a series may reach.
finalDay(r, first) == IF r.until = None THEN yearLater(first) ELSE r.until

\* The days of the year the rule is due on.
daysOn(r, first) == {d \in first .. finalDay(r, first) : onDay(r, first, d)}

\* The dates around the first day are all given.
LEMMA NearDates ==
    ASSUME NEW z, NEW first, Reached(z, first)
    PROVE  first \in Int /\ \A d \in first - 31 .. first + 400 : d \in Dates /\ d \in Int
  <1>1. first \in Int /\ (first - 31) * Day \in Walls /\ (first + 400) * Day \in Walls
    BY DEF Reached
  <1>2. ASSUME NEW d \in first - 31 .. first + 400 PROVE d \in Dates /\ d \in Int
    <2>1. d \in Int /\ first - 31 \in Int /\ first + 400 \in Int /\ first - 31 <= d /\ d <= first + 400
      BY <1>1
    <2>2. (first + 400) * Day + 0 = (first + 400) * Day /\ d * Day + 0 = d * Day
      <3>1. Day \in Nat
        BY ZonesAssumption DEF Day
      <3>2. (first + 400) * Day \in Int /\ d * Day \in Int
        BY <2>1, <3>1
      <3> QED BY <3>2
    <2>3. \A y \in 0 .. 0 : d * Day + y \in Walls
      BY <1>1, <2>1, <2>2, DatesConvex
    <2>4. d * Day \in Walls
      BY <2>2, <2>3
    <2> QED BY <2>1, <2>4 DEF Dates
  <1> QED BY <1>1, <1>2

\* The month of the first day, and the day a year later.
LEMMA YearAhead ==
    ASSUME NEW z, NEW first, Reached(z, first)
    PROVE  /\ first \in Int /\ monthOf[first] \in 0 .. MaxMonth - 14
           /\ dayOfMonth(first) \in 1 .. 31
           /\ first = monthStart[monthOf[first]] + dayOfMonth(first) - 1
           /\ dayOfMonth(first) <= monthLength(monthOf[first])
           /\ monthStart[monthOf[first]] \in first - 30 .. first
           /\ monthStart[monthOf[first] + 12] \in Nat
           /\ monthStart[monthOf[first] + 12] <= monthStart[monthOf[first]] + 366
           /\ yearLater(first) = monthStart[monthOf[first] + 12] + dayOfMonth(first) - 1
           /\ yearLater(first) \in first .. first + 366
  <1> DEFINE m == monthOf[first]
             k == dayOfMonth(first)
  <1>1. first \in 0 .. monthStart[MaxMonth] - 1 /\ m + 14 <= MaxMonth /\ MaxMonth \in Nat
    BY CalendarAssumption DEF Reached
  <1>2. m \in 0 .. MaxMonth - 1 /\ monthStart[m] <= first /\ first < monthStart[m + 1]
    BY <1>1, MonthFound
  <1>3. k = first - monthStart[m] + 1 /\ yearLater(first) = monthStart[m + 12] + k - 1
    BY DEF dayOfMonth, yearLater
  <1> HIDE DEF m, k
  <1>4. m \in 0 .. MaxMonth /\ m + 12 \in 0 .. MaxMonth /\ m \in Nat /\ m \in 0 .. MaxMonth - 14
    BY <1>1, <1>2
  <1>5. monthStart[m] \in Nat /\ monthStart[m + 12] \in Nat
    BY <1>4, MonthStarts
  <1>6. monthStart[m + 1] = monthStart[m] + monthLength(m) /\ monthLength(m) \in 28 .. 31
    BY <1>2, <1>4, MonthStarts, MonthLengths
  <1>7. monthStart[m + 12] <= monthStart[m] + 366
    BY <1>4, YearLength, <1>1
  <1>8. monthStart[m] <= monthStart[m + 12]
    <2>1. m < m + 12 /\ m + 1 \in 0 .. MaxMonth
      BY <1>1, <1>4
    <2>2. monthStart[m] + 28 <= monthStart[m + 1] /\ monthStart[m + 1] <= monthStart[m + 12]
      BY <1>4, <2>1, MonthsOrdered
    <2>3. monthStart[m + 1] \in Nat
      BY <2>1, MonthStarts
    <2> QED BY <1>5, <2>2, <2>3
  <1>9. first \in Int /\ k \in 1 .. 31 /\ first = monthStart[m] + k - 1
        /\ k <= monthLength(m)
        /\ monthStart[m] \in first - 30 .. first
        /\ yearLater(first) \in first .. first + 366
    BY <1>1, <1>2, <1>3, <1>5, <1>6, <1>7, <1>8
  <1> QED BY <1>3, <1>4, <1>5, <1>7, <1>9 DEF m, k

\* AddDate from a midnight leads to a midnight.
LEMMA AddedDays ==
    ASSUME NEW z \in Zones, HasMidnights(z), NEW d \in Dates, NEW n \in Int
    PROVE  addDays(z, dateAtTimezoneMidnight(z, d), n) = dateAtTimezoneMidnight(z, d + n)
  <1> DEFINE u == dateAtTimezoneMidnight(z, d)
  <1>1. date(z, u) = d /\ clock(z, u) = 0
    BY MidnightShows
  <1>2. d \in Int /\ Day \in Nat
    BY ZonesAssumption DEF Dates, Day
  <1>3. (d + n) * Day + 0 = (d + n) * Day
    <2>1. (d + n) * Day \in Int
      BY <1>2
    <2> QED BY <2>1
  <1> HIDE DEF u
  <1>4. addDays(z, u, n) = Date(z, (d + n) * Day)
    BY <1>1, <1>3 DEF addDays
  <1> QED BY <1>4 DEF dateAtTimezoneMidnight, u

\* The last instant is the midnight of the last day, and until is refused
\* exactly when it is before the first day or more than a year after it.
LEMMA Limits ==
    ASSUME NEW z, NEW first, Reached(z, first), NEW r, RuleTyped(r)
    PROVE  LET from == dateAtTimezoneMidnight(z, first)
           IN  /\ limit(z, from, r) = dateAtTimezoneMidnight(z, finalDay(r, first))
               /\ untilInvalid(z, from, r) <=>
                      r.until # None /\ r.until \notin first .. yearLater(first)
  <1> DEFINE from == dateAtTimezoneMidnight(z, first)
             year == yearLater(first)
  <1>1. z \in Zones /\ HasMidnights(z)
    BY DEF Reached
  <1>2. first \in Int /\ year \in first .. first + 366
    BY YearAhead
  <1>3. first \in Dates /\ year \in Dates /\ year \in Int
    <2>1. first \in first - 31 .. first + 400 /\ year \in first - 31 .. first + 400
      BY <1>2
    <2> QED BY <2>1, NearDates
  <1>4. date(z, from) = first /\ clock(z, from) = 0
    BY <1>1, <1>3, MidnightShows
  <1>5. addYear(z, from) = dateAtTimezoneMidnight(z, year)
    <2>1. Day \in Nat
      BY ZonesAssumption DEF Day
    <2>2. year * Day + 0 = year * Day
      <3>1. year * Day \in Int
        BY <1>3, <2>1
      <3> HIDE DEF year
      <3> QED BY <3>1
    <2> HIDE DEF from
    <2> QED BY <1>4, <2>2 DEF addYear, dateAtTimezoneMidnight
  <1>6. limit(z, from, r) = dateAtTimezoneMidnight(z, finalDay(r, first))
    BY <1>5 DEF limit, finalDay
  <1>7. untilInvalid(z, from, r) <=> r.until # None /\ r.until \notin first .. year
    <2>1. CASE r.until = None
      BY <2>1 DEF untilInvalid
    <2>2. CASE r.until # None
      <3>1. r.until \in Dates /\ r.until \in Int
        BY <2>2 DEF RuleTyped, Dates
      <3> DEFINE u == dateAtTimezoneMidnight(z, r.until)
                 y == dateAtTimezoneMidnight(z, year)
      <3>2. u \in Int /\ from \in Int /\ y \in Int
        BY <1>1, <1>3, <3>1, MidnightShows
      <3>3. from <= u <=> first <= r.until
        BY <1>1, <1>3, <3>1, MidnightOrder
      <3>4. u <= y <=> r.until <= year
        BY <1>1, <1>3, <3>1, MidnightOrder
      <3>5. untilInvalid(z, from, r) <=> (u < from \/ u > y)
        BY <1>5, <2>2 DEF untilInvalid
      <3> HIDE DEF u, y, from, year
      <3> QED BY <1>2, <1>3, <2>2, <3>1, <3>2, <3>3, <3>4, <3>5
    <2> QED BY <2>1, <2>2
  <1> QED BY <1>6, <1>7

-----------------------------------------------------------------------------
(* Daily and weekly rules.                                                  *)

\* Whole weeks, counted in days or in weeks.
LEMMA Multiples ==
    ASSUME NEW k \in Nat, NEW i \in Nat \ {0}
    PROVE  (7 * k) % (7 * i) = 0 <=> k % i = 0
  <1> DEFINE q == k \div i
             c == k % i
  <1>1. q \in Int /\ c \in 0 .. i - 1 /\ k = i * q + c
    OBVIOUS
  <1> HIDE DEF q, c
  <1>2. 7 * i \in Nat \ {0} /\ 7 * c \in 0 .. 7 * i - 1
    BY <1>1
  <1> DEFINE D == 7 * i
             e == 7 * c
  <1>3. 7 * k = q * D + e
    <2>1. 7 * (i * q + c) = q * (7 * i) + 7 * c
      BY <1>1
    <2> QED BY <1>1, <2>1
  <1>4. (q * D + e) % D = e
    <2>1. D \in Nat \ {0} /\ e \in 0 .. D - 1
      BY <1>2
    <2> HIDE DEF D, e
    <2> QED BY <1>1, <2>1, WallParts
  <1>5. (7 * k) % (7 * i) = 7 * c
    BY <1>3, <1>4
  <1>6. 7 * c = 0 <=> c = 0
    BY <1>1
  <1> QED BY <1>5, <1>6 DEF c

\* Whole weeks lie between two Mondays.
LEMMA Weeks ==
    ASSUME NEW a \in Int, NEW b \in Int, a <= b, NEW i \in Nat \ {0}
    PROVE  /\ monday(a) \in a - 6 .. a /\ monday(b) \in b - 6 .. b
           /\ quo(monday(b) - monday(a), 7) % i = 0 <=> (monday(b) - monday(a)) % (7 * i) = 0
  <1> DEFINE p == (a + BaseWeekday) \div 7
             q == (b + BaseWeekday) \div 7
             k == q - p
  <1>1. BaseWeekday \in 0 .. 6
    BY CalendarAssumption
  <1>2. /\ monday(a) = 7 * p - BaseWeekday /\ monday(b) = 7 * q - BaseWeekday
        /\ p \in Int /\ q \in Int /\ p <= q
        /\ monday(a) \in a - 6 .. a /\ monday(b) \in b - 6 .. b
    BY <1>1 DEF monday, weekday
  <1> HIDE DEF p, q
  <1>3. k \in Nat /\ monday(b) - monday(a) = 7 * k
    BY <1>1, <1>2
  <1> HIDE DEF k
  <1>4. quo(7 * k, 7) = k
    BY <1>3 DEF quo
  <1> QED BY <1>2, <1>3, <1>4, Multiples

\* recurrenceMatches: the rule is due on the day of the candidate.
LEMMA RuleMatches ==
    ASSUME NEW z, NEW first, Reached(z, first), NEW r, RuleTyped(r), ~ ruleInvalid(r),
           r.frequency # "MONTHLY", NEW start, date(z, start) = first,
           NEW d \in first .. first + 366
    PROVE  recurrenceMatches(z, dateAtTimezoneMidnight(z, first), dateAtTimezoneMidnight(z, d), r,
                             weekdaySet(z, start, r)) <=> onDay(r, first, d)
  <1> DEFINE M(x) == dateAtTimezoneMidnight(z, x)
             W == weekdaySet(z, start, r)
  <1>1. z \in Zones /\ HasMidnights(z) /\ first \in Int /\ d \in Int
    BY NearDates DEF Reached
  <1>2. r.frequency \in {"DAILY", "WEEKLY"} /\ r.interval \in 1 .. 30
    BY DEF ruleInvalid, Frequencies
  <1>3. first \in Dates /\ d \in Dates
    <2>1. first \in first - 31 .. first + 400 /\ d \in first - 31 .. first + 400
      BY <1>1
    <2> QED BY <2>1, NearDates
  <1>4. date(z, M(first)) = first /\ date(z, M(d)) = d
    BY <1>1, <1>3, MidnightShows
  <1>5. CASE r.frequency = "DAILY"
    <2> HIDE DEF M
    <2>1. recurrenceMatches(z, M(first), M(d), r, W) <=> (d - first) % r.interval = 0
      BY <1>4, <1>5 DEF recurrenceMatches, dayDelta
    <2> QED BY <1>5, <2>1 DEF onDay, M
  <1>6. CASE r.frequency = "WEEKLY"
    <2>1. \A x \in {first, d} : weekStart(z, M(x)) = M(monday(x)) /\ date(z, M(monday(x))) = monday(x)
      <3> TAKE x \in {first, d}
      <3>1. x \in Dates /\ x \in Int /\ date(z, M(x)) = x /\ x \in first .. first + 366
        BY <1>1, <1>3, <1>4
      <3>2. weekday(x) \in 0 .. 6
        BY <3>1, CalendarAssumption DEF weekday
      <3>3. -weekday(x) \in Int /\ x + (-weekday(x)) = monday(x)
        BY <3>1, <3>2 DEF monday
      <3>4. addDays(z, M(x), -weekday(x)) = M(x + (-weekday(x)))
        BY <1>1, <3>1, <3>3, AddedDays
      <3>5. monday(x) \in first - 31 .. first + 400
        BY <1>1, <3>1, <3>2 DEF monday
      <3>6. monday(x) \in Dates
        BY <3>5, NearDates
      <3>7. date(z, M(monday(x))) = monday(x)
        BY <1>1, <3>6, MidnightShows
      <3>8. weekStart(z, M(x)) = addDays(z, M(x), -weekday(x))
        BY <3>1 DEF weekStart
      <3> QED BY <3>3, <3>4, <3>7, <3>8
    <2> HIDE DEF M
    <2>2. dayDelta(z, weekStart(z, M(first)), weekStart(z, M(d))) = monday(d) - monday(first)
      BY <2>1 DEF dayDelta
    <2>3. recurrenceMatches(z, M(first), M(d), r, W) <=>
              /\ quo(monday(d) - monday(first), 7) % r.interval = 0
              /\ weekday(d) \in W
      BY <1>4, <1>6, <2>2 DEF recurrenceMatches
    <2>4. quo(monday(d) - monday(first), 7) % r.interval = 0
              <=> (monday(d) - monday(first)) % (7 * r.interval) = 0
      <3>1. first <= d /\ r.interval \in Nat \ {0}
        BY <1>1, <1>2
      <3> QED BY <1>1, <3>1, Weeks
    <2>5. weekday(d) \in W <=> IF r.weekdays = <<>> THEN weekday(d) = weekday(first)
                               ELSE weekday(d) \in elements(r.weekdays)
      BY <1>6 DEF weekdaySet
    <2> HIDE DEF W
    <2>6. recurrenceMatches(z, M(first), M(d), r, W) <=> onDay(r, first, d)
      BY <1>6, <2>3, <2>4, <2>5 DEF onDay
    <2> QED BY <2>6 DEF M, W
  <1> QED BY <1>2, <1>5, <1>6

\* dailyCandidates: AddDate day by day finds the days the rule is due on.
LEMMA DailyDays ==
    ASSUME NEW z, NEW first, Reached(z, first), NEW r, RuleTyped(r), ~ ruleInvalid(r),
           r.frequency # "MONTHLY", NEW start, date(z, start) = first,
           finalDay(r, first) \in first .. yearLater(first)
    PROVE  MidnightsOfDays(z, dailyCandidates(z, dateAtTimezoneMidnight(z, first),
                                              dateAtTimezoneMidnight(z, finalDay(r, first)), r,
                                              weekdaySet(z, start, r)),
                           daysOn(r, first))
  <1> DEFINE M(x) == dateAtTimezoneMidnight(z, x)
             W == weekdaySet(z, start, r)
             last == finalDay(r, first)
             all == [i \in 1 .. 367 |-> addDays(z, M(first), i - 1)]
             s == [i \in 1 .. 367 |-> first + (i - 1)]
             f == midnight(z)
             K == {c \in elements(all) : c <= M(last) /\ recurrenceMatches(z, M(first), c, r, W)}
             k == daysOn(r, first)
  <1>1. z \in Zones /\ HasMidnights(z) /\ first \in Int
    BY NearDates DEF Reached
  <1>2. last \in first .. first + 366
    BY <1>1, YearAhead
  <1>3. \A d \in first .. first + 366 : d \in Dates /\ d \in Int
    <2>1. \A d \in first .. first + 366 : d \in first - 31 .. first + 400
      BY <1>1
    <2> QED BY <2>1, NearDates
  <1>4. Lists(s, first .. first + 366)
    <2>1. Lists(row(first, 367), first .. first + (367 - 1))
      BY <1>1, RowLists
    <2>2. s = row(first, 367) /\ 367 - 1 = 366
      BY DEF row
    <2> HIDE DEF s
    <2> QED BY <2>1, <2>2
  <1>5. s \in Seq(Int) /\ Len(s) = 367
    BY <1>1
  <1>6. ASSUME NEW i \in 1 .. 367
        PROVE  s[i] \in first .. first + 366 /\ all[i] = M(s[i]) /\ f[s[i]] = M(s[i])
    <2>1. s[i] = first + (i - 1) /\ s[i] \in first .. first + 366 /\ i - 1 \in Int
      BY <1>1
    <2>2. s[i] \in Dates /\ first \in Dates
      <3>1. first \in first .. first + 366
        BY <1>1
      <3> HIDE DEF s
      <3> QED BY <1>3, <2>1, <3>1
    <2>3. addDays(z, M(first), i - 1) = M(first + (i - 1))
      BY <1>1, <2>1, <2>2, AddedDays
    <2> HIDE DEF s
    <2>4. all[i] = M(s[i])
      <3> HIDE DEF M
      <3> QED BY <2>1, <2>3
    <2> QED BY <2>1, <2>2, <2>4 DEF midnight
  <1>7. all = mapped(s, f)
    <2> HIDE DEF M, s, f
    <2>1. \A i \in 1 .. 367 : all[i] = f[s[i]]
      BY <1>6
    <2>2. all = [i \in 1 .. 367 |-> all[i]]
      OBVIOUS
    <2> HIDE DEF all
    <2>3. mapped(s, f) = [i \in 1 .. 367 |-> f[s[i]]]
      BY <1>5 DEF mapped
    <2> DEFINE I == 1 .. 367
    <2>4. [i \in I |-> all[i]] = [i \in I |-> f[s[i]]]
      <3>1. \A i \in I : all[i] = f[s[i]]
        BY <2>1
      <3> HIDE DEF I
      <3> QED BY <3>1
    <2> QED BY <2>2, <2>3, <2>4
  <1>8. ASSUME NEW i \in 1 .. Len(s) PROVE f[s[i]] \in K <=> s[i] \in k
    <2> DEFINE d == s[i]
    <2>1. i \in 1 .. 367
      BY <1>5
    <2>2. d \in first .. first + 366 /\ all[i] = M(d) /\ f[d] = M(d)
      BY <1>6, <2>1
    <2>3. d \in Dates /\ last \in Dates /\ d \in Int /\ last \in Int
      <3> HIDE DEF d, last
      <3> QED BY <1>2, <1>3, <2>2
    <2>4. M(d) <= M(last) <=> d <= last
      <3> HIDE DEF d, last
      <3> QED BY <1>1, <2>3, MidnightOrder
    <2>5. recurrenceMatches(z, M(first), M(d), r, W) <=> onDay(r, first, d)
      <3> HIDE DEF d
      <3> QED BY <2>2, RuleMatches
    <2>6. M(d) \in elements(all)
      <3>1. DOMAIN all = 1 .. 367
        OBVIOUS
      <3> HIDE DEF all, d, M
      <3> QED BY <2>1, <2>2, <3>1 DEF elements
    <2> HIDE DEF d, M, W, all
    <2>7. M(d) \in K <=> M(d) <= M(last) /\ recurrenceMatches(z, M(first), M(d), r, W)
      BY <2>6
    <2>8. d \in k <=> d <= last /\ onDay(r, first, d)
      BY <1>1, <2>2, <2>3 DEF daysOn
    <2>9. f[d] \in K <=> d \in k
      <3> HIDE DEF K, k, last, f
      <3> QED BY <2>2, <2>4, <2>5, <2>7, <2>8
    <2> QED BY <2>9 DEF d
  <1>9. keep(all, K) = mapped(keep(s, k), f)
    <2> HIDE DEF s, f, K, k, all
    <2>1. Takes(s, f, k, K)
      BY <1>8 DEF Takes
    <2>2. keep(mapped(s, f), K) = mapped(keep(s, k), f)
      BY <1>5, <2>1, KeepMapped
    <2> QED BY <1>7, <2>2
  <1>10. Lists(keep(s, k), k)
    <2>1. (first .. first + 366) \cap k = k /\ first .. first + 366 \in SUBSET Int
      <3>1. k \subseteq first .. last
        BY DEF daysOn
      <3> HIDE DEF k, last
      <3>2. first .. last \subseteq first .. first + 366
        BY <1>1, <1>2
      <3>3. (first .. first + 366) \cap k = k
        <4> DEFINE I == first .. last
                   J == first .. first + 366
        <4>1. k \subseteq I /\ I \subseteq J
          BY <3>1, <3>2
        <4> HIDE DEF I, J
        <4>2. J \cap k = k
          BY <4>1
        <4> QED BY <4>2 DEF J
      <3>4. first .. first + 366 \in SUBSET Int
        BY <1>1
      <3> QED BY <3>3, <3>4
    <2> DEFINE J == first .. first + 366
    <2>2. Lists(s, J) /\ J \in SUBSET Int /\ J \cap k = k
      BY <1>4, <2>1
    <2> HIDE DEF s, k, J
    <2>3. Lists(keep(s, k), J \cap k)
      BY <2>2, KeepLists
    <2> QED BY <2>2, <2>3
  <1>11. dailyCandidates(z, M(first), M(last), r, W) = keep(all, K)
    BY DEF dailyCandidates
  <1> HIDE DEF M, W, last, all, s, f, K, k
  <1>12. MidnightsOfDays(z, dailyCandidates(z, M(first), M(last), r, W), k)
    BY <1>9, <1>10, <1>11 DEF MidnightsOfDays, f
  <1> QED BY <1>12 DEF M, W, last, k

-----------------------------------------------------------------------------
(* Monthly rules.                                                           *)

\* The months a rule visits.
Visited(r, first) ==
    {m \in monthOf[first] .. monthOf[first] + 12 :
        (m - monthOf[first]) % r.interval = 0 /\ monthStart[m] <= finalDay(r, first)}

\* Where the months of a series lie.
LEMMA SeriesMonths ==
    ASSUME NEW z, NEW first, Reached(z, first), NEW m \in monthOf[first] .. monthOf[first] + 12
    PROVE  /\ monthOf[first] \in Nat /\ m \in Nat /\ m \in 0 .. MaxMonth /\ m \in 0 .. MaxMonth - 1
           /\ m + 1 \in 0 .. MaxMonth
           /\ monthStart[m] \in Nat /\ monthStart[m + 1] = monthStart[m] + monthLength(m)
           /\ monthLength(m) \in 28 .. 31
           /\ monthStart[m] \in first - 30 .. first + 366
           /\ monthStart[m] <= monthStart[monthOf[first] + 12]
           /\ \A i \in 0 .. 30 : monthStart[m] + i \in Dates
  <1> DEFINE m0 == monthOf[first]
  <1>1. /\ first \in Int /\ m0 \in 0 .. MaxMonth - 14 /\ MaxMonth \in Nat
        /\ monthStart[m0] \in first - 30 .. first
        /\ monthStart[m0 + 12] \in Nat /\ monthStart[m0 + 12] <= monthStart[m0] + 366
    BY YearAhead, CalendarAssumption
  <1> HIDE DEF m0
  <1>2. /\ m0 \in Nat /\ m \in Nat /\ m \in 0 .. MaxMonth /\ m \in 0 .. MaxMonth - 1
        /\ m + 1 \in 0 .. MaxMonth /\ m0 \in 0 .. MaxMonth /\ m0 + 12 \in 0 .. MaxMonth
        /\ m0 <= m /\ m <= m0 + 12
    BY <1>1 DEF m0
  <1>3. /\ monthStart[m] \in Nat /\ monthStart[m + 1] = monthStart[m] + monthLength(m)
        /\ monthLength(m) \in 28 .. 31
    BY <1>2, MonthStarts, MonthLengths
  <1>4. \A j, k \in 0 .. MaxMonth : j <= k => monthStart[j] <= monthStart[k]
    <2> SUFFICES ASSUME NEW j \in 0 .. MaxMonth, NEW k \in 0 .. MaxMonth, j <= k
                 PROVE  monthStart[j] <= monthStart[k]
      OBVIOUS
    <2>1. monthStart[j] \in Nat /\ monthStart[k] \in Nat
      BY MonthStarts
    <2>2. CASE j = k
      BY <2>1, <2>2
    <2>3. CASE j < k
      <3>1. j + 1 \in 0 .. MaxMonth /\ monthStart[j] + 28 <= monthStart[j + 1]
            /\ monthStart[j + 1] <= monthStart[k]
        BY <2>3, MonthsOrdered
      <3>2. monthStart[j + 1] \in Nat
        BY <3>1, MonthStarts
      <3> QED BY <2>1, <3>1, <3>2
    <2> QED BY <2>2, <2>3
  <1>5. monthStart[m0] <= monthStart[m] /\ monthStart[m] <= monthStart[m0 + 12]
    BY <1>2, <1>4
  <1>6. monthStart[m] \in first - 30 .. first + 366
    BY <1>1, <1>3, <1>5
  <1>7. ASSUME NEW i \in 0 .. 30 PROVE monthStart[m] + i \in Dates
    <2>1. monthStart[m] + i \in first - 31 .. first + 400
      BY <1>1, <1>6
    <2> QED BY <2>1, NearDates
  <1> QED BY <1>2, <1>3, <1>5, <1>6, <1>7 DEF m0

\* A day of a month of the series.
LEMMA DayInMonth ==
    ASSUME NEW z, NEW first, Reached(z, first), NEW m \in monthOf[first] .. monthOf[first] + 12,
           NEW k \in 1 .. monthLength(m)
    PROVE  /\ monthStart[m] + k - 1 \in Int
           /\ monthStart[m] + k - 1 \in Dates
           /\ monthOf[monthStart[m] + k - 1] = m
           /\ dayOfMonth(monthStart[m] + k - 1) = k
  <1> DEFINE d == monthStart[m] + k - 1
  <1>1. /\ m \in 0 .. MaxMonth - 1 /\ monthStart[m] \in Nat
        /\ monthStart[m + 1] = monthStart[m] + monthLength(m) /\ monthLength(m) \in 28 .. 31
        /\ \A i \in 0 .. 30 : monthStart[m] + i \in Dates
    BY SeriesMonths
  <1>2. k \in Int /\ 1 <= k /\ k <= monthLength(m) /\ k - 1 \in 0 .. 30
    BY <1>1
  <1>3. d \in Int /\ monthStart[m] <= d /\ d < monthStart[m + 1] /\ d = monthStart[m] + (k - 1)
    BY <1>1, <1>2
  <1>4. d \in Dates
    BY <1>1, <1>2, <1>3
  <1> HIDE DEF d
  <1>5. monthOf[d] = m
    BY <1>1, <1>3, MonthIs
  <1>6. dayOfMonth(d) = k
    BY <1>1, <1>2, <1>3, <1>5 DEF dayOfMonth
  <1> QED BY <1>3, <1>4, <1>5, <1>6 DEF d

\* monthsVisited: the months are found, in order.
LEMMA MonthsListed ==
    ASSUME NEW z, NEW first, Reached(z, first), NEW r, RuleTyped(r), ~ ruleInvalid(r),
           finalDay(r, first) \in first .. yearLater(first)
    PROVE  Lists(monthsVisited(z, dateAtTimezoneMidnight(z, first),
                               dateAtTimezoneMidnight(z, finalDay(r, first)), r),
                 Visited(r, first))
  <1> DEFINE M(x) == dateAtTimezoneMidnight(z, x)
             from == M(first)
             last == finalDay(r, first)
             m0 == monthOf[first]
             start(n) == M(monthStart[monthOf[date(z, from)] + n])
             month(n) == monthOf[date(z, start(n))]
             s == [i \in 1 .. 13 |-> i - 1]
             K == {n \in 0 .. 12 : n % r.interval = 0 /\ start(n) <= M(last)}
             f == [n \in 0 .. 12 |-> m0 + n]
             V == Visited(r, first)
             k == keep(s, K)
  <1>1. z \in Zones /\ HasMidnights(z) /\ first \in Int /\ r.interval \in 1 .. 30
    BY NearDates DEF Reached, ruleInvalid
  <1>2. m0 \in Nat /\ yearLater(first) \in first .. first + 366
    BY YearAhead
  <1>3. first \in Dates /\ last \in Dates /\ last \in Int
    <2>1. first \in first - 31 .. first + 400 /\ last \in first - 31 .. first + 400
      BY <1>1, <1>2
    <2> HIDE DEF last
    <2> QED BY <2>1, NearDates
  <1>4. date(z, from) = first
    BY <1>1, <1>3, MidnightShows
  <1> HIDE DEF from
  <1>5. ASSUME NEW n \in 0 .. 12
        PROVE  /\ start(n) = M(monthStart[m0 + n]) /\ month(n) = m0 + n
               /\ start(n) <= M(last) <=> monthStart[m0 + n] <= last
    <2> DEFINE m == m0 + n
    <2>1. m \in m0 .. m0 + 12
      BY <1>2
    <2>2. /\ monthStart[m] \in Nat /\ monthLength(m) \in 28 .. 31
          /\ \A i \in 0 .. 30 : monthStart[m] + i \in Dates
      <3> HIDE DEF m
      <3> QED BY <2>1, SeriesMonths
    <2>3. monthStart[m] \in Dates /\ monthStart[m] + 1 - 1 = monthStart[m]
      <3> HIDE DEF m
      <3>1. monthStart[m] + 0 \in Dates
        BY <2>2
      <3> QED BY <2>2, <3>1
    <2>4. monthOf[monthStart[m]] = m
      <3> HIDE DEF m
      <3>1. 1 \in 1 .. monthLength(m)
        BY <2>2
      <3>2. monthOf[monthStart[m] + 1 - 1] = m
        BY <2>1, <3>1, DayInMonth
      <3> QED BY <2>3, <3>2
    <2>5. start(n) = M(monthStart[m])
      BY <1>4
    <2> HIDE DEF m
    <2>6. date(z, M(monthStart[m])) = monthStart[m]
      BY <1>1, <2>3, MidnightShows
    <2>7. M(monthStart[m]) <= M(last) <=> monthStart[m] <= last
      <3> HIDE DEF last
      <3> QED BY <1>1, <1>3, <2>3, MidnightOrder
    <2>8. month(n) = m
      BY <2>4, <2>5, <2>6
    <2> HIDE DEF M, start, month
    <2> QED BY <2>5, <2>7, <2>8 DEF m
  <1>6. monthsVisited(z, from, M(last), r) = each(k, month)
    BY DEF monthsVisited
  <1> HIDE DEF M, start, month
  <1>7. Lists(s, 0 .. 12)
    <2>1. \A n \in Nat : Lists(row(0, n), 0 .. 0 + (n - 1))
      BY RowLists
    <2>2. s = row(0, 13) /\ 0 + (13 - 1) = 12
      BY DEF row
    <2> HIDE DEF s
    <2> QED BY <2>1, <2>2
  <1>8. Lists(k, (0 .. 12) \cap K)
    <2>1. 0 .. 12 \in SUBSET Int
      OBVIOUS
    <2> HIDE DEF s, K
    <2> QED BY <1>7, <2>1, KeepLists
  <1>9. (0 .. 12) \cap K = K /\ K \in SUBSET Int
    OBVIOUS
  <1>10. Lists(k, K)
    BY <1>8, <1>9
  <1> HIDE DEF s, k
  <1>11. DOMAIN k = 1 .. Len(k) /\ \A i \in 1 .. Len(k) : k[i] \in K
    <2> HIDE DEF K
    <2> QED BY <1>10, ListsSeq
  <1>12. each(k, month) = mapped(k, f)
    <2>1. ASSUME NEW i \in 1 .. Len(k) PROVE month(k[i]) = f[k[i]]
      <3>1. k[i] \in 0 .. 12
        BY <1>11
      <3> QED BY <1>5, <3>1
    <2>2. each(k, month) = [i \in 1 .. Len(k) |-> month(k[i])]
      BY <1>11 DEF each
    <2> HIDE DEF f
    <2> QED BY <2>1, <2>2 DEF mapped
  <1>13. Lists(mapped(k, f), {f[n] : n \in K})
    <2>1. \A n, j \in K : n < j => f[n] < f[j]
      BY <1>2
    <2> HIDE DEF K, f
    <2> QED BY <1>9, <1>10, <2>1, MappedLists
  <1>14. {f[n] : n \in K} = V
    <2>1. ASSUME NEW n \in K PROVE f[n] \in V
      <3>1. n \in 0 .. 12 /\ n % r.interval = 0 /\ start(n) <= M(last)
        OBVIOUS
      <3>2. f[n] = m0 + n /\ m0 + n \in m0 .. m0 + 12 /\ (m0 + n) - m0 = n
        BY <1>2, <3>1
      <3>3. monthStart[m0 + n] <= last
        BY <1>5, <3>1
      <3> QED BY <3>1, <3>2, <3>3 DEF Visited
    <2>2. ASSUME NEW m \in V PROVE \E n \in K : f[n] = m
      <3> DEFINE n == m - m0
      <3>1. m \in m0 .. m0 + 12 /\ (m - m0) % r.interval = 0 /\ monthStart[m] <= last
        BY DEF Visited
      <3>2. n \in 0 .. 12 /\ m0 + n = m
        BY <1>2, <3>1
      <3>3. start(n) <= M(last)
        <4> HIDE DEF n
        <4> QED BY <1>5, <3>1, <3>2
      <3>4. n \in K /\ f[n] = m
        BY <3>1, <3>2, <3>3
      <3> QED BY <3>4
    <2> HIDE DEF K, V, f
    <2> QED BY <2>1, <2>2
  <1> HIDE DEF V, f, K, last
  <1>15. Lists(monthsVisited(z, from, M(last), r), V)
    BY <1>6, <1>12, <1>13, <1>14
  <1> QED BY <1>15 DEF V, M, from, last

\* lastDay: the day before the next month starts.
LEMMA LastDays ==
    ASSUME NEW z, NEW first, Reached(z, first), NEW m \in monthOf[first] .. monthOf[first] + 12
    PROVE  lastDay(z, m) = monthLength(m)
  <1> DEFINE l == monthLength(m)
             d == monthStart[m] + l - 1
  <1>1. monthStart[m + 1] = monthStart[m] + l /\ l \in 28 .. 31 /\ monthStart[m] \in Nat
    BY SeriesMonths
  <1>2. l \in 1 .. monthLength(m)
    BY <1>1
  <1>3. d \in Dates /\ dayOfMonth(d) = l
    <2> HIDE DEF l
    <2> QED BY <1>2, DayInMonth
  <1>4. monthStart[m + 1] - 1 = d
    BY <1>1
  <1> HIDE DEF d
  <1>5. date(z, dateAtTimezoneMidnight(z, d)) = d
    BY <1>3, MidnightShows DEF Reached
  <1> QED BY <1>3, <1>4, <1>5 DEF lastDay

\* The days of the months that have the day of the first, from the first on.
LEMMA MonthlySet ==
    ASSUME NEW z, NEW first, Reached(z, first), NEW r, RuleTyped(r), ~ ruleInvalid(r),
           r.frequency = "MONTHLY", finalDay(r, first) \in first .. yearLater(first)
    PROVE  LET k == dayOfMonth(first)
           IN  {monthStart[m] + k - 1 : m \in {x \in Visited(r, first) : k <= monthLength(x)}}
                   \cap {d \in Int : d >= first /\ (r.until # None => d <= finalDay(r, first))}
               = daysOn(r, first)
  <1> DEFINE k == dayOfMonth(first)
             m0 == monthOf[first]
             last == finalDay(r, first)
             V == {x \in Visited(r, first) : k <= monthLength(x)}
             A == {monthStart[m] + k - 1 : m \in V}
             B == {d \in Int : d >= first /\ (r.until # None => d <= last)}
             C == daysOn(r, first)
  <1>1. /\ first \in Int /\ m0 \in 0 .. MaxMonth - 14 /\ k \in 1 .. 31 /\ MaxMonth \in Nat
        /\ first = monthStart[m0] + k - 1 /\ k <= monthLength(m0)
        /\ monthStart[m0 + 12] \in Nat
        /\ yearLater(first) = monthStart[m0 + 12] + k - 1
        /\ yearLater(first) \in first .. first + 366
        /\ last \in Int /\ first <= last /\ last <= yearLater(first)
    <2>1. /\ first \in Int /\ m0 \in 0 .. MaxMonth - 14 /\ k \in 1 .. 31
          /\ first = monthStart[m0] + k - 1 /\ k <= monthLength(m0)
          /\ monthStart[m0 + 12] \in Nat
          /\ yearLater(first) = monthStart[m0 + 12] + k - 1
          /\ yearLater(first) \in first .. first + 366
      BY YearAhead
    <2> HIDE DEF k, m0, last
    <2> QED BY <2>1, CalendarAssumption DEF last
  <1>2. \A d : onDay(r, first, d) <=> dayOfMonth(d) = k /\ (monthOf[d] - m0) % r.interval = 0
    BY DEF onDay
  <1>3. ASSUME NEW d \in A \cap B PROVE d \in C
    <2>1. PICK m \in V : d = monthStart[m] + k - 1
      OBVIOUS
    <2>2. m \in m0 .. m0 + 12 /\ (m - m0) % r.interval = 0 /\ k <= monthLength(m)
      BY DEF Visited
    <2>3. monthLength(m) \in 28 .. 31 /\ monthStart[m] <= monthStart[m0 + 12] /\ monthStart[m] \in Nat
      BY <2>2, SeriesMonths
    <2>4. k \in 1 .. monthLength(m)
      <3> HIDE DEF k
      <3> QED BY <1>1, <2>2, <2>3
    <2>5. monthOf[d] = m /\ dayOfMonth(d) = k /\ d \in Int
      <3> HIDE DEF k, V, A
      <3> QED BY <2>1, <2>2, <2>4, DayInMonth
    <2>6. onDay(r, first, d)
      BY <1>2, <2>2, <2>5
    <2>7. d >= first /\ (r.until # None => d <= last)
      OBVIOUS
    <2>8. d <= last
      <3>1. CASE r.until # None
        BY <2>7, <3>1
      <3>2. CASE r.until = None
        <4>1. last = yearLater(first)
          BY <3>2 DEF finalDay
        <4> HIDE DEF k, last, m0
        <4> QED BY <1>1, <2>1, <2>3, <4>1
      <3> QED BY <3>1, <3>2
    <2> HIDE DEF last
    <2>9. d \in first .. last
      BY <1>1, <2>5, <2>7, <2>8
    <2> QED BY <2>6, <2>9 DEF daysOn, last
  <1>4. ASSUME NEW d \in C PROVE d \in A \cap B
    <2> DEFINE m == monthOf[d]
    <2>1. d \in first .. last /\ dayOfMonth(d) = k /\ (m - m0) % r.interval = 0
      BY <1>2 DEF daysOn
    <2>2. d \in 0 .. monthStart[MaxMonth] - 1
      <3>1. first \in Nat
        BY DEF Reached
      <3>2. m0 + 12 \in 0 .. MaxMonth /\ m0 + 13 \in 0 .. MaxMonth /\ m0 + 14 \in 0 .. MaxMonth
            /\ MaxMonth \in 0 .. MaxMonth /\ m0 \in Nat
        <4> HIDE DEF m0, k, last
        <4> QED BY <1>1
      <3> HIDE DEF m0, k, last
      <3>3. monthStart[m0 + 12] + 28 <= monthStart[m0 + 12 + 1]
            /\ monthStart[m0 + 13] + 28 <= monthStart[m0 + 13 + 1]
        <4>1. m0 + 12 < m0 + 13 /\ m0 + 13 < m0 + 14
          BY <3>2
        <4> QED BY <3>2, <4>1, MonthsOrdered
      <3>4. m0 + 12 + 1 = m0 + 13 /\ m0 + 13 + 1 = m0 + 14
        BY <3>2
      <3>5. /\ monthStart[m0 + 13] \in Nat /\ monthStart[m0 + 14] \in Nat
            /\ monthStart[MaxMonth] \in Nat
        BY <3>2, MonthStarts
      <3>6. monthStart[m0 + 14] <= monthStart[MaxMonth]
        <4>1. CASE m0 + 14 = MaxMonth
          BY <3>5, <4>1
        <4>2. CASE m0 + 14 < MaxMonth
          <5>1. /\ m0 + 14 + 1 \in 0 .. MaxMonth
                /\ monthStart[m0 + 14] + 28 <= monthStart[m0 + 14 + 1]
                /\ monthStart[m0 + 14 + 1] <= monthStart[MaxMonth]
            BY <3>2, <4>2, MonthsOrdered
          <5>2. monthStart[m0 + 14 + 1] \in Nat
            BY <5>1, MonthStarts
          <5> QED BY <3>5, <5>1, <5>2
        <4> QED BY <1>1, <3>2, <4>1, <4>2
      <3>7. d < monthStart[m0 + 14]
        <4>1. monthStart[m0 + 12] + 28 <= monthStart[m0 + 13]
              /\ monthStart[m0 + 13] + 28 <= monthStart[m0 + 14]
          BY <3>3, <3>4
        <4> QED BY <1>1, <2>1, <3>5, <4>1
      <3> QED BY <1>1, <2>1, <3>1, <3>5, <3>6, <3>7
    <2>3. m \in 0 .. MaxMonth - 1 /\ monthStart[m] <= d /\ d < monthStart[m + 1]
      BY <2>2, MonthFound
    <2>4. d = monthStart[m] + k - 1
      <3>1. dayOfMonth(d) = d - monthStart[m] + 1
        BY DEF dayOfMonth
      <3>2. monthStart[m] \in Nat /\ d \in Int
        <4>1. m \in 0 .. MaxMonth
          <5> HIDE DEF m
          <5> QED BY <1>1, <2>3
        <4>2. d \in Int
          BY <2>2
        <4> QED BY <4>1, <4>2, MonthStarts
      <3> HIDE DEF m, k
      <3> QED BY <1>1, <2>1, <3>1, <3>2
    <2>5. m \in 0 .. MaxMonth /\ m + 1 \in 0 .. MaxMonth /\ m0 \in 0 .. MaxMonth /\ m0 + 12 \in 0 .. MaxMonth
          /\ m \in Nat /\ m0 \in Nat
      <3> HIDE DEF m, m0, k, last
      <3> QED BY <1>1, <2>3
    <2> HIDE DEF m, m0, k, last
    <2>6. /\ monthStart[m] \in Nat /\ monthStart[m + 1] \in Nat /\ monthStart[m0] \in Nat
          /\ monthStart[m + 1] = monthStart[m] + monthLength(m) /\ monthLength(m) \in 28 .. 31
      BY <2>3, <2>5, MonthStarts, MonthLengths
    <2>7. m0 <= m
      <3> SUFFICES ASSUME m < m0 PROVE FALSE
        BY <2>5
      <3>1. monthStart[m + 1] <= monthStart[m0]
        BY <2>5, MonthsOrdered
      <3> QED BY <1>1, <2>1, <2>3, <2>6, <3>1
    <2>8. m <= m0 + 12
      <3> SUFFICES ASSUME m0 + 12 < m PROVE FALSE
        BY <2>5
      <3>1. m0 + 12 + 1 \in 0 .. MaxMonth /\ monthStart[m0 + 12] + 28 <= monthStart[m0 + 12 + 1]
            /\ monthStart[m0 + 12 + 1] <= monthStart[m]
        BY <2>5, MonthsOrdered
      <3>2. monthStart[m0 + 12 + 1] \in Nat
        BY <3>1, MonthStarts
      <3> QED BY <1>1, <2>1, <2>4, <2>6, <3>1, <3>2
    <2>9. m \in m0 .. m0 + 12
      BY <2>5, <2>7, <2>8
    <2>10. k <= monthLength(m)
      BY <1>1, <2>3, <2>4, <2>6
    <2>11. monthStart[m] <= last
      BY <1>1, <2>1, <2>4, <2>6
    <2>12. m \in V
      BY <2>1, <2>9, <2>10, <2>11 DEF Visited, last, m0, k
    <2>13. d \in A
      <3> HIDE DEF V
      <3> QED BY <2>4, <2>12
    <2>14. d \in B
      BY <1>1, <2>1
    <2> QED BY <2>13, <2>14
  <1> HIDE DEF A, B, C
  <1>5. A \cap B = C
    BY <1>3, <1>4
  <1> QED BY <1>5 DEF A, B, C

\* monthlyCandidates: the days the rule is due on, a month that lacks the day
\* left out.
LEMMA MonthlyDays ==
    ASSUME NEW z, NEW first, Reached(z, first), NEW r, RuleTyped(r), ~ ruleInvalid(r),
           r.frequency = "MONTHLY", finalDay(r, first) \in first .. yearLater(first)
    PROVE  MidnightsOfDays(z, monthlyCandidates(z, dateAtTimezoneMidnight(z, first),
                                                dateAtTimezoneMidnight(z, finalDay(r, first)), r),
                           daysOn(r, first))
  <1> DEFINE M(x) == dateAtTimezoneMidnight(z, x)
             from == M(first)
             last == finalDay(r, first)
             m0 == monthOf[first]
             j == dayOfMonth(first)
             V == Visited(r, first)
             visited == monthsVisited(z, from, M(last), r)
             on(m) == M(monthStart[m] + dayOfMonth(date(z, from)) - 1)
             Has == {m \in elements(visited) : dayOfMonth(date(z, from)) <= lastDay(z, m)}
             k == keep(visited, Has)
             all == each(k, on)
             K == {c \in elements(all) : c >= from /\ (r.until # None => c <= M(last))}
             U == {m \in V : j <= monthLength(m)}
             h == [m \in U |-> monthStart[m] + j - 1]
             q == mapped(k, h)
             f == midnight(z)
             B == {d \in Int : d >= first /\ (r.until # None => d <= last)}
             A == {h[m] : m \in U}
  <1>1. z \in Zones /\ HasMidnights(z) /\ first \in Int
    BY NearDates DEF Reached
  <1>2. /\ m0 \in Nat /\ j \in 1 .. 31 /\ yearLater(first) \in first .. first + 366
    BY YearAhead
  <1>3. first \in Dates /\ last \in Dates /\ last \in Int
    <2>1. first \in first - 31 .. first + 400 /\ last \in first - 31 .. first + 400
      <3> HIDE DEF j
      <3> QED BY <1>1, <1>2
    <2> HIDE DEF last
    <2> QED BY <2>1, NearDates
  <1>4. date(z, from) = first /\ from \in Int /\ M(last) \in Int
    <2> HIDE DEF last
    <2> QED BY <1>1, <1>3, MidnightShows
  <1>5. Lists(visited, V)
    BY MonthsListed
  <1>6. V \in SUBSET (m0 .. m0 + 12) /\ V \in SUBSET Int
    BY <1>2 DEF Visited
  <1>7. monthlyCandidates(z, from, M(last), r) = keep(all, K)
    BY DEF monthlyCandidates
  <1> HIDE DEF from, last, m0, V, visited, j
  <1>8. elements(visited) = V
    BY <1>5, ListsSeq
  <1>9. Has = U
    <2>1. \A m \in V : lastDay(z, m) = monthLength(m)
      BY <1>6, LastDays DEF m0
    <2> QED BY <1>4, <1>8, <2>1 DEF j
  <1>10. U \in SUBSET Int /\ V \cap U = U
    BY <1>6
  <1>11. Lists(k, U)
    <2>1. Lists(keep(visited, U), V \cap U)
      <3> HIDE DEF U
      <3> QED BY <1>5, <1>6, KeepLists
    <2> HIDE DEF Has, U
    <2> QED BY <1>9, <1>10, <2>1
  <1> HIDE DEF k, Has
  <1>12. DOMAIN k = 1 .. Len(k) /\ Len(k) \in Nat /\ \A i \in 1 .. Len(k) : k[i] \in U
    <2> HIDE DEF U
    <2> QED BY <1>11, ListsSeq
  <1>13. ASSUME NEW m \in U
         PROVE  /\ m \in m0 .. m0 + 12 /\ h[m] = monthStart[m] + j - 1
                /\ h[m] \in Int /\ h[m] \in Dates /\ f[h[m]] = M(h[m])
                /\ on(m) = M(h[m])
    <2>1. m \in m0 .. m0 + 12 /\ j <= monthLength(m)
      BY <1>6
    <2>2. h[m] = monthStart[m] + j - 1
      OBVIOUS
    <2>3. monthLength(m) \in 28 .. 31
      BY <2>1, SeriesMonths DEF m0
    <2>4. j \in 1 .. monthLength(m)
      BY <1>2, <2>1, <2>3
    <2>5. monthStart[m] + j - 1 \in Int /\ monthStart[m] + j - 1 \in Dates
      BY <2>1, <2>4, DayInMonth DEF m0
    <2>6. on(m) = M(monthStart[m] + j - 1)
      BY <1>4 DEF j
    <2> HIDE DEF h, M
    <2> QED BY <2>1, <2>2, <2>5, <2>6 DEF midnight, M
  <1>14. Lists(q, A) /\ A \in SUBSET Int
    <2>1. \A m, n \in U : m < n => h[m] < h[n]
      <3> SUFFICES ASSUME NEW m \in U, NEW n \in U, m < n PROVE h[m] < h[n]
        OBVIOUS
      <3>1. m \in m0 .. m0 + 12 /\ n \in m0 .. m0 + 12
        BY <1>13
      <3>2. m \in 0 .. MaxMonth /\ n \in 0 .. MaxMonth /\ monthStart[m] \in Nat /\ monthStart[n] \in Nat
            /\ m + 1 \in 0 .. MaxMonth
        BY <3>1, SeriesMonths DEF m0
      <3>3. monthStart[m] + 28 <= monthStart[m + 1] /\ monthStart[m + 1] <= monthStart[n]
        BY <3>2, MonthsOrdered
      <3>4. monthStart[m + 1] \in Nat
        BY <3>2, MonthStarts
      <3>5. h[m] = monthStart[m] + j - 1 /\ h[n] = monthStart[n] + j - 1
        BY <1>13
      <3> HIDE DEF U, h
      <3> QED BY <1>2, <3>2, <3>3, <3>4, <3>5
    <2>2. A \in SUBSET Int
      <3> HIDE DEF h, U
      <3> QED BY <1>13
    <2> HIDE DEF h, U
    <2>3. Lists(mapped(k, h), {h[m] : m \in U})
      BY <1>10, <1>11, <2>1, MappedLists
    <2> QED BY <2>2, <2>3
  <1>15. /\ Len(q) = Len(k) /\ q \in Seq(A)
         /\ \A i \in 1 .. Len(k) : q[i] = h[k[i]]
    <2>1. q \in Seq(A)
      <3> HIDE DEF q, A
      <3> QED BY <1>14, ListsSeq
    <2>2. Len(q) = Len(k) /\ \A i \in 1 .. Len(k) : q[i] = h[k[i]]
      <3> HIDE DEF h
      <3> QED BY <1>12 DEF mapped
    <2> QED BY <2>1, <2>2
  <1>16. all = mapped(q, f)
    <2>1. all = [i \in 1 .. Len(k) |-> on(k[i])]
      BY <1>12 DEF each
    <2>2. mapped(q, f) = [i \in 1 .. Len(k) |-> f[q[i]]]
      <3> HIDE DEF q, f
      <3> QED BY <1>15 DEF mapped
    <2>3. ASSUME NEW i \in 1 .. Len(k) PROVE on(k[i]) = f[q[i]]
      <3>1. k[i] \in U
        BY <1>12
      <3>2. on(k[i]) = M(h[k[i]]) /\ f[h[k[i]]] = M(h[k[i]])
        <4> HIDE DEF on, M, h, U, f
        <4> QED BY <1>13, <3>1
      <3>3. q[i] = h[k[i]]
        BY <1>15
      <3> HIDE DEF on, M, h, U, f, q
      <3> QED BY <3>2, <3>3
    <2> HIDE DEF all, q, f, on
    <2> QED BY <2>1, <2>2, <2>3
  <1>17. Takes(q, f, B, K)
    <2> SUFFICES ASSUME NEW i \in 1 .. Len(q) PROVE f[q[i]] \in K <=> q[i] \in B
      BY DEF Takes
    <2> DEFINE d == q[i]
    <2>1. PICK m \in U : d = h[m]
      <3>1. i \in 1 .. Len(k) /\ q[i] = h[k[i]] /\ k[i] \in U
        <4> HIDE DEF q, h, U
        <4> QED BY <1>12, <1>15
      <3> HIDE DEF q, h, U
      <3> QED BY <3>1
    <2>2. d \in Int /\ d \in Dates /\ f[d] = M(d)
      <3> HIDE DEF d, h, U, f, M
      <3> QED BY <1>13, <2>1
    <2>3. M(first) <= M(d) <=> first <= d
      <3> HIDE DEF d
      <3> QED BY <1>1, <1>3, <2>2, MidnightOrder
    <2>4. M(d) <= M(last) <=> d <= last
      <3> HIDE DEF d
      <3> QED BY <1>1, <1>3, <2>2, MidnightOrder
    <2>5. M(d) \in Int
      <3> HIDE DEF d
      <3> QED BY <1>1, <2>2, MidnightShows
    <2>6. f[d] \in elements(all)
      <3>1. DOMAIN all = 1 .. Len(q) /\ all[i] = f[d]
        <4> HIDE DEF all, q, f
        <4> QED BY <1>16 DEF mapped, d
      <3> HIDE DEF all, f, d
      <3> QED BY <3>1 DEF elements
    <2>7. f[d] \in K <=> M(d) >= from /\ (r.until # None => M(d) <= M(last))
      <3> HIDE DEF d, f, M, all
      <3> QED BY <2>2, <2>6
    <2>8. M(d) >= from <=> d >= first
      <3> HIDE DEF d, M
      <3> QED BY <1>1, <1>4, <2>2, <2>3, <2>5 DEF from
    <2>9. d \in B <=> d >= first /\ (r.until # None => d <= last)
      <3> HIDE DEF d
      <3> QED BY <2>2
    <2> HIDE DEF d, K, B, f, M
    <2>10. f[d] \in K <=> d \in B
      BY <2>4, <2>7, <2>8, <2>9
    <2> QED BY <2>10 DEF d
  <1>18. keep(all, K) = mapped(keep(q, B), f)
    <2> HIDE DEF all, K, q, B, f, A
    <2>1. keep(mapped(q, f), K) = mapped(keep(q, B), f)
      BY <1>15, <1>17, KeepMapped
    <2> QED BY <1>16, <2>1
  <1>19. Lists(keep(q, B), A \cap B)
    <2> HIDE DEF q, A, B
    <2> QED BY <1>14, KeepLists
  <1>20. A \cap B = daysOn(r, first)
    <2>1. A = {monthStart[m] + j - 1 : m \in U}
      <3>1. \A m \in U : h[m] = monthStart[m] + j - 1
        BY <1>13
      <3> HIDE DEF h, U
      <3> QED BY <3>1
    <2>2. {monthStart[m] + j - 1 : m \in U} \cap B = daysOn(r, first)
      BY MonthlySet DEF j, V, last
    <2> QED BY <2>1, <2>2
  <1> HIDE DEF all, K, q, B, f, A, M
  <1>21. MidnightsOfDays(z, monthlyCandidates(z, from, M(last), r), daysOn(r, first))
    BY <1>7, <1>18, <1>19, <1>20 DEF MidnightsOfDays, f
  <1> QED BY <1>21 DEF M, from, last

\* skippedMonths: the last days of the months visited that lack the day.
LEMMA SkippedDays ==
    ASSUME NEW z, NEW first, Reached(z, first), NEW r, RuleTyped(r), ~ ruleInvalid(r),
           r.frequency = "MONTHLY", finalDay(r, first) \in first .. yearLater(first)
    PROVE  LET missing == skippedMonths(z, dateAtTimezoneMidnight(z, first),
                                        dateAtTimezoneMidnight(z, finalDay(r, first)), r)
           IN  Lists(missing, {monthStart[m + 1] - 1 :
                                  m \in {x \in Visited(r, first) : monthLength(x) < dayOfMonth(first)}})
  <1> DEFINE M(x) == dateAtTimezoneMidnight(z, x)
             from == M(first)
             last == finalDay(r, first)
             m0 == monthOf[first]
             j == dayOfMonth(first)
             V == Visited(r, first)
             visited == monthsVisited(z, from, M(last), r)
             final(m) == date(z, M(monthStart[m] + lastDay(z, m) - 1))
             Lacks == {m \in elements(visited) : dayOfMonth(date(z, from)) > lastDay(z, m)}
             k == keep(visited, Lacks)
             missing == skippedMonths(z, from, M(last), r)
             U == {m \in V : monthLength(m) < j}
             h == [m \in U |-> monthStart[m + 1] - 1]
  <1>1. z \in Zones /\ HasMidnights(z) /\ first \in Int
    BY NearDates DEF Reached
  <1>2. m0 \in Nat /\ j \in 1 .. 31
    BY YearAhead
  <1>3. first \in Dates
    <2>1. first \in first - 31 .. first + 400
      BY <1>1
    <2> QED BY <2>1, NearDates
  <1>4. date(z, from) = first
    BY <1>1, <1>3, MidnightShows
  <1>5. Lists(visited, V)
    BY MonthsListed
  <1>6. V \in SUBSET (m0 .. m0 + 12) /\ V \in SUBSET Int
    BY <1>2 DEF Visited
  <1>7. missing = each(k, final)
    BY DEF skippedMonths
  <1> HIDE DEF from, last, m0, V, visited, j, missing
  <1>8. elements(visited) = V
    BY <1>5, ListsSeq
  <1>9. \A m \in V : lastDay(z, m) = monthLength(m)
    BY <1>6, LastDays DEF m0
  <1>10. \A m \in V : monthLength(m) \in 28 .. 31
    BY <1>6, SeriesMonths DEF m0
  <1>11. Lacks = U
    <2>1. \A m \in V : j > lastDay(z, m) <=> monthLength(m) < j
      BY <1>2, <1>9, <1>10
    <2>2. Lacks = {m \in V : j > lastDay(z, m)}
      BY <1>4, <1>8 DEF j
    <2> HIDE DEF Lacks
    <2> QED BY <2>1, <2>2
  <1>12. U \in SUBSET Int /\ V \cap U = U
    BY <1>6
  <1>13. Lists(k, U)
    <2>1. Lists(keep(visited, U), V \cap U)
      <3> HIDE DEF U
      <3> QED BY <1>5, <1>6, KeepLists
    <2> HIDE DEF Lacks, U
    <2> QED BY <1>11, <1>12, <2>1
  <1> HIDE DEF k, Lacks
  <1>14. DOMAIN k = 1 .. Len(k) /\ Len(k) \in Nat /\ \A i \in 1 .. Len(k) : k[i] \in U
    <2> HIDE DEF U
    <2> QED BY <1>13, ListsSeq
  <1>15. ASSUME NEW m \in U
         PROVE  /\ m \in m0 .. m0 + 12 /\ h[m] = monthStart[m + 1] - 1 /\ final(m) = h[m]
    <2> DEFINE l == monthLength(m)
    <2>1. m \in V /\ m \in m0 .. m0 + 12 /\ lastDay(z, m) = l /\ l \in 28 .. 31
      BY <1>6, <1>9, <1>10
    <2>2. h[m] = monthStart[m + 1] - 1
      OBVIOUS
    <2>3. monthStart[m + 1] = monthStart[m] + l /\ monthStart[m] \in Nat
      BY <2>1, SeriesMonths DEF m0
    <2>4. l \in 1 .. monthLength(m)
      BY <2>1
    <2>5. monthStart[m] + l - 1 \in Dates
      <3> HIDE DEF l
      <3> QED BY <2>1, <2>4, DayInMonth DEF m0
    <2>6. monthStart[m] + l - 1 = monthStart[m + 1] - 1
      <3> HIDE DEF l
      <3> QED BY <2>1, <2>3
    <2>7. date(z, M(monthStart[m] + l - 1)) = monthStart[m] + l - 1
      <3> HIDE DEF l
      <3> QED BY <1>1, <2>5, MidnightShows
    <2> HIDE DEF l, h, U, M
    <2>8. final(m) = h[m]
      BY <2>1, <2>2, <2>6, <2>7
    <2> QED BY <2>1, <2>2, <2>8
  <1>16. missing = mapped(k, h)
    <2>1. missing = [i \in 1 .. Len(k) |-> final(k[i])]
      BY <1>7, <1>14 DEF each
    <2>2. \A i \in 1 .. Len(k) : final(k[i]) = h[k[i]]
      <3> HIDE DEF final, h, U
      <3> QED BY <1>14, <1>15
    <2> HIDE DEF final, h, U
    <2> QED BY <2>1, <2>2 DEF mapped
  <1>17. Lists(mapped(k, h), {h[m] : m \in U})
    <2>1. \A m, n \in U : m < n => h[m] < h[n]
      <3> SUFFICES ASSUME NEW m \in U, NEW n \in U, m < n PROVE h[m] < h[n]
        OBVIOUS
      <3>1. m \in m0 .. m0 + 12 /\ n \in m0 .. m0 + 12
        BY <1>15
      <3>2. m \in 0 .. MaxMonth /\ n \in 0 .. MaxMonth /\ n + 1 \in 0 .. MaxMonth
            /\ m + 1 \in 0 .. MaxMonth
        BY <3>1, SeriesMonths DEF m0
      <3>3. monthStart[m + 1] <= monthStart[n]
        BY <3>2, MonthsOrdered
      <3>4. n < n + 1
        BY <3>2
      <3>5. monthStart[n] + 28 <= monthStart[n + 1]
        BY <3>2, <3>4, MonthsOrdered
      <3>6. monthStart[m + 1] \in Nat /\ monthStart[n] \in Nat /\ monthStart[n + 1] \in Nat
        BY <3>2, MonthStarts
      <3>7. h[m] = monthStart[m + 1] - 1 /\ h[n] = monthStart[n + 1] - 1
        BY <1>15
      <3> HIDE DEF U, h
      <3> QED BY <3>3, <3>5, <3>6, <3>7
    <2> HIDE DEF h, U
    <2> QED BY <1>12, <1>13, <2>1, MappedLists
  <1>18. {h[m] : m \in U} = {monthStart[m + 1] - 1 : m \in U}
    <2>1. \A m \in U : h[m] = monthStart[m + 1] - 1
      BY <1>15
    <2> HIDE DEF h, U
    <2> QED BY <2>1
  <1> HIDE DEF U, h
  <1>19. Lists(missing, {monthStart[m + 1] - 1 : m \in U})
    BY <1>16, <1>17, <1>18
  <1> QED BY <1>19 DEF U, V, j, missing, from, M, last

\* generateOccurrences: the candidates of a series are the midnights of the days
\* the rule is due on, without the excluded ones, up to the count.
LEMMA SeriesDays ==
    ASSUME NEW z, NEW first, Reached(z, first), NEW r, RuleTyped(r), ~ ruleInvalid(r),
           NEW start, date(z, start) = first, finalDay(r, first) \in first .. yearLater(first)
    PROVE  MidnightsOfDays(z, seriesCandidates(z, dateAtTimezoneMidnight(z, first),
                                               dateAtTimezoneMidnight(z, finalDay(r, first)), r,
                                               weekdaySet(z, start, r)),
                           among({d \in daysOn(r, first) : d \notin elements(r.exdates)}, r.count))
  <1> DEFINE from == dateAtTimezoneMidnight(z, first)
             last == dateAtTimezoneMidnight(z, finalDay(r, first))
             W == weekdaySet(z, start, r)
             all == IF r.frequency = "MONTHLY" THEN monthlyCandidates(z, from, last, r)
                    ELSE dailyCandidates(z, from, last, r, W)
             X == elements(r.exdates)
             K == {c \in elements(all) : date(z, c) \notin X}
             D == daysOn(r, first)
             k == {d \in D : d \notin X}
             f == midnight(z)
             n == r.count
  <1>1. MidnightsOfDays(z, all, D)
    BY MonthlyDays, DailyDays
  <1>2. seriesCandidates(z, from, last, r, W) = upTo(keep(all, K), n)
    BY DEF seriesCandidates
  <1>3. z \in Zones /\ HasMidnights(z) /\ first \in Int
    BY NearDates DEF Reached
  <1>4. n \in Nat \cup {None}
    <2>1. r.count = None \/ r.count \in 1 .. 100
      BY DEF ruleInvalid
    <2> QED BY <2>1
  <1>5. D \in SUBSET Int /\ D \subseteq Dates
    <2>1. D \subseteq first .. finalDay(r, first)
      BY DEF daysOn
    <2>2. yearLater(first) \in first .. first + 366
      BY YearAhead
    <2>3. \A d \in first .. finalDay(r, first) : d \in first - 31 .. first + 400 /\ d \in Int
      BY <1>3, <2>2
    <2> HIDE DEF D
    <2> QED BY <2>1, <2>3, NearDates
  <1>6. k \in SUBSET Int /\ D \cap k = k
    BY <1>5
  <1> HIDE DEF from, last, W, all, X, D, n
  <1>7. PICK s : Lists(s, D) /\ all = mapped(s, f)
    BY <1>1 DEF MidnightsOfDays
  <1>8. s \in Seq(D) /\ Len(s) \in Nat /\ \A i \in 1 .. Len(s) : s[i] \in D
    BY <1>7, ListsSeq
  <1>9. Takes(s, f, k, K)
    <2> SUFFICES ASSUME NEW i \in 1 .. Len(s) PROVE f[s[i]] \in K <=> s[i] \in k
      BY DEF Takes
    <2> DEFINE d == s[i]
    <2>1. d \in D /\ d \in Dates
      BY <1>5, <1>8
    <2>2. f[d] = dateAtTimezoneMidnight(z, d)
      <3> HIDE DEF d
      <3> QED BY <2>1 DEF midnight
    <2>3. date(z, f[d]) = d
      <3> HIDE DEF d, f
      <3> QED BY <1>3, <2>1, <2>2, MidnightShows
    <2>4. f[d] \in elements(all)
      <3>1. DOMAIN all = 1 .. Len(s) /\ all[i] = f[d]
        <4> HIDE DEF f
        <4> QED BY <1>7 DEF mapped
      <3> HIDE DEF d, f
      <3> QED BY <3>1 DEF elements
    <2> HIDE DEF d, f
    <2>5. f[d] \in K <=> d \in k
      BY <2>1, <2>3, <2>4
    <2> QED BY <2>5 DEF d
  <1>10. keep(all, K) = mapped(keep(s, k), f)
    <2> HIDE DEF K, k, f
    <2>1. keep(mapped(s, f), K) = mapped(keep(s, k), f)
      BY <1>8, <1>9, KeepMapped
    <2> QED BY <1>7, <2>1
  <1>11. Lists(keep(s, k), k)
    <2> HIDE DEF k
    <2>1. Lists(keep(s, k), D \cap k)
      BY <1>5, <1>7, KeepLists
    <2> QED BY <1>6, <2>1
  <1> HIDE DEF K, k, f
  <1>12. keep(s, k) \in Seq(k)
    BY <1>11, ListsSeq
  <1>13. upTo(keep(all, K), n) = mapped(upTo(keep(s, k), n), f)
    BY <1>4, <1>10, <1>12, PrefixMapped
  <1>14. Lists(upTo(keep(s, k), n), among(k, n))
    BY <1>4, <1>6, <1>11, PrefixLists
  <1>15. MidnightsOfDays(z, seriesCandidates(z, from, last, r, W), among(k, n))
    BY <1>2, <1>13, <1>14 DEF MidnightsOfDays, f
  <1> QED BY <1>15 DEF from, last, W, k, D, X, n

-----------------------------------------------------------------------------
(* The occurrences of a series.                                             *)

\* What an answer R of resolveRecurringLocal says of the instants I that show the
\* wall time: the fold is needed only where there are two.
SettlesAgain(R, I, fold) ==
    \/ R.error = "none" /\ R.at \in I
    \/ R.error = "nonexistent" /\ I = {}
    \/ R.error = "ambiguous" /\ fold = "" /\ ~ single(I)

\* resolveRecurringLocal says this.
LEMMA RecurringSettles ==
    ASSUME NEW z \in Zones, NEW wall \in Walls, NEW fold \in Folds
    PROVE  SettlesAgain(resolveRecurringLocal(z, wall, fold), instants(z, wall), fold)
  <1> DEFINE R == resolveRecurringLocal(z, wall, fold)
             P == resolveLocalDateTime(z, wall, "")
             F == resolveLocalDateTime(z, wall, fold)
             I == instants(z, wall)
  <1>1. P = IF I = {} THEN Failed("nonexistent")
            ELSE IF ~ single(I) THEN Failed("ambiguous") ELSE Resolved(earliest(I))
    BY ProbesSuffice DEF resolveLocalDateTime, chosen
  <1>2. I # {} /\ ~ single(I) => F = chosen(I, fold)
    BY ProbesSuffice DEF resolveLocalDateTime
  <1>3. R = IF P.error = "ambiguous" THEN F ELSE P
    BY DEF resolveRecurringLocal
  <1>4. \A e : Failed(e).error = e
    BY DEF Failed
  <1>5. \A at : Resolved(at).error = "none" /\ Resolved(at).at = at
    BY DEF Resolved
  <1>6. I # {} => earliest(I) \in I /\ latest(I) \in I
    BY InstantsExtremes
  <1> HIDE DEF R, P, F, I
  <1>7. CASE I = {}
    <2>1. P = Failed("nonexistent")
      BY <1>1, <1>7
    <2>2. R.error = "nonexistent"
      BY <1>3, <1>4, <2>1
    <2> QED BY <1>7, <2>2 DEF SettlesAgain, R, I
  <1>8. CASE I # {} /\ single(I)
    <2>1. P = Resolved(earliest(I))
      BY <1>1, <1>8
    <2>2. R.error = "none" /\ R.at \in I
      BY <1>3, <1>5, <1>6, <1>8, <2>1
    <2> QED BY <2>2 DEF SettlesAgain, R, I
  <1>9. CASE I # {} /\ ~ single(I)
    <2>1. P = Failed("ambiguous")
      BY <1>1, <1>9
    <2>2. R = chosen(I, fold)
      BY <1>2, <1>3, <1>4, <1>9, <2>1
    <2>3. CASE fold = ""
      <3>1. R.error = "ambiguous"
        BY <1>4, <2>2, <2>3 DEF chosen
      <3> QED BY <1>9, <2>3, <3>1 DEF SettlesAgain, R, I
    <2>4. CASE fold # ""
      <3>1. R = Resolved(earliest(I)) \/ R = Resolved(latest(I))
        BY <2>2, <2>4 DEF chosen, Folds
      <3>2. R.error = "none" /\ R.at \in I
        BY <1>5, <1>6, <1>9, <3>1
      <3> QED BY <3>2 DEF SettlesAgain, R, I
    <2> QED BY <2>3, <2>4
  <1> QED BY <1>7, <1>8, <1>9

\* The occurrence o of a series with the times t has an error only for a reason
\* in I and J, the instants that show the wall times of its start and of its end.
FailsFor(o, t, I, J, startFold, endFold) ==
    /\ o.error \in {"none", "nonexistent", "ambiguous", "invalid"}
    /\ o.error = "nonexistent" => I = {} \/ (t.end # None /\ J = {})
    /\ o.error = "ambiguous" => \/ startFold = "" /\ ~ single(I)
                                \/ t.end # None /\ endFold = "" /\ ~ single(J)
    /\ o.error = "invalid" => t.end # None /\ \E u \in I, v \in J : v <= u

\* timedOccurrence fails for no other reason.
LEMMA OccurrenceFails ==
    ASSUME NEW z \in Zones, NEW candidate, NEW t,
           NEW startFold \in Folds, NEW endFold \in Folds,
           NEW wall \in Walls, wall = date(z, candidate) * Day + clock(z, t.start),
           NEW endWall, endWall = local(z, candidate) + clock(z, t.start)
                                      + local(z, t.end) - local(z, t.start),
           t.end # None => endWall \in Walls
    PROVE  FailsFor(timedOccurrence(z, t, candidate, startFold, endFold), t,
                    instants(z, wall), instants(z, endWall), startFold, endFold)
  <1> DEFINE S == resolveRecurringLocal(z, wall, startFold)
             E == resolveRecurringLocal(z, endWall, endFold)
             o == timedOccurrence(z, t, candidate, startFold, endFold)
             I == instants(z, wall)
             J == instants(z, endWall)
  <1>1. SettlesAgain(S, I, startFold)
    BY RecurringSettles
  <1>2. t.end # None => SettlesAgain(E, J, endFold)
    BY RecurringSettles
  <1>3. \A e : NoOccurrence(e).error = e
    BY DEF NoOccurrence
  <1>4. \A a, b, c, d, e : Occurrence(a, b, c, d, e).error = "none"
    BY DEF Occurrence
  <1>5. \/ S.error # "none" /\ o = NoOccurrence(S.error)
        \/ o.error = "none"
        \/ t.end # None /\ E.error # "none" /\ o = NoOccurrence(E.error)
        \/ /\ t.end # None /\ S.error = "none" /\ E.error = "none" /\ E.at <= S.at
           /\ o = NoOccurrence("invalid")
    BY <1>4 DEF timedOccurrence
  <1> HIDE DEF S, E, o, I, J
  <1> DEFINE goal == FailsFor(o, t, I, J, startFold, endFold)
  <1>6. CASE S.error # "none" /\ o = NoOccurrence(S.error)
    <2>1. o.error = S.error
      BY <1>3, <1>6
    <2>2. \/ o.error = "nonexistent" /\ I = {}
          \/ o.error = "ambiguous" /\ startFold = "" /\ ~ single(I)
      BY <1>1, <1>6, <2>1 DEF SettlesAgain
    <2>3. goal
      BY <2>2 DEF FailsFor
    <2> QED BY <2>3 DEF o, I, J
  <1>7. CASE o.error = "none"
    <2>1. goal
      BY <1>7 DEF FailsFor
    <2> QED BY <2>1 DEF o, I, J
  <1>8. CASE t.end # None /\ E.error # "none" /\ o = NoOccurrence(E.error)
    <2>1. o.error = E.error
      BY <1>3, <1>8
    <2>2. \/ o.error = "nonexistent" /\ J = {}
          \/ o.error = "ambiguous" /\ endFold = "" /\ ~ single(J)
      BY <1>2, <1>8, <2>1 DEF SettlesAgain
    <2>3. goal
      BY <1>8, <2>2 DEF FailsFor
    <2> QED BY <2>3 DEF o, I, J
  <1>9. CASE /\ t.end # None /\ S.error = "none" /\ E.error = "none" /\ E.at <= S.at
             /\ o = NoOccurrence("invalid")
    <2>1. S.at \in I /\ E.at \in J
      BY <1>1, <1>2, <1>9 DEF SettlesAgain
    <2>2. o.error = "invalid"
      BY <1>3, <1>9
    <2>3. goal
      BY <1>9, <2>1, <2>2 DEF FailsFor
    <2> QED BY <2>3 DEF o, I, J
  <1> QED BY <1>5, <1>6, <1>7, <1>8, <1>9

\* timedOccurrence: the occurrence of a timed series that falls on the day of
\* candidate is on that day and shows the clock of the first one, whatever the
\* offset does in between; if the day has a midnight, which is the candidate, it
\* lasts as long on the wall.
THEOREM OccurrenceKeepsClock ==
    ASSUME NEW z \in Zones, NEW candidate \in From .. To,
           NEW t, t.start \in From .. To, t.end = None \/ t.end \in From .. To,
           NEW startFold \in Folds, NEW endFold \in Folds,
           date(z, candidate) * Day + clock(z, t.start) \in Walls,
           t.end # None => local(z, candidate) + clock(z, t.start)
                               + local(z, t.end) - local(z, t.start) \in Walls,
           timedOccurrence(z, t, candidate, startFold, endFold).error = "none"
    PROVE  LET o == timedOccurrence(z, t, candidate, startFold, endFold)
           IN  /\ o.startDate = None
               /\ date(z, o.start) = date(z, candidate)
               /\ clock(z, o.start) = clock(z, t.start)
               /\ o.localStart = local(z, candidate) + clock(z, t.start)
               /\ t.end # None => o.end > o.start
               /\ clock(z, candidate) = 0 =>
                      /\ local(z, o.start) = o.localStart
                      /\ t.end # None => local(z, o.end) - local(z, o.start)
                                             = local(z, t.end) - local(z, t.start)
  <1> DEFINE wall == date(z, candidate) * Day + clock(z, t.start)
             shown == local(z, candidate) + clock(z, t.start)
             endWall == shown + local(z, t.end) - local(z, t.start)
             S == resolveRecurringLocal(z, wall, startFold)
             E == resolveRecurringLocal(z, endWall, endFold)
             o == timedOccurrence(z, t, candidate, startFold, endFold)
  <1>1. Hour \in Nat \ {0} /\ Day \in Nat \ {0}
    BY ZonesAssumption DEF Day
  <1>2. ASSUME NEW u \in From .. To PROVE u \in Int /\ local(z, u) \in Int
    BY ClocksShow
  <1>3. date(z, candidate) \in Int /\ clock(z, t.start) \in 0 .. Day - 1
    <2>1. local(z, candidate) \in Int /\ local(z, t.start) \in Int
      BY <1>2
    <2> QED BY <1>1, <2>1 DEF date, clock
  <1>4. wall \div Day = date(z, candidate) /\ wall % Day = clock(z, t.start) /\ wall \in Int
    <2> DEFINE d == date(z, candidate)
               c == clock(z, t.start)
               D == Day
    <2>1. D \in Nat \ {0} /\ d \in Int /\ c \in 0 .. D - 1
      BY <1>1, <1>3
    <2> HIDE DEF d, c, D
    <2>2. (d * D + c) \div D = d /\ (d * D + c) % D = c
      BY <2>1, WallParts
    <2>3. d * D + c \in Int
      BY <2>1
    <2> QED BY <2>2, <2>3 DEF d, c, D
  <1>5. wall \in Walls /\ (t.end # None => endWall \in Walls)
    OBVIOUS
  <1>6. \A e : NoOccurrence(e).error = e
    BY DEF NoOccurrence
  <1>7. \/ S.error # "none" /\ o = NoOccurrence(S.error)
        \/ S.error = "none" /\ t.end = None /\ o = Occurrence(S.at, None, None, None, shown)
        \/ E.error # "none" /\ o = NoOccurrence(E.error)
        \/ o = NoOccurrence("invalid")
        \/ /\ S.error = "none" /\ E.error = "none" /\ ~ (E.at <= S.at)
           /\ o = Occurrence(S.at, E.at, None, None, shown)
    BY DEF timedOccurrence
  <1>8. o.error = "none"
    OBVIOUS
  <1>9. clock(z, candidate) = 0 => shown = wall
    <2> DEFINE l == local(z, candidate)
               D == Day
    <2>1. D \in Nat \ {0} /\ l \in Int
      BY <1>1, <1>2
    <2> HIDE DEF l, D
    <2>2. l % D = 0 => l = (l \div D) * D
      BY <2>1
    <2> QED BY <2>2 DEF l, D, clock, date
  <1> HIDE DEF wall, shown, endWall, S, E, o
  <1>10. /\ S.error = "none" /\ o.start = S.at /\ o.localStart = shown /\ o.startDate = None
         /\ t.end # None => E.error = "none" /\ o.end = E.at /\ ~ (E.at <= S.at)
    BY <1>6, <1>7, <1>8 DEF Occurrence
  <1>11. S.at \in From .. To /\ local(z, S.at) = wall
    BY <1>5, <1>10, RecurringShows DEF S
  <1>12. t.end # None => E.at \in From .. To /\ local(z, E.at) = endWall
    BY <1>5, <1>10, RecurringShows DEF E
  <1>13. date(z, o.start) = date(z, candidate) /\ clock(z, o.start) = clock(z, t.start)
    BY <1>4, <1>10, <1>11 DEF date, clock
  <1>14. t.end # None => o.end > o.start
    BY <1>2, <1>10, <1>11, <1>12
  <1>15. ASSUME clock(z, candidate) = 0, t.end # None
         PROVE  local(z, o.end) - local(z, o.start) = local(z, t.end) - local(z, t.start)
    <2>1. local(z, t.end) \in Int /\ local(z, t.start) \in Int
      BY <1>2, <1>15
    <2>2. local(z, o.end) = wall + local(z, t.end) - local(z, t.start) /\ local(z, o.start) = wall
      BY <1>9, <1>10, <1>11, <1>12, <1>15 DEF endWall
    <2> QED BY <1>4, <2>1, <2>2
  <1>16. clock(z, candidate) = 0 => local(z, o.start) = o.localStart
    BY <1>9, <1>10, <1>11
  <1>17. o.localStart = local(z, candidate) + clock(z, t.start)
    BY <1>10 DEF shown
  <1> QED BY <1>10, <1>13, <1>14, <1>15, <1>16, <1>17 DEF o

-----------------------------------------------------------------------------
(* The answer to a preview, as a state.                                     *)

\* The occurrences made of the candidates.
occurrencesOf(in, t, c) ==
    [i \in DOMAIN c |-> IF in.allDay THEN allDayOccurrence(in.zone, t, c[i])
                        ELSE timedOccurrence(in.zone, t, c[i], in.startFold, in.endFold)]

\* While the answer to a preview stands, the variables are as generateOccurrences
\* left them.
Previewed ==
    request # None /\ request.op = "preview" =>
        LET in == request.in
            z  == in.zone
            r  == in.recurrence
        IN  /\ in \in Requests /\ r # None
            /\ times = resolveRecurrenceAnchorTimes(in)
            /\ anchor = IF \/ times.error # "none" \/ ruleInvalid(r)
                           \/ timesInvalid(z, times, in.allDay)
                        THEN None
                        ELSE anchorDate(z, times, in.allDay)
            /\ days = IF anchor = None \/ untilInvalid(z, anchor, r) THEN <<>>
                      ELSE seriesCandidates(z, anchor, limit(z, anchor, r), r,
                                            weekdaySet(z, times.start, r))
            /\ answer = IF times.error # "none" THEN NoSeries(times.error)
                        ELSE IF anchor = None \/ untilInvalid(z, anchor, r)
                        THEN NoSeries("invalid")
                        ELSE series(occurrencesOf(in, times, days),
                                    skippedMonths(z, anchor, limit(z, anchor, r), r))

\* PreviewRecurrence establishes it and no step breaks it.
LEMMA PreviewsStand == Spec => []Previewed
  <1>1. Init => Previewed
    BY DEF Init, Previewed
  <1>2. Previewed /\ [Next]_vars => Previewed'
    <2> SUFFICES ASSUME Previewed, [Next]_vars PROVE Previewed'
      OBVIOUS
    <2>1. ASSUME NEW in \in Requests, CreateSchedule(in) PROVE Previewed'
      <3>1. request'.op = "create"
        BY <2>1 DEF CreateSchedule, Asked
      <3> QED BY <3>1 DEF Previewed
    <2>2. ASSUME NEW in \in Requests, PreviewRecurrence(in) PROVE Previewed'
      <3>1. request'.in = in
        BY <2>2 DEF PreviewRecurrence, Asked
      <3>2. in.recurrence # None /\ times' = resolveRecurrenceAnchorTimes(in)
        BY <2>2 DEF PreviewRecurrence
      <3>3. anchor' = IF \/ times'.error # "none" \/ ruleInvalid(in.recurrence)
                         \/ timesInvalid(in.zone, times', in.allDay)
                      THEN None ELSE anchorDate(in.zone, times', in.allDay)
        BY <2>2 DEF PreviewRecurrence
      <3>4. days' = IF anchor' = None \/ untilInvalid(in.zone, anchor', in.recurrence) THEN <<>>
                    ELSE seriesCandidates(in.zone, anchor', limit(in.zone, anchor', in.recurrence),
                                          in.recurrence,
                                          weekdaySet(in.zone, times'.start, in.recurrence))
        BY <2>2 DEF PreviewRecurrence
      <3>5. answer' = IF times'.error # "none" THEN NoSeries(times'.error)
                      ELSE IF anchor' = None \/ untilInvalid(in.zone, anchor', in.recurrence)
                      THEN NoSeries("invalid")
                      ELSE series(occurrencesOf(in, times', days'),
                                  skippedMonths(in.zone, anchor',
                                                limit(in.zone, anchor', in.recurrence),
                                                in.recurrence))
        BY <2>2 DEF PreviewRecurrence, occurrencesOf
      <3> QED BY <3>1, <3>2, <3>3, <3>4, <3>5 DEF Previewed
    <2>3. ASSUME NEW move \in Moves, UpdateFollowing(move) PROVE Previewed'
      <3>1. request'.op = "move"
        BY <2>3 DEF UpdateFollowing, Asked
      <3> QED BY <3>1 DEF Previewed
    <2>4. CASE Respond
      BY <2>4 DEF Respond, Previewed
    <2>5. CASE UNCHANGED vars
      BY <2>5 DEF vars, Previewed
    <2> QED BY <2>1, <2>2, <2>3, <2>4, <2>5 DEF Next
  <1> QED BY <1>1, <1>2, PTL DEF Spec

\* All-day times are midnights.
LEMMA AllDayTimes ==
    ASSUME NEW in, NEW t, t = resolveScheduleTimes(in), t.startDate # None
    PROVE  /\ t.start = dateAtTimezoneMidnight(in.zone, t.startDate)
           /\ t.end = dateAtTimezoneMidnight(in.zone, t.endDate)
  <1>1. \A e : Refused(e).startDate = None
    BY DEF Refused
  <1>2. \A a, b, c, d : /\ Times(a, b, c, d).start = a /\ Times(a, b, c, d).end = b
                        /\ Times(a, b, c, d).startDate = c /\ Times(a, b, c, d).endDate = d
    BY DEF Times
  <1>3. t \in {Refused("invalid"), byDates(in), byWallTimes(in), byInstantsAllDay(in),
               Times(in.startAt, in.endAt, None, None)}
    BY DEF resolveScheduleTimes
  <1>4. t = byDates(in) \/ t = byInstantsAllDay(in)
    <2>1. Times(in.startAt, in.endAt, None, None).startDate = None
      BY <1>2
    <2>2. byWallTimes(in).startDate = None
      BY <1>1, <1>2 DEF byWallTimes
    <2> QED BY <1>1, <1>3, <2>1, <2>2
  <1>5. CASE t = byDates(in)
    <2>1. t = Times(dateAtTimezoneMidnight(in.zone, in.startDate),
                    dateAtTimezoneMidnight(in.zone, in.endDate), in.startDate, in.endDate)
      BY <1>1, <1>5 DEF byDates
    <2> QED BY <1>2, <2>1
  <1>6. CASE t = byInstantsAllDay(in)
    <2>1. PICK a, b : t = Times(dateAtTimezoneMidnight(in.zone, a),
                                dateAtTimezoneMidnight(in.zone, b), a, b)
      BY <1>6 DEF byInstantsAllDay
    <2> QED BY <1>2, <2>1
  <1> QED BY <1>4, <1>5, <1>6

\* So are those resolved without the folds.
LEMMA AnchorTimes ==
    ASSUME NEW in, "zone" \in DOMAIN in, NEW t, t = resolveRecurrenceAnchorTimes(in),
           t.startDate # None
    PROVE  /\ t.start = dateAtTimezoneMidnight(in.zone, t.startDate)
           /\ t.end = dateAtTimezoneMidnight(in.zone, t.endDate)
  <1> DEFINE plain == [in EXCEPT !.startFold = "", !.endFold = ""]
  <1>1. plain.zone = in.zone
    OBVIOUS
  <1>2. t = resolveScheduleTimes(in) \/ t = resolveScheduleTimes(plain)
    BY DEF resolveRecurrenceAnchorTimes
  <1> HIDE DEF plain
  <1> QED BY <1>1, <1>2, AllDayTimes

\* The times and the rule of the request are in order, in a zone with midnights.
InOrder ==
    /\ request # None /\ request.op = "preview" /\ HasMidnights(request.in.zone)
    /\ times.error = "none" /\ ~ ruleInvalid(rule)
    /\ ~ timesInvalid(request.in.zone, times, request.in.allDay)

\* Then the series begins at the midnight of its first day.
LEMMA SeriesBegins ==
    ASSUME Previewed, InOrder
    PROVE  LET z == request.in.zone
               dur == wallDuration(z, times, request.in.allDay)
           IN  /\ z \in Zones /\ request.in.startFold \in Folds /\ request.in.endFold \in Folds
               /\ RuleTyped(rule) /\ Reached(z, firstDay)
               /\ times.start \in From .. To /\ times.end \in (From .. To) \cup {None}
               /\ date(z, times.start) = firstDay
               /\ anchor = dateAtTimezoneMidnight(z, firstDay) /\ anchor # None
               /\ dur \in Nat /\ (firstDay - 31) * Day \in Walls
               /\ (firstDay + 400) * Day + dur \in Walls
               /\ request.in.allDay =>
                      /\ times.startDate \in Int /\ times.endDate \in Int
                      /\ times.startDate < times.endDate
                      /\ times.endDate - times.startDate <= 366
                      /\ clock(z, times.start) = 0
               /\ ~ request.in.allDay /\ times.end # None =>
                      dur = local(z, times.end) - local(z, times.start) /\ dur > 0
  <1> DEFINE in == request.in
             z == in.zone
             t == times
             r == in.recurrence
             first == IF in.allDay THEN t.startDate ELSE date(z, t.start)
             dur == wallDuration(z, t, in.allDay)
  <1>1. /\ in \in Requests /\ r # None /\ t = resolveRecurrenceAnchorTimes(in)
        /\ t.error = "none" /\ ~ ruleInvalid(r) /\ ~ timesInvalid(z, t, in.allDay)
        /\ HasMidnights(z)
        /\ anchor = anchorDate(z, t, in.allDay)
    BY DEF Previewed, InOrder, rule
  <1>2. /\ z \in Zones /\ in.startFold \in Folds /\ in.endFold \in Folds /\ None \notin Int
        /\ "zone" \in DOMAIN in
    BY <1>1, RequestsAssumption
  <1>3. firstDay = first /\ rule = r
    BY DEF firstDay, rule
  <1>4. RuleTyped(r)
    BY <1>1, SeriesAssumption DEF RuleTyped
  <1>5. /\ t.start \in From .. To /\ t.end \in (From .. To) \cup {None}
        /\ in.allDay => t.startDate \in Int /\ t.endDate \in Int
        /\ (first - 31) * Day \in Walls /\ (first + 400) * Day + dur \in Walls
        /\ first \in 0 .. monthStart[MaxMonth] - 1 /\ monthOf[first] + 14 <= MaxMonth
    BY <1>1, SeriesAssumption
  <1>6. Day \in Nat \ {0} /\ From \in Int /\ To \in Int
    BY ZonesAssumption DEF Day
  <1>7. in.allDay => t.startDate < t.endDate /\ t.endDate - t.startDate <= 366 /\ t.startDate # None
    BY <1>1, <1>2, <1>5 DEF timesInvalid
  <1>8. ~ in.allDay /\ t.end # None => ~ (local(z, t.end) <= local(z, t.start))
    BY <1>1 DEF timesInvalid
  <1>9. \A u \in From .. To : u \in Int /\ local(z, u) \in Int
    BY <1>2, ClocksShow
  <1>10. dur \in Nat
    <2>1. CASE in.allDay
      <3> DEFINE n == t.endDate - t.startDate
                 D == Day
      <3>1. n \in Nat /\ D \in Nat
        BY <1>5, <1>6, <1>7, <2>1
      <3> HIDE DEF n, D
      <3>2. n * D \in Nat
        BY <3>1
      <3> QED BY <2>1, <3>2 DEF wallDuration, n, D
    <2>2. CASE ~ in.allDay /\ t.end = None
      BY <2>2 DEF wallDuration
    <2>3. CASE ~ in.allDay /\ t.end # None
      <3>1. local(z, t.end) \in Int /\ local(z, t.start) \in Int
        BY <1>5, <1>9, <2>3
      <3>2. local(z, t.end) - local(z, t.start) \in Nat
        BY <1>8, <2>3, <3>1
      <3> QED BY <2>3, <3>2 DEF wallDuration
    <2> QED BY <2>1, <2>2, <2>3
  <1>11. ~ in.allDay /\ t.end # None => dur = local(z, t.end) - local(z, t.start) /\ dur > 0
    <2> SUFFICES ASSUME ~ in.allDay, t.end # None
                 PROVE  dur = local(z, t.end) - local(z, t.start) /\ dur > 0
      OBVIOUS
    <2>1. local(z, t.end) \in Int /\ local(z, t.start) \in Int
      BY <1>5, <1>9
    <2>2. dur = local(z, t.end) - local(z, t.start)
      BY DEF wallDuration
    <2> HIDE DEF dur
    <2> QED BY <1>8, <2>1, <2>2
  <1> HIDE DEF dur
  <1>12. first \in Int /\ Reached(z, first)
    <2> HIDE DEF first
    <2>1. first \in Int /\ first - 31 \in Int /\ first + 400 \in Int
      BY <1>5
    <2>2. first - 31 <= first + 400 /\ first + 400 <= first + 400 /\ 0 \in 0 .. dur
      BY <1>10, <2>1
    <2>3. \A y \in 0 .. dur : (first + 400) * Day + y \in Walls
      BY <1>5, <1>10, <2>1, <2>2, DatesConvex
    <2>4. (first + 400) * Day + 0 = (first + 400) * Day
      <3>1. (first + 400) * Day \in Int
        BY <1>6, <2>1
      <3> QED BY <3>1
    <2>5. (first + 400) * Day \in Walls
      BY <2>2, <2>3, <2>4
    <2> QED BY <1>1, <1>2, <1>5, <2>1, <2>5 DEF Reached
  <1>13. first \in Dates
    <2> HIDE DEF first, in, z
    <2>1. first \in first - 31 .. first + 400
      BY <1>12
    <2> QED BY <1>12, <2>1, NearDates
  <1>14. date(z, t.start) = first /\ (in.allDay => clock(z, t.start) = 0)
    <2>1. CASE in.allDay
      <3>1. t.start = dateAtTimezoneMidnight(z, t.startDate) /\ first = t.startDate
        BY <1>1, <1>2, <1>7, <2>1, AnchorTimes
      <3> HIDE DEF first
      <3> QED BY <1>1, <1>2, <1>13, <3>1, MidnightShows
    <2>2. CASE ~ in.allDay
      BY <2>2
    <2> QED BY <2>1, <2>2
  <1>15. anchor = dateAtTimezoneMidnight(z, first)
    <2>1. CASE in.allDay
      <3>1. first = t.startDate
        BY <2>1
      <3>2. date(z, dateAtTimezoneMidnight(z, t.startDate)) = t.startDate
        <4> HIDE DEF first
        <4> QED BY <1>1, <1>2, <1>13, <3>1, MidnightShows
      <3> QED BY <1>1, <2>1, <3>1, <3>2 DEF anchorDate
    <2>2. CASE ~ in.allDay
      BY <1>1, <2>2 DEF anchorDate
    <2> QED BY <2>1, <2>2
  <1>16. anchor # None
    <2> HIDE DEF first
    <2>1. anchor \in Int
      BY <1>1, <1>2, <1>13, <1>15, MidnightShows
    <2> QED BY <1>2, <2>1
  <1> HIDE DEF first
  <1> QED BY <1>2, <1>3, <1>4, <1>5, <1>7, <1>10, <1>11, <1>12, <1>14, <1>15, <1>16 DEF dur

\* dueDays: the days of the rule that are not excluded.
LEMMA DueIs ==
    ASSUME NEW first
    PROVE  dueDays(first) = {d \in daysOn(rule, first) : d \notin elements(rule.exdates)}
  <1>1. \A d : onRule(first, d) <=> onDay(rule, first, d)
    BY DEF onRule, onDay
  <1>2. dueDays(first) = {d \in first .. finalDay(rule, first) :
                             onRule(first, d) /\ d \notin elements(rule.exdates)}
    BY DEF dueDays, finalDay
  <1> QED BY <1>1, <1>2 DEF daysOn

\* The days of the series, listed.
Held == among(dueDays(firstDay), rule.count)

\* A request whose times and rule are in order is refused before its occurrences
\* are made only when until is out of range, and its candidates are the midnights
\* of the days the rule asks for.
LEMMA SeriesListed ==
    ASSUME Previewed, InOrder
    PROVE  LET z == request.in.zone
           IN  /\ untilInvalid(z, anchor, rule) <=>
                      rule.until # None /\ rule.until \notin firstDay .. yearLater(firstDay)
               /\ ~ untilInvalid(z, anchor, rule) =>
                      /\ finalDay(rule, firstDay) \in firstDay .. yearLater(firstDay)
                      /\ \E s : Lists(s, Held) /\ days = mapped(s, midnight(z))
                      /\ answer = series(occurrencesOf(request.in, times, days),
                                      skippedMonths(z, dateAtTimezoneMidnight(z, firstDay),
                                          dateAtTimezoneMidnight(z, finalDay(rule, firstDay)), rule))
               /\ untilInvalid(z, anchor, rule) => answer = NoSeries("invalid")
  <1> DEFINE z == request.in.zone
             r == rule
             first == firstDay
             M(x) == dateAtTimezoneMidnight(z, x)
             last == finalDay(r, first)
             W == weekdaySet(z, times.start, r)
             bad == untilInvalid(z, anchor, r)
  <1>1. /\ RuleTyped(r) /\ Reached(z, first) /\ date(z, times.start) = first
        /\ anchor = M(first) /\ anchor # None
    BY SeriesBegins
  <1>2. /\ times.error = "none" /\ ~ ruleInvalid(r)
        /\ days = IF bad THEN <<>> ELSE seriesCandidates(z, anchor, limit(z, anchor, r), r, W)
        /\ answer = IF bad THEN NoSeries("invalid")
                    ELSE series(occurrencesOf(request.in, times, days),
                                skippedMonths(z, anchor, limit(z, anchor, r), r))
    BY <1>1 DEF Previewed, InOrder, rule
  <1>3. limit(z, M(first), r) = M(last)
    BY <1>1, Limits
  <1>4. untilInvalid(z, M(first), r) <=> r.until # None /\ r.until \notin first .. yearLater(first)
    BY <1>1, Limits
  <1>5. yearLater(first) \in first .. first + 366 /\ first \in Int
    BY <1>1, YearAhead
  <1>6. ~ bad => last \in first .. yearLater(first)
    <2> SUFFICES ASSUME ~ bad PROVE last \in first .. yearLater(first)
      OBVIOUS
    <2>1. r.until = None \/ r.until \in first .. yearLater(first)
      BY <1>1, <1>4
    <2>2. yearLater(first) \in first .. yearLater(first)
      BY <1>5
    <2> QED BY <2>1, <2>2 DEF finalDay
  <1>7. ~ bad => \E s : Lists(s, Held) /\ days = mapped(s, midnight(z))
    <2> SUFFICES ASSUME ~ bad PROVE \E s : Lists(s, Held) /\ days = mapped(s, midnight(z))
      OBVIOUS
    <2>1. MidnightsOfDays(z, seriesCandidates(z, M(first), M(last), r, W),
                          among({d \in daysOn(r, first) : d \notin elements(r.exdates)}, r.count))
      BY <1>1, <1>2, <1>6, SeriesDays
    <2>2. among({d \in daysOn(r, first) : d \notin elements(r.exdates)}, r.count) = Held
      BY DueIs DEF Held
    <2>3. days = seriesCandidates(z, M(first), M(last), r, W)
      BY <1>1, <1>2, <1>3
    <2> QED BY <2>1, <2>2, <2>3 DEF MidnightsOfDays
  <1> HIDE DEF z, r, first, last, M, W
  <1>8. bad <=> r.until # None /\ r.until \notin first .. yearLater(first)
    BY <1>1, <1>4
  <1>9. ~ bad => answer = series(occurrencesOf(request.in, times, days),
                                 skippedMonths(z, M(first), M(last), r))
    BY <1>1, <1>2, <1>3
  <1>10. bad => answer = NoSeries("invalid")
    BY <1>2
  <1> QED BY <1>6, <1>7, <1>8, <1>9, <1>10 DEF z, r, first, last, M

\* The candidate of a day of the series and the wall times around it.
LEMMA SeriesDay ==
    ASSUME Previewed, InOrder, ~ untilInvalid(request.in.zone, anchor, rule),
           NEW s, Lists(s, Held), days = mapped(s, midnight(request.in.zone)),
           NEW i \in 1 .. Len(s)
    PROVE  LET z == request.in.zone
               dur == wallDuration(z, times, request.in.allDay)
           IN  /\ s[i] \in Held /\ s[i] \in Int /\ s[i] \in Dates
               /\ s[i] \in firstDay .. firstDay + 366
               /\ days[i] = dateAtTimezoneMidnight(z, s[i]) /\ days[i] \in From .. To
               /\ local(z, days[i]) = s[i] * Day
               /\ date(z, days[i]) = s[i] /\ clock(z, days[i]) = 0
               /\ clock(z, times.start) \in 0 .. Day - 1
               /\ s[i] * Day + clock(z, times.start) \in Walls
               /\ s[i] * Day + clock(z, times.start) + dur \in Walls
  <1> DEFINE z == request.in.zone
             dur == wallDuration(z, times, request.in.allDay)
             first == firstDay
             d == s[i]
             c == clock(z, times.start)
  <1>1. /\ z \in Zones /\ Reached(z, first) /\ RuleTyped(rule) /\ times.start \in From .. To
        /\ dur \in Nat /\ (first - 31) * Day \in Walls /\ (first + 400) * Day + dur \in Walls
    BY SeriesBegins
  <1>2. HasMidnights(z)
    BY DEF InOrder
  <1>3. first \in Int /\ yearLater(first) \in first .. first + 366
    BY <1>1, YearAhead
  <1>4. finalDay(rule, first) \in first .. yearLater(first)
    BY SeriesListed
  <1>5. d \in Held
    BY ListsSeq
  <1>6. Held \subseteq first .. first + 366
    <2>1. Held \subseteq dueDays(first)
      BY DEF Held, among
    <2>2. dueDays(first) \subseteq first .. finalDay(rule, first)
      BY DueIs DEF daysOn
    <2> HIDE DEF first
    <2>3. first .. finalDay(rule, first) \subseteq first .. first + 366
      BY <1>3, <1>4
    <2> QED BY <2>1, <2>2, <2>3
  <1>7. d \in first .. first + 366 /\ d \in Int
    <2> HIDE DEF d, first
    <2>1. d \in first .. first + 366
      BY <1>5, <1>6
    <2> QED BY <1>3, <2>1
  <1>8. d \in Dates
    <2> HIDE DEF d, first, z
    <2>1. d \in first - 31 .. first + 400
      BY <1>3, <1>7
    <2> QED BY <1>1, <2>1, NearDates
  <1>9. days[i] = dateAtTimezoneMidnight(z, d)
    <2>1. days[i] = midnight(z)[d]
      <3> HIDE DEF z
      <3> QED BY DEF mapped, z
    <2> HIDE DEF d, z
    <2> QED BY <1>8, <2>1 DEF midnight
  <1>10. /\ days[i] \in From .. To /\ local(z, days[i]) = d * Day
         /\ date(z, days[i]) = d /\ clock(z, days[i]) = 0
    <2> HIDE DEF d, z
    <2> QED BY <1>1, <1>2, <1>8, <1>9, MidnightShows
  <1>11. Day \in Nat \ {0} /\ From \in Int /\ To \in Int /\ Hour \in Nat
    BY ZonesAssumption DEF Day
  <1>12. c \in 0 .. Day - 1
    <2>1. local(z, times.start) \in Int
      BY <1>1, ClocksShow
    <2> QED BY <1>11, <2>1 DEF clock
  <1> HIDE DEF z, dur, first, d, c
  <1>13. d * Day + c \in Walls /\ d * Day + c + dur \in Walls
    <2> DEFINE D == Day
    <2>1. D \in Nat \ {0} /\ c \in 0 .. D - 1 /\ first - 31 < d /\ d < first + 400
          /\ first - 31 \in Int /\ first + 400 \in Int /\ d \in Int
      BY <1>3, <1>7, <1>11, <1>12
    <2>2. (first - 31) * D \in Walls /\ (first + 400) * D + dur \in Walls
      BY <1>1
    <2> HIDE DEF D
    <2>3. (first - 31) * D + D <= d * D /\ d * D + D <= (first + 400) * D
      BY <2>1, DayOrder
    <2>4. (first - 31) * D \in Int /\ d * D \in Int /\ (first + 400) * D \in Int
      BY <2>1
    <2>5. d * D + c \in Walls /\ d * D + c + dur \in Walls
      <3> DEFINE a == (first - 31) * D
                 b == d * D
                 e == (first + 400) * D
      <3>1. a \in Int /\ b \in Int /\ e \in Int /\ a + D <= b /\ b + D <= e
            /\ a \in Walls /\ e + dur \in Walls
        BY <2>2, <2>3, <2>4
      <3> HIDE DEF a, b, e
      <3>2. b + c \in Walls /\ b + c + dur \in Walls
        <4> DEFINE lo == From + 62 * Hour
                   hi == To - 62 * Hour
        <4>1. Walls = lo .. hi /\ lo \in Int /\ hi \in Int
          BY <1>11 DEF Walls
        <4> HIDE DEF lo, hi
        <4>2. lo <= a /\ e + dur <= hi /\ dur \in Nat
          BY <1>1, <3>1, <4>1
        <4>3. b + c \in lo .. hi /\ b + c + dur \in lo .. hi
          BY <2>1, <3>1, <4>1, <4>2
        <4> QED BY <4>1, <4>3
      <3> QED BY <3>2 DEF b
    <2> QED BY <2>5 DEF D
  <1> QED BY <1>5, <1>7, <1>8, <1>9, <1>10, <1>12, <1>13 DEF z, dur, first, d, c

\* The occurrence of a day of the series.
LEMMA SeriesOccurrence ==
    ASSUME Previewed, InOrder, ~ untilInvalid(request.in.zone, anchor, rule),
           NEW s, Lists(s, Held), days = mapped(s, midnight(request.in.zone)),
           NEW i \in 1 .. Len(s),
           NEW o, o = occurrencesOf(request.in, times, days)[i], o.error = "none"
    PROVE  LET z == request.in.zone
           IN  /\ day(o) = s[i]
               /\ (IF o.startDate # None THEN o.startDate ELSE o.localStart \div Day) = s[i]
               /\ ~ request.in.allDay =>
                      /\ clock(z, o.start) = clock(z, times.start)
                      /\ local(z, o.start) = o.localStart
                      /\ times.end # None => local(z, o.end) - local(z, o.start)
                                                 = local(z, times.end) - local(z, times.start)
               /\ request.in.allDay =>
                      LET n == times.endDate - times.startDate
                      IN  /\ s[i] + n \in Dates
                          /\ o.startDate = s[i] /\ o.endDate = s[i] + n
                          /\ o.start = dateAtTimezoneMidnight(z, s[i])
                          /\ o.end = dateAtTimezoneMidnight(z, s[i] + n)
  <1> DEFINE in == request.in
             z == in.zone
             dur == wallDuration(z, times, in.allDay)
             d == s[i]
             c == clock(z, times.start)
             u == days[i]
  <1>1. /\ z \in Zones /\ in.startFold \in Folds /\ in.endFold \in Folds
        /\ times.start \in From .. To /\ times.end \in (From .. To) \cup {None}
        /\ dur \in Nat /\ Reached(z, firstDay)
        /\ (firstDay - 31) * Day \in Walls /\ (firstDay + 400) * Day + dur \in Walls
        /\ in.allDay => /\ times.startDate \in Int /\ times.endDate \in Int
                        /\ times.startDate < times.endDate
        /\ ~ in.allDay /\ times.end # None => dur = local(z, times.end) - local(z, times.start)
    BY SeriesBegins
  <1>2. /\ d \in Int /\ d \in Dates /\ d \in firstDay .. firstDay + 366
        /\ u = dateAtTimezoneMidnight(z, d) /\ u \in From .. To
        /\ local(z, u) = d * Day /\ date(z, u) = d /\ clock(z, u) = 0
        /\ c \in 0 .. Day - 1 /\ d * Day + c \in Walls /\ d * Day + c + dur \in Walls
    BY SeriesDay
  <1>3. HasMidnights(z) /\ None \notin Int /\ Day \in Nat \ {0}
    BY RequestsAssumption, ZonesAssumption DEF InOrder, Day
  <1>4. o = IF in.allDay THEN allDayOccurrence(z, times, u)
            ELSE timedOccurrence(z, times, u, in.startFold, in.endFold)
    <2>1. i \in DOMAIN days
      BY DEF mapped
    <2> QED BY <2>1 DEF occurrencesOf
  <1> HIDE DEF in, z, dur, d, c, u
  <1>5. CASE ~ in.allDay
    <2>1. o = timedOccurrence(z, times, u, in.startFold, in.endFold)
      BY <1>4, <1>5
    <2>2. times.end # None => times.end \in From .. To
      BY <1>1
    <2>3. date(z, u) * Day + clock(z, times.start) \in Walls
      BY <1>2 DEF c
    <2>4. times.end # None =>
              local(z, u) + clock(z, times.start) + local(z, times.end) - local(z, times.start) \in Walls
      <3> SUFFICES ASSUME times.end # None
                   PROVE  d * Day + c + local(z, times.end) - local(z, times.start) \in Walls
        BY <1>2 DEF c
      <3>1. local(z, times.end) \in Int /\ local(z, times.start) \in Int
        BY <1>1, <2>2, ClocksShow
      <3>2. d * Day + c \in Int
        <4>1. d * Day \in Int
          BY <1>2, <1>3
        <4> QED BY <1>2, <4>1
      <3>3. d * Day + c + local(z, times.end) - local(z, times.start) = d * Day + c + dur
        <4> DEFINE w == d * Day + c
        <4>1. w \in Int
          BY <3>2
        <4> HIDE DEF w
        <4>2. w + local(z, times.end) - local(z, times.start) = w + dur
          BY <1>1, <1>5, <3>1, <4>1
        <4> QED BY <4>2 DEF w
      <3> QED BY <1>2, <3>3
    <2>5. o.error = "none"
      OBVIOUS
    <2>6. timedOccurrence(z, times, u, in.startFold, in.endFold).error = "none"
      BY <2>1, <2>5
    <2>7. /\ o.startDate = None /\ date(z, o.start) = date(z, u)
          /\ clock(z, o.start) = clock(z, times.start)
          /\ o.localStart = local(z, u) + clock(z, times.start)
          /\ local(z, o.start) = o.localStart
          /\ times.end # None => local(z, o.end) - local(z, o.start)
                                     = local(z, times.end) - local(z, times.start)
      BY <1>1, <1>2, <2>1, <2>2, <2>3, <2>4, <2>6, OccurrenceKeepsClock
    <2>8. day(o) = d
      BY <1>2, <2>7 DEF day, z, in
    <2>9. o.localStart \div Day = d
      <3> DEFINE D == Day
      <3>1. D \in Nat \ {0} /\ d \in Int /\ c \in 0 .. D - 1
        BY <1>2, <1>3
      <3> HIDE DEF D
      <3>2. (d * D + c) \div D = d
        BY <3>1, WallParts
      <3> QED BY <1>2, <2>7, <3>2 DEF D, c
    <2> QED BY <1>5, <2>7, <2>8, <2>9 DEF in, z, d
  <1>6. CASE in.allDay
    <2> DEFINE n == times.endDate - times.startDate
    <2>1. n \in Nat /\ dur = n * Day
      BY <1>1, <1>6 DEF wallDuration, dur
    <2>2. d + n \in Dates
      <3>1. firstDay \in Int
        BY <1>1, NearDates
      <3> HIDE DEF n
      <3>2. /\ firstDay - 31 \in Int /\ d + n \in Int /\ firstDay + 400 + n \in Int
            /\ firstDay - 31 <= d + n /\ d + n <= firstDay + 400 + n
        BY <1>2, <2>1, <3>1
      <3>3. (firstDay + 400 + n) * Day + 0 = (firstDay + 400) * Day + dur
        <4> DEFINE D == Day
                   a == firstDay + 400
        <4>1. D \in Nat /\ a \in Int
          BY <1>3, <3>1
        <4> HIDE DEF D, a
        <4>2. (a + n) * D = a * D + n * D /\ (a + n) * D \in Int
          BY <2>1, <4>1
        <4> QED BY <2>1, <4>2 DEF D, a
      <3>4. \A y \in 0 .. 0 : (d + n) * Day + y \in Walls
        BY <1>1, <3>2, <3>3, DatesConvex
      <3>5. (d + n) * Day + 0 = (d + n) * Day
        <4>1. (d + n) * Day \in Int
          BY <1>3, <3>2
        <4> QED BY <4>1
      <3>6. (d + n) * Day \in Walls
        BY <3>4, <3>5
      <3> QED BY <3>2, <3>6 DEF Dates
    <2>3. addDays(z, u, n) = dateAtTimezoneMidnight(z, d + n)
      <3>1. n \in Int /\ z \in Zones /\ d \in Dates
        BY <1>1, <1>2, <2>1
      <3> HIDE DEF n
      <3>2. addDays(z, dateAtTimezoneMidnight(z, d), n) = dateAtTimezoneMidnight(z, d + n)
        BY <1>3, <3>1, AddedDays
      <3> QED BY <1>2, <3>2
    <2>4. date(z, addDays(z, u, n)) = d + n
      <3> HIDE DEF n
      <3> QED BY <1>1, <1>3, <2>2, <2>3, MidnightShows
    <2>5. o = allDayOccurrence(z, times, u)
      BY <1>4, <1>6
    <2>6. o = Occurrence(dateAtTimezoneMidnight(z, d), dateAtTimezoneMidnight(z, d + n), d, d + n,
                         local(z, u))
      BY <1>2, <2>4, <2>5 DEF allDayOccurrence
    <2> HIDE DEF n
    <2>7. /\ o.startDate = d /\ o.endDate = d + n
          /\ o.start = dateAtTimezoneMidnight(z, d) /\ o.end = dateAtTimezoneMidnight(z, d + n)
      BY <2>6 DEF Occurrence
    <2>8. o.startDate # None
      BY <1>2, <1>3, <2>7
    <2>9. day(o) = d
      BY <2>7, <2>8 DEF day
    <2> QED BY <1>6, <2>2, <2>7, <2>8, <2>9 DEF in, z, d, n
  <1> QED BY <1>5, <1>6

\* What the answer A makes of the occurrences and of what is skipped.
SeriesMade(A, occs, missing) ==
    /\ A.error = "none" =>
           /\ \A i \in DOMAIN occs : occs[i].error = "none"
           /\ Len(occs) \in 1 .. 100 /\ A.occurrences = occs
           /\ A.skipped = keep(missing, {d \in elements(missing) : d <= lastDate(occs)})
    /\ A.error # "none" =>
           \/ \E i \in DOMAIN occs : A.error = occs[i].error
           \/ /\ A.error = "size" /\ Len(occs) \notin 1 .. 100
              /\ \A i \in DOMAIN occs : occs[i].error = "none"

\* series makes this of them.
LEMMA SeriesAnswers ==
    ASSUME NEW occs, NEW l \in Nat, DOMAIN occs = 1 .. l, NEW missing
    PROVE  SeriesMade(series(occs, missing), occs, missing)
  <1> DEFINE A == series(occs, missing)
  <1>1. \A e : NoSeries(e).error = e
    BY DEF NoSeries
  <1>2. CASE \E i \in DOMAIN occs : occs[i].error # "none"
    <2> DEFINE F == {i \in DOMAIN occs : occs[i].error # "none"}
    <2>1. earliest(F) \in F
      <3>1. F \in SUBSET (1 .. l) /\ F # {}
        BY <1>2
      <3> DEFINE lo == 1
      <3>2. lo \in Int /\ l \in Int /\ F \in SUBSET (lo .. l)
        BY <3>1
      <3> HIDE DEF F, lo
      <3> QED BY <3>1, <3>2, Extremes
    <2>2. A = NoSeries(occs[earliest(F)].error)
      BY <1>2 DEF series, firstError
    <2>3. A.error = occs[earliest(F)].error
      <3> HIDE DEF F
      <3> QED BY <1>1, <2>2
    <2>4. earliest(F) \in DOMAIN occs /\ occs[earliest(F)].error # "none"
      BY <2>1
    <2> HIDE DEF F, A
    <2>5. SeriesMade(A, occs, missing)
      BY <2>3, <2>4 DEF SeriesMade
    <2> QED BY <2>5 DEF A
  <1>3. CASE ~ (\E i \in DOMAIN occs : occs[i].error # "none") /\ Len(occs) \notin 1 .. 100
    <2>1. A = NoSeries("size")
      BY <1>3 DEF series
    <2> HIDE DEF A
    <2>2. SeriesMade(A, occs, missing)
      BY <1>1, <1>3, <2>1 DEF SeriesMade
    <2> QED BY <2>2 DEF A
  <1>4. CASE ~ (\E i \in DOMAIN occs : occs[i].error # "none") /\ Len(occs) \in 1 .. 100
    BY <1>4 DEF series, SeriesMade
  <1> QED BY <1>2, <1>3, <1>4

\* The days skippedMonths reports for the whole series.
missingDays ==
    skippedMonths(request.in.zone, dateAtTimezoneMidnight(request.in.zone, firstDay),
                  dateAtTimezoneMidnight(request.in.zone, finalDay(rule, firstDay)), rule)

\* s lists the days of the series, and the answer is made of their occurrences.
ListsSeries(s) ==
    /\ Lists(s, Held) /\ Len(s) \in Nat /\ days = mapped(s, midnight(request.in.zone))
    /\ DOMAIN occurrencesOf(request.in, times, days) = 1 .. Len(s)
    /\ Len(occurrencesOf(request.in, times, days)) = Len(s)
    /\ SeriesMade(answer, occurrencesOf(request.in, times, days), missingDays)

\* There is such a list when nothing is refused beforehand.
LEMMA SeriesAnswered ==
    ASSUME Previewed, InOrder, ~ untilInvalid(request.in.zone, anchor, rule)
    PROVE  \E s : ListsSeries(s)
  <1> DEFINE z == request.in.zone
             occs == occurrencesOf(request.in, times, days)
  <1>1. PICK s : Lists(s, Held) /\ days = mapped(s, midnight(z))
    BY SeriesListed
  <1>2. answer = series(occs, missingDays)
    BY SeriesListed DEF missingDays
  <1>3. Len(s) \in Nat
    BY <1>1, ListsSeq
  <1>4. DOMAIN days = 1 .. Len(s)
    BY <1>1 DEF mapped
  <1>5. DOMAIN occs = 1 .. Len(s) /\ Len(occs) = Len(s)
    <2>1. DOMAIN occs = DOMAIN days
      BY DEF occurrencesOf
    <2>2. occs = [i \in DOMAIN days |-> occs[i]]
      BY DEF occurrencesOf
    <2> HIDE DEF occs
    <2>3. DOMAIN occs = 1 .. Len(s)
      BY <1>4, <2>1
    <2>4. occs \in Seq({occs[i] : i \in 1 .. Len(s)})
      BY <1>3, <1>4, <2>2
    <2> QED BY <1>3, <2>3, <2>4
  <1>6. SeriesMade(answer, occs, missingDays)
    <2> HIDE DEF occs
    <2> DEFINE l == Len(s)
    <2>1. l \in Nat /\ DOMAIN occs = 1 .. l
      BY <1>3, <1>5
    <2> HIDE DEF l
    <2> QED BY <1>2, <2>1, SeriesAnswers
  <1> HIDE DEF occs
  <1>7. ListsSeries(s)
    BY <1>1, <1>3, <1>5, <1>6 DEF ListsSeries, occs
  <1> QED BY <1>7

\* A series that is answered was in order.
LEMMA AnsweredInOrder ==
    ASSUME Previewed, Answered("preview"), HasMidnights(request.in.zone)
    PROVE  InOrder /\ ~ untilInvalid(request.in.zone, anchor, rule)
  <1>1. \A e : NoSeries(e).error = e
    BY DEF NoSeries
  <1>2. request # None /\ request.op = "preview" /\ answer.error = "none"
    BY DEF Answered
  <1>3. times.error = "none"
    <2> SUFFICES ASSUME times.error # "none" PROVE FALSE
      OBVIOUS
    <2>1. answer = NoSeries(times.error)
      BY <1>2 DEF Previewed
    <2> QED BY <1>1, <1>2, <2>1
  <1>4. anchor # None /\ ~ untilInvalid(request.in.zone, anchor, rule)
    <2> SUFFICES ASSUME anchor = None \/ untilInvalid(request.in.zone, anchor, rule) PROVE FALSE
      OBVIOUS
    <2>1. answer = NoSeries("invalid")
      BY <1>2, <1>3 DEF Previewed, rule
    <2> QED BY <1>1, <1>2, <2>1
  <1>5. ~ ruleInvalid(rule) /\ ~ timesInvalid(request.in.zone, times, request.in.allDay)
    BY <1>2, <1>4 DEF Previewed, rule
  <1> QED BY <1>2, <1>3, <1>4, <1>5 DEF InOrder

\* The occurrences of the answer are on the days s lists.
OnDays(s) ==
    /\ Lists(s, Held) /\ days = mapped(s, midnight(request.in.zone))
    /\ answer.occurrences = occurrencesOf(request.in, times, days)
    /\ DOMAIN answer.occurrences = 1 .. Len(s) /\ Len(answer.occurrences) = Len(s)
    /\ Len(s) \in 1 .. 100
    /\ \A i \in 1 .. Len(s) : /\ answer.occurrences[i].error = "none"
                              /\ day(answer.occurrences[i]) = s[i]
    /\ answer.skipped = keep(missingDays, {d \in elements(missingDays) : d <= s[Len(s)]})

\* The occurrences of every answer are on such days.
LEMMA AnsweredOnDays ==
    ASSUME Previewed, Answered("preview"), HasMidnights(request.in.zone)
    PROVE  \E s : OnDays(s)
  <1> DEFINE z == request.in.zone
             occs == occurrencesOf(request.in, times, days)
  <1>1. InOrder /\ ~ untilInvalid(z, anchor, rule)
    BY AnsweredInOrder
  <1>2. PICK s : ListsSeries(s)
    BY <1>1, SeriesAnswered
  <1>3. Lists(s, Held) /\ days = mapped(s, midnight(z))
    BY <1>2 DEF ListsSeries
  <1>4. DOMAIN occs = 1 .. Len(s) /\ Len(occs) = Len(s)
    BY <1>2 DEF ListsSeries
  <1>5. SeriesMade(answer, occs, missingDays)
    BY <1>2 DEF ListsSeries
  <1>6. answer.error = "none"
    BY DEF Answered
  <1>7. /\ \A i \in DOMAIN occs : occs[i].error = "none"
        /\ Len(occs) \in 1 .. 100 /\ answer.occurrences = occs
        /\ answer.skipped = keep(missingDays, {d \in elements(missingDays) : d <= lastDate(occs)})
    <2> HIDE DEF occs
    <2> QED BY <1>5, <1>6 DEF SeriesMade
  <1>8. ASSUME NEW i \in 1 .. Len(s)
        PROVE  /\ day(occs[i]) = s[i]
               /\ (IF occs[i].startDate # None THEN occs[i].startDate
                   ELSE occs[i].localStart \div Day) = s[i]
    <2>1. occs[i].error = "none"
      BY <1>4, <1>7
    <2> QED BY <1>1, <1>3, <2>1, SeriesOccurrence
  <1> HIDE DEF occs
  <1>9. lastDate(occs) = s[Len(s)]
    <2>1. Len(s) \in 1 .. Len(s)
      BY <1>4, <1>7
    <2> QED BY <1>4, <1>8, <2>1 DEF lastDate
  <1>10. OnDays(s)
    BY <1>3, <1>4, <1>7, <1>8, <1>9 DEF OnDays, occs, z
  <1> QED BY <1>10

-----------------------------------------------------------------------------
(* The series follows its rule.                                             *)

\* What the theorem says of one state.
LEMMA RuleFollowed == Previewed => (HasMidnights(request.in.zone) => RuleHonoured)
  <1> SUFFICES ASSUME Previewed, HasMidnights(request.in.zone), Answered("preview")
               PROVE  /\ Len(answer.occurrences) \in 1 .. 100
                      /\ \A i, j \in DOMAIN answer.occurrences :
                             i < j => day(answer.occurrences[i]) < day(answer.occurrences[j])
                      /\ {day(answer.occurrences[i]) : i \in DOMAIN answer.occurrences} = Held
    BY DEF RuleHonoured, Held
  <1>1. PICK s : OnDays(s)
    BY AnsweredOnDays
  <1>2. /\ \A i, j \in 1 .. Len(s) : i < j => s[i] < s[j]
        /\ \A i \in 1 .. Len(s) : s[i] \in Held
        /\ \A d \in Held : \E i \in 1 .. Len(s) : s[i] = d
    <2>1. Lists(s, Held)
      BY <1>1 DEF OnDays
    <2> QED BY <2>1, ListsSeq
  <1>3. /\ DOMAIN answer.occurrences = 1 .. Len(s) /\ Len(answer.occurrences) \in 1 .. 100
        /\ \A i \in 1 .. Len(s) : day(answer.occurrences[i]) = s[i]
    BY <1>1 DEF OnDays
  <1> DEFINE on == [i \in DOMAIN answer.occurrences |-> day(answer.occurrences[i])]
  <1>4. DOMAIN answer.occurrences = 1 .. Len(s) /\ \A i \in 1 .. Len(s) : on[i] = s[i]
    BY <1>3
  <1>5. /\ \A i \in DOMAIN answer.occurrences : day(answer.occurrences[i]) = on[i]
        /\ {day(answer.occurrences[i]) : i \in DOMAIN answer.occurrences}
               = {on[i] : i \in DOMAIN answer.occurrences}
    OBVIOUS
  <1> HIDE DEF on
  <1>6. {on[i] : i \in DOMAIN answer.occurrences} = Held
    BY <1>2, <1>4
  <1>7. \A i, j \in DOMAIN answer.occurrences : i < j => on[i] < on[j]
    BY <1>2, <1>4
  <1>8. \A i, j \in DOMAIN answer.occurrences :
            i < j => day(answer.occurrences[i]) < day(answer.occurrences[j])
    BY <1>5, <1>7
  <1> QED BY <1>3, <1>5, <1>6, <1>8

\* In a zone all of whose days have a midnight, the days of every series that is
\* answered are the days its rule is due on, in order and without a hole, up to
\* the count or the date until, and there are 1 to 100 of them.
THEOREM SeriesFollowRule == Spec => [](HasMidnights(request.in.zone) => RuleHonoured)
  BY PreviewsStand, RuleFollowed, PTL

\* The occurrences of one answer show the clock of the first.
LEMMA ClocksFollowed ==
    Previewed => (/\ HasMidnights(request.in.zone)
                  /\ request.in.allDay => OneMidnight(request.in.zone)
                  => ClockKept)
  <1> DEFINE z == request.in.zone
  <1> SUFFICES ASSUME Previewed, HasMidnights(z), request.in.allDay => OneMidnight(z),
                      Answered("preview"), NEW i \in DOMAIN answer.occurrences
               PROVE  LET o == answer.occurrences[i]
                      IN  IF request.in.allDay
                    THEN /\ o.endDate - o.startDate = times.endDate - times.startDate
                         /\ \A u \in {o.start, o.end} : date(z, u - 1) < date(z, u)
                         /\ date(z, o.start) = o.startDate /\ date(z, o.end) = o.endDate
                    ELSE /\ clock(z, o.start) = clock(z, times.start)
                         /\ clock(z, days[i]) = 0 => local(z, o.start) = o.localStart
                         /\ clock(z, days[i]) = 0 /\ times.end # None =>
                                local(z, o.end) - local(z, o.start)
                                    = local(z, times.end) - local(z, times.start)
    BY DEF ClockKept
  <1>1. InOrder /\ ~ untilInvalid(z, anchor, rule)
    BY AnsweredInOrder
  <1>2. PICK s : OnDays(s)
    BY AnsweredOnDays
  <1> DEFINE o == answer.occurrences[i]
  <1>3. /\ Lists(s, Held) /\ days = mapped(s, midnight(z)) /\ i \in 1 .. Len(s)
        /\ o = occurrencesOf(request.in, times, days)[i] /\ o.error = "none"
    BY <1>2 DEF OnDays
  <1>4. CASE ~ request.in.allDay
    <2>1. /\ clock(z, o.start) = clock(z, times.start)
          /\ local(z, o.start) = o.localStart
          /\ times.end # None => local(z, o.end) - local(z, o.start)
                                     = local(z, times.end) - local(z, times.start)
      <3> HIDE DEF o
      <3> QED BY <1>1, <1>3, <1>4, SeriesOccurrence
    <2> QED BY <1>4, <2>1
  <1>5. CASE request.in.allDay
    <2> DEFINE n == times.endDate - times.startDate
               d == s[i]
    <2>1. /\ d + n \in Dates /\ o.startDate = d /\ o.endDate = d + n
          /\ o.start = dateAtTimezoneMidnight(z, d) /\ o.end = dateAtTimezoneMidnight(z, d + n)
      <3> HIDE DEF o
      <3> QED BY <1>1, <1>3, <1>5, SeriesOccurrence
    <2>2. d \in Dates /\ d \in Int
      BY <1>1, <1>3, SeriesDay
    <2>3. z \in Zones /\ times.startDate \in Int /\ times.endDate \in Int
      BY <1>1, <1>5, SeriesBegins
    <2>4. n \in Int
      BY <2>3
    <2> HIDE DEF n, d, o, z
    <2>5. /\ date(z, o.start) = d /\ date(z, o.end) = d + n
      BY <1>1, <2>1, <2>2, <2>3, MidnightShows DEF InOrder, z
    <2>6. date(z, o.start - 1) < d /\ date(z, o.end - 1) < d + n
      BY <1>1, <1>5, <2>1, <2>2, <2>3, MidnightFirst DEF InOrder, z
    <2>7. o.endDate - o.startDate = n
      BY <2>1, <2>2, <2>4
    <2>8. \A u \in {o.start, o.end} : date(z, u - 1) < date(z, u)
      BY <2>5, <2>6
    <2> QED BY <1>5, <2>1, <2>5, <2>7, <2>8 DEF n, o, z
  <1> QED BY <1>4, <1>5

\* In a zone all of whose days have a midnight, every occurrence of a timed
\* series shows the clock of the first one and lasts as long on the wall; where no
\* day has two midnights, the all-day ones begin and end at the start of their
\* days and span as many.
THEOREM SeriesKeepClock ==
    Spec => [](/\ HasMidnights(request.in.zone)
               /\ request.in.allDay => OneMidnight(request.in.zone)
               => ClockKept)
  BY PreviewsStand, ClocksFollowed, PTL

-----------------------------------------------------------------------------
(* The months of a monthly series.                                          *)

\* What is due before one of the first n is one of them.
LEMMA AmongDown ==
    ASSUME NEW due \in SUBSET Int, IsFiniteSet(due), NEW n \in Nat \cup {None},
           NEW d \in due, NEW e \in among(due, n), d <= e
    PROVE  d \in among(due, n)
  <1> DEFINE before(x) == {y \in due : y < x}
  <1>1. e \in due /\ (n # None => Cardinality(before(e)) < n)
    BY DEF among
  <1>2. before(d) \subseteq before(e) /\ before(e) \subseteq due
    <2>1. d \in Int /\ e \in Int
      BY <1>1
    <2>2. ASSUME NEW y \in due, y < d PROVE y < e
      <3>1. y \in Int
        OBVIOUS
      <3> QED BY <2>1, <2>2, <3>1
    <2> QED BY <2>2
  <1> HIDE DEF before
  <1>3. IsFiniteSet(before(e))
    BY <1>2, FS_Subset
  <1>4. IsFiniteSet(before(d)) /\ Cardinality(before(d)) <= Cardinality(before(e))
    BY <1>2, <1>3, FS_Subset
  <1>5. Cardinality(before(d)) \in Nat /\ Cardinality(before(e)) \in Nat
    BY <1>3, <1>4, FS_CardinalityType
  <1>6. n # None => Cardinality(before(d)) < n
    BY <1>1, <1>4, <1>5
  <1> QED BY <1>6 DEF among, before

\* A month the rule visits has its day, unless it is excluded or comes after the
\* last one held.
LEMMA MonthHeld ==
    ASSUME Previewed, InOrder, ~ untilInvalid(request.in.zone, anchor, rule),
           rule.frequency = "MONTHLY",
           NEW m \in Visited(rule, firstDay), dayOfMonth(firstDay) <= monthLength(m),
           NEW e \in Held, m <= monthOf[e]
    PROVE  LET d == monthStart[m] + dayOfMonth(firstDay) - 1
           IN  monthOf[d] = m /\ (d \in elements(rule.exdates) \/ d \in Held)
  <1> DEFINE z == request.in.zone
             r == rule
             first == firstDay
             k == dayOfMonth(first)
             m0 == monthOf[first]
             last == finalDay(r, first)
             V == Visited(r, first)
             d == monthStart[m] + k - 1
             due == dueDays(first)
  <1>1. Reached(z, first) /\ RuleTyped(r) /\ ~ ruleInvalid(r) /\ last \in first .. yearLater(first)
    BY SeriesBegins, SeriesListed DEF InOrder
  <1>2. {monthStart[x] + k - 1 : x \in {y \in V : k <= monthLength(y)}}
            \cap {y \in Int : y >= first /\ (r.until # None => y <= last)} = daysOn(r, first)
    BY <1>1, MonthlySet
  <1>3. /\ first \in Int /\ k \in 1 .. 31 /\ m0 \in Nat /\ yearLater(first) \in first .. first + 366
        /\ first = monthStart[m0] + k - 1 /\ k <= monthLength(m0) /\ MaxMonth \in Nat
        /\ m0 \in 0 .. MaxMonth - 14
    BY <1>1, YearAhead, CalendarAssumption
  <1>4. due = {x \in daysOn(r, first) : x \notin elements(r.exdates)}
    BY DueIs
  <1>5. e \in among(due, r.count) /\ e \in due
    BY DEF Held, among
  <1>6. due \in SUBSET Int /\ IsFiniteSet(due)
    <2>1. due \subseteq first .. last
      BY <1>4 DEF daysOn
    <2> HIDE DEF due, first, last, k
    <2>2. first .. last \subseteq Int /\ IsFiniteSet(first .. last)
      BY <1>1, <1>3, FS_Interval
    <2> QED BY <2>1, <2>2, FS_Subset
  <1>7. r.count \in Nat \cup {None}
    <2>1. r.count = None \/ r.count \in 1 .. 100
      BY <1>1 DEF ruleInvalid
    <2> QED BY <2>1
  <1> HIDE DEF z, first, k, m0, last, V, due, r
  <1>8. ASSUME NEW x \in m0 .. m0 + 12, k <= monthLength(x)
        PROVE  /\ x \in 0 .. MaxMonth /\ x \in Nat /\ x + 1 \in 0 .. MaxMonth
               /\ monthStart[x] \in Nat /\ monthStart[x + 1] \in Nat
               /\ monthOf[monthStart[x] + k - 1] = x
    <2>1. /\ x \in 0 .. MaxMonth /\ x \in Nat /\ monthStart[x] \in Nat /\ monthLength(x) \in 28 .. 31
          /\ x + 1 \in 0 .. MaxMonth
      BY <1>1, SeriesMonths DEF m0
    <2>2. k \in 1 .. monthLength(x)
      BY <1>3, <1>8, <2>1
    <2>3. monthOf[monthStart[x] + k - 1] = x
      BY <1>1, <2>2, DayInMonth DEF m0
    <2> QED BY <2>1, <2>3, MonthStarts
  <1>9. ASSUME NEW x \in m0 .. m0 + 12, NEW y \in m0 .. m0 + 12, x <= y,
               k <= monthLength(x), k <= monthLength(y)
        PROVE  monthStart[x] + k - 1 <= monthStart[y] + k - 1
    <2>1. /\ x \in 0 .. MaxMonth /\ y \in 0 .. MaxMonth /\ x \in Nat /\ y \in Nat
          /\ monthStart[x] \in Nat /\ monthStart[y] \in Nat /\ monthStart[x + 1] \in Nat
      BY <1>8, <1>9
    <2>2. CASE x = y
      BY <1>3, <2>1, <2>2
    <2>3. CASE x < y
      <3>1. monthStart[x] + 28 <= monthStart[x + 1] /\ monthStart[x + 1] <= monthStart[y]
        BY <2>1, <2>3, MonthsOrdered
      <3> QED BY <1>3, <2>1, <3>1
    <2> QED BY <1>9, <2>1, <2>2, <2>3
  <1>10. \A x \in V : x \in m0 .. m0 + 12
    BY DEF V, Visited, m0, first
  <1>11. m \in V /\ m \in m0 .. m0 + 12 /\ k <= monthLength(m)
    BY <1>10 DEF V, r, first, k
  <1>12. PICK x \in V : k <= monthLength(x) /\ e = monthStart[x] + k - 1
    <2>1. e \in daysOn(r, first)
      BY <1>4, <1>5
    <2> QED BY <1>2, <2>1
  <1>13. x \in m0 .. m0 + 12 /\ monthOf[e] = x
    BY <1>8, <1>10, <1>12
  <1>14. d <= e
    BY <1>9, <1>11, <1>12, <1>13
  <1>15. d \in Int /\ first <= d
    <2>1. m0 \in m0 .. m0 + 12 /\ m0 <= m
      BY <1>3, <1>11
    <2>2. monthStart[m0] + k - 1 <= d
      BY <1>3, <1>9, <1>11, <2>1
    <2>3. monthStart[m] \in Nat
      BY <1>8, <1>11
    <2> QED BY <1>3, <2>2, <2>3
  <1>16. e <= last /\ e \in Int /\ last \in Int
    <2>1. e \in first .. last
      BY <1>4, <1>5 DEF daysOn, last
    <2> QED BY <1>1, <1>3, <2>1
  <1>17. d \in daysOn(r, first)
    <2>1. d >= first /\ d <= last
      BY <1>3, <1>14, <1>15, <1>16
    <2> QED BY <1>2, <1>11, <1>15, <2>1
  <1>18. monthOf[d] = m
    BY <1>8, <1>11
  <1> HIDE DEF d
  <1>19. d \notin elements(r.exdates) => d \in among(due, r.count)
    <2> SUFFICES ASSUME d \notin elements(r.exdates) PROVE d \in among(due, r.count)
      OBVIOUS
    <2>1. d \in due
      BY <1>4, <1>17
    <2> QED BY <1>5, <1>6, <1>7, <1>14, <2>1, AmongDown
  <1> QED BY <1>18, <1>19 DEF d, due, r, first, Held, k

\* The months of one answer.
LEMMA MonthsFollowed == Previewed => (HasMidnights(request.in.zone) => MonthsAccounted)
  <1> DEFINE months(D) == {monthOf[d] : d \in D}
             first == firstDay
             r == rule
             m0 == monthOf[first]
             k == dayOfMonth(first)
             V == Visited(r, first)
             X == elements(r.exdates)
             skipped == elements(answer.skipped)
             held == {day(answer.occurrences[i]) : i \in DOMAIN answer.occurrences}
             z == request.in.zone
  <1> SUFFICES ASSUME Previewed, HasMidnights(z), Answered("preview"), r.frequency = "MONTHLY"
               PROVE  /\ \A m \in m0 .. latest(months(held)) :
                             (m - m0) % r.interval = 0 =>
                                 m \in months(held) \cup months(skipped) \cup months(X)
                      /\ \A m \in months(skipped) : monthLength(m) < k
    BY DEF MonthsAccounted
  <1>1. InOrder /\ ~ untilInvalid(z, anchor, r)
    BY AnsweredInOrder
  <1> DEFINE last == finalDay(r, first)
  <1>2. /\ Reached(z, first) /\ RuleTyped(r) /\ ~ ruleInvalid(r)
        /\ last \in first .. yearLater(first)
    BY <1>1, SeriesBegins, SeriesListed DEF InOrder
  <1>3. PICK s : OnDays(s)
    BY AnsweredOnDays
  <1>4. held = Held
    BY RuleFollowed DEF RuleHonoured, Held
  <1> DEFINE dl == s[Len(s)]
             U == {x \in V : monthLength(x) < k}
             E == {monthStart[x + 1] - 1 : x \in U}
  <1>5. /\ dl \in Held /\ \A d \in Held : d \in Int /\ d <= dl
    <2>1. Lists(s, Held) /\ Len(s) \in 1 .. 100
      BY <1>3 DEF OnDays
    <2>2. /\ \A i \in 1 .. Len(s) : s[i] \in Held
          /\ \A i, j \in 1 .. Len(s) : i < j => s[i] < s[j]
          /\ \A d \in Held : \E i \in 1 .. Len(s) : s[i] = d
      BY <2>1, ListsSeq
    <2>3. \A i \in 1 .. Len(s) : s[i] \in Int
      <3>1. Lists(s, Held) /\ days = mapped(s, midnight(request.in.zone))
        BY <1>3 DEF OnDays
      <3>2. ~ untilInvalid(request.in.zone, anchor, rule)
        BY <1>1
      <3>3. ASSUME NEW i \in 1 .. Len(s) PROVE s[i] \in Int
        BY <1>1, <3>1, <3>2, SeriesDay
      <3> QED BY <3>3
    <2>4. Len(s) \in 1 .. Len(s)
      <3>1. \A n \in 1 .. 100 : n \in 1 .. n
        OBVIOUS
      <3> QED BY <2>1, <3>1
    <2>5. ASSUME NEW d \in Held PROVE d \in Int /\ d <= dl
      <3>1. PICK i \in 1 .. Len(s) : s[i] = d
        BY <2>2
      <3>2. CASE i = Len(s)
        BY <2>3, <3>1, <3>2
      <3>3. CASE i # Len(s)
        <4>1. i < Len(s)
          BY <2>1, <3>3
        <4>2. s[i] < s[Len(s)]
          BY <2>2, <2>4, <4>1
        <4> QED BY <2>3, <2>4, <3>1, <4>2
      <3> QED BY <3>2, <3>3
    <2> QED BY <2>2, <2>4, <2>5
  <1>6. skipped = {e \in E : e <= dl}
    <2>1. Lists(missingDays, E)
      BY <1>2, SkippedDays DEF missingDays
    <2>2. E \in SUBSET Int
      <3>1. ASSUME NEW x \in U PROVE monthStart[x + 1] - 1 \in Int
        <4>1. x \in m0 .. m0 + 12
          BY DEF Visited
        <4> HIDE DEF U
        <4>2. monthStart[x + 1] \in Nat
          BY <1>2, <4>1, SeriesMonths, MonthStarts
        <4> QED BY <4>2
      <3> HIDE DEF U
      <3> QED BY <3>1
    <2> DEFINE K == {e \in elements(missingDays) : e <= dl}
    <2>3. answer.skipped = keep(missingDays, K)
      BY <1>3 DEF OnDays
    <2> HIDE DEF E
    <2>4. elements(missingDays) = E
      BY <2>1, ListsSeq
    <2>5. E \cap K = {e \in E : e <= dl}
      BY <2>4
    <2> HIDE DEF K, dl
    <2>6. Lists(keep(missingDays, K), E \cap K)
      BY <2>1, <2>2, KeepLists
    <2>7. elements(keep(missingDays, K)) = E \cap K
      BY <2>6, ListsSeq
    <2> QED BY <2>3, <2>5, <2>7
  <1>7. ASSUME NEW x \in m0 .. m0 + 12
        PROVE  /\ x \in Nat /\ x \in 0 .. MaxMonth /\ x + 1 \in 0 .. MaxMonth
               /\ monthStart[x] \in Nat /\ monthStart[x + 1] \in Nat
               /\ monthLength(x) \in 28 .. 31
               /\ monthOf[monthStart[x + 1] - 1] = x
    <2> HIDE DEF first, r, last, z
    <2>1. /\ x \in Nat /\ x \in 0 .. MaxMonth /\ x + 1 \in 0 .. MaxMonth
          /\ monthStart[x] \in Nat /\ monthStart[x + 1] = monthStart[x] + monthLength(x)
          /\ monthLength(x) \in 28 .. 31
      BY <1>2, SeriesMonths
    <2> DEFINE l == monthLength(x)
    <2>2. l \in 1 .. monthLength(x)
      BY <2>1
    <2>3. monthStart[x] + l - 1 = monthStart[x + 1] - 1
      BY <2>1
    <2> HIDE DEF l
    <2>4. monthOf[monthStart[x] + l - 1] = x
      BY <1>2, <2>2, DayInMonth
    <2> QED BY <2>1, <2>3, <2>4, MonthStarts
  <1>8. \A x \in V : x \in m0 .. m0 + 12 /\ (x - m0) % r.interval = 0 /\ monthStart[x] <= last
    BY DEF Visited
  <1>9. m0 \in Nat /\ k \in 1 .. 31 /\ first \in Int /\ yearLater(first) \in first .. first + 366
    BY <1>2, YearAhead
  <1>10. last \in Int
    <2> HIDE DEF last, first
    <2> QED BY <1>2, <1>9
  <1> HIDE DEF first, r, m0, k, V, last, dl, z, skipped
  <1>11. ASSUME NEW d \in Held
         PROVE  /\ monthOf[d] \in V /\ k <= monthLength(monthOf[d])
                /\ d = monthStart[monthOf[d]] + k - 1
    <2>1. d \in daysOn(r, first)
      BY DueIs DEF Held, among, r, first
    <2>2. PICK x \in V : k <= monthLength(x) /\ d = monthStart[x] + k - 1
      <3>1. {monthStart[x] + k - 1 : x \in {y \in V : k <= monthLength(y)}}
                \cap {y \in Int : y >= first /\ (r.until # None => y <= last)} = daysOn(r, first)
        BY <1>2, MonthlySet DEF k, V, last
      <3> QED BY <2>1, <3>1
    <2>3. k \in 1 .. monthLength(x) /\ x \in m0 .. m0 + 12
      BY <1>7, <1>8, <1>9, <2>2
    <2>4. monthOf[d] = x
      BY <1>2, <2>2, <2>3, DayInMonth DEF m0
    <2> QED BY <2>2, <2>4
  <1>12. latest(months(Held)) \in months(Held)
    <2> DEFINE S == months(Held)
    <2>1. S \in SUBSET (m0 .. m0 + 12) /\ S # {}
      BY <1>5, <1>8, <1>11
    <2> DEFINE hi == m0 + 12
    <2>2. m0 \in Int /\ hi \in Int /\ S \in SUBSET (m0 .. hi)
      BY <1>9, <2>1
    <2> HIDE DEF S, hi
    <2>3. latest(S) \in S
      BY <2>1, <2>2, Extremes
    <2> QED BY <2>3 DEF S
  <1>13. PICK e \in Held : monthOf[e] = latest(months(Held))
    BY <1>12
  <1> DEFINE ml == monthOf[e]
  <1>14. /\ ml \in V /\ ml \in m0 .. m0 + 12 /\ k <= monthLength(ml) /\ monthStart[ml] <= last
         /\ e = monthStart[ml] + k - 1 /\ e \in Int /\ e <= dl
    BY <1>5, <1>8, <1>11
  <1> HIDE DEF ml
  <1>15. ASSUME NEW m \in m0 .. ml, (m - m0) % r.interval = 0
         PROVE  m \in months(Held) \cup months(skipped) \cup months(X)
    <2>1. m \in m0 .. m0 + 12 /\ ml \in Nat /\ m <= ml
      BY <1>9, <1>14
    <2>2. /\ m \in Nat /\ m \in 0 .. MaxMonth /\ m + 1 \in 0 .. MaxMonth
          /\ monthStart[m] \in Nat /\ monthStart[m + 1] \in Nat
          /\ monthLength(m) \in 28 .. 31
          /\ monthOf[monthStart[m + 1] - 1] = m
          /\ ml \in 0 .. MaxMonth /\ monthStart[ml] \in Nat /\ monthLength(ml) \in 28 .. 31
      BY <1>7, <1>14, <2>1
    <2>3. m # ml => monthStart[m] + 28 <= monthStart[m + 1] /\ monthStart[m + 1] <= monthStart[ml]
      BY <2>1, <2>2, MonthsOrdered
    <2>4. monthStart[m] <= last
      BY <1>10, <1>14, <2>2, <2>3
    <2>5. m \in V
      BY <1>15, <2>1, <2>4 DEF V, Visited, m0, last
    <2>6. CASE k <= monthLength(m)
      <3> DEFINE d == monthStart[m] + k - 1
      <3>1. monthOf[d] = m /\ (d \in X \/ d \in Held)
        <4>1. m <= monthOf[e]
          BY <2>1 DEF ml
        <4> QED BY <1>1, <2>5, <2>6, <4>1, MonthHeld DEF V, r, first, k, z
      <3> HIDE DEF d, X
      <3> QED BY <3>1
    <2>7. CASE ~ (k <= monthLength(m))
      <3> DEFINE d == monthStart[m + 1] - 1
      <3>1. m # ml /\ monthLength(m) < k
        BY <1>9, <1>14, <2>2, <2>7
      <3>2. d <= dl
        <4>1. dl \in Int
          BY <1>5
        <4> QED BY <1>9, <1>14, <2>2, <2>3, <3>1, <4>1
      <3>3. d \in E
        BY <2>5, <3>1
      <3>4. d \in skipped
        <4> HIDE DEF d, E
        <4> QED BY <1>6, <3>2, <3>3
      <3>5. monthOf[d] = m
        BY <2>2
      <3> HIDE DEF d
      <3> QED BY <3>4, <3>5
    <2> QED BY <2>6, <2>7
  <1>16. ASSUME NEW m \in months(skipped) PROVE monthLength(m) < k
    <2>1. PICK d \in skipped : m = monthOf[d]
      OBVIOUS
    <2>2. PICK x \in U : d = monthStart[x + 1] - 1
      BY <1>6
    <2>3. x \in m0 .. m0 + 12 /\ monthLength(x) < k
      BY <1>8
    <2>4. monthOf[d] = x
      BY <1>7, <2>2, <2>3
    <2> QED BY <2>1, <2>3, <2>4
  <1> HIDE DEF months, X, held
  <1> QED BY <1>4, <1>13, <1>15, <1>16 DEF ml

\* In a zone all of whose days have a midnight, every month a monthly rule visits
\* up to the last occurrence has an occurrence, an excluded date, or an entry in
\* skipped, and the months reported as skipped lack the day.
THEOREM MonthsAreAccounted == Spec => [](HasMidnights(request.in.zone) => MonthsAccounted)
  BY PreviewsStand, MonthsFollowed, PTL

-----------------------------------------------------------------------------
(* The series that are refused.                                             *)

\* There are as many wall times as days.
LEMMA StartsCounted ==
    ASSUME NEW D \in SUBSET Int, NEW s, Lists(s, D), NEW c \in Int
    PROVE  Cardinality({d * Day + c : d \in D}) = Len(s)
  <1> DEFINE f == [d \in D |-> d * Day + c]
             E == {f[d] : d \in D}
  <1>1. Day \in Nat \ {0}
    BY ZonesAssumption DEF Day
  <1>2. ASSUME NEW d \in D PROVE f[d] = d * Day + c /\ d * Day \in Int /\ f[d] \in Int
    <2>1. d * Day \in Int
      BY <1>1
    <2> QED BY <2>1
  <1>3. ASSUME NEW d \in D, NEW e \in D, d < e PROVE f[d] < f[e]
    <2> DEFINE n == Day
    <2>1. n \in Nat \ {0} /\ d \in Int /\ e \in Int
      BY <1>1
    <2> HIDE DEF n
    <2>2. d * n + n <= e * n
      BY <1>3, <2>1, DayOrder
    <2>3. d * Day < e * Day
      BY <1>2, <2>1, <2>2 DEF n
    <2> HIDE DEF f
    <2> QED BY <1>2, <2>3
  <1>4. E = {d * Day + c : d \in D}
    <2> HIDE DEF f
    <2> QED BY <1>2
  <1>5. E \in SUBSET Int
    <2> HIDE DEF f
    <2> QED BY <1>2
  <1> HIDE DEF f
  <1>6. Lists(mapped(s, f), E)
    BY <1>3, MappedLists
  <1>7. Len(mapped(s, f)) = Len(s)
    <2>1. Len(s) \in Nat
      BY ListsSeq
    <2> QED BY <2>1 DEF mapped
  <1> HIDE DEF E
  <1>8. Cardinality(E) = Len(mapped(s, f))
    BY <1>5, <1>6, ListsCount
  <1> QED BY <1>4, <1>7, <1>8

\* The reason of one refusal.
LEMMA RefusalsFollowed == Previewed => (HasMidnights(request.in.zone) => RefusalJustified)
  <1> DEFINE in == request.in
             z == in.zone
             c == clock(z, times.start)
             lasts == IF times.end = None THEN 0 ELSE local(z, times.end) - local(z, times.start)
             starts == {d * Day + c : d \in Held}
             ends == IF lasts = 0 THEN {} ELSE {w + lasts : w \in starts}
             reason ==
                CASE answer.error = "nonexistent" -> \E w \in starts \cup ends : instants(z, w) = {}
                  [] answer.error = "ambiguous" ->
                        \/ in.startFold = "" /\ \E w \in starts : ~ single(instants(z, w))
                        \/ in.endFold = "" /\ \E w \in ends : ~ single(instants(z, w))
                  [] answer.error = "size" -> Cardinality(starts) \notin 1 .. 100
                  [] answer.error = "invalid" ->
                        \E w \in ends : \E u \in instants(z, w - lasts), v \in instants(z, w) : v <= u
  <1> SUFFICES ASSUME Previewed, HasMidnights(z), request # None, request.op = "preview",
                      answer.error # "none",
                      ~ (\/ times.error # "none" \/ ruleInvalid(rule)
                         \/ timesInvalid(z, times, in.allDay)
                         \/ rule.until # None /\ rule.until \notin firstDay .. yearLater(firstDay))
               PROVE  reason
    BY DEF RefusalJustified, Held
  <1>1. InOrder
    BY DEF InOrder
  <1>2. ~ untilInvalid(z, anchor, rule)
    BY <1>1, SeriesListed
  <1>3. PICK s : ListsSeries(s)
    BY <1>1, <1>2, SeriesAnswered
  <1> DEFINE occs == occurrencesOf(in, times, days)
  <1>4. /\ Lists(s, Held) /\ Len(s) \in Nat /\ days = mapped(s, midnight(z))
        /\ DOMAIN occs = 1 .. Len(s) /\ Len(occs) = Len(s)
        /\ SeriesMade(answer, occs, missingDays)
    BY <1>3 DEF ListsSeries
  <1>5. ASSUME NEW i \in 1 .. Len(s)
        PROVE  /\ s[i] \in Held /\ s[i] \in Int /\ days[i] = dateAtTimezoneMidnight(z, s[i])
               /\ local(z, days[i]) = s[i] * Day /\ date(z, days[i]) = s[i]
               /\ c \in Int
               /\ s[i] * Day + c \in Walls
               /\ s[i] * Day + c + wallDuration(z, times, in.allDay) \in Walls
    <2>1. /\ s[i] \in Held /\ s[i] \in Int /\ days[i] = dateAtTimezoneMidnight(z, s[i])
          /\ local(z, days[i]) = s[i] * Day /\ date(z, days[i]) = s[i]
          /\ c \in 0 .. Day - 1
          /\ s[i] * Day + c \in Walls
          /\ s[i] * Day + c + wallDuration(z, times, in.allDay) \in Walls
      BY <1>1, <1>2, <1>4, SeriesDay
    <2>2. Day \in Int
      BY ZonesAssumption DEF Day
    <2> HIDE DEF c
    <2>3. c \in Int
      BY <2>1, <2>2
    <2> QED BY <2>1, <2>3
  <1>6. CASE /\ answer.error = "size" /\ Len(occs) \notin 1 .. 100
    <2>1. c \in Int
      <3>1. local(z, times.start) \in Int /\ Day \in Nat \ {0}
        <4>1. z \in Zones /\ times.start \in From .. To
          BY <1>1, SeriesBegins
        <4>2. Day \in Nat \ {0}
          BY ZonesAssumption DEF Day
        <4> HIDE DEF z
        <4>3. local(z, times.start) \in Int
          BY <4>1, ClocksShow
        <4> QED BY <4>2, <4>3
      <3>2. \A x \in Int : \A n \in Nat \ {0} : x % n \in Int
        OBVIOUS
      <3> QED BY <3>1, <3>2 DEF clock
    <2>2. Held \in SUBSET Int
      <3>1. \A d \in Held : \E i \in 1 .. Len(s) : s[i] = d
        BY <1>4, ListsSeq
      <3> HIDE DEF z, in, c
      <3> QED BY <1>5, <3>1
    <2> HIDE DEF c, occs
    <2>3. Cardinality(starts) = Len(s)
      BY <1>4, <2>1, <2>2, StartsCounted
    <2> HIDE DEF starts, ends
    <2> QED BY <1>4, <1>6, <2>3
  <1>7. ASSUME NEW i \in DOMAIN occs, answer.error = occs[i].error PROVE reason
    <2> DEFINE wall == s[i] * Day + c
               endWall == local(z, days[i]) + c + local(z, times.end) - local(z, times.start)
               o == timedOccurrence(z, times, days[i], in.startFold, in.endFold)
    <2>1. i \in 1 .. Len(s) /\ i \in DOMAIN days
      BY <1>4, <1>7 DEF occurrencesOf
    <2>2. ~ in.allDay
      <3> SUFFICES ASSUME in.allDay PROVE FALSE
        OBVIOUS
      <3>1. occs[i] = allDayOccurrence(z, times, days[i])
        BY <2>1 DEF occurrencesOf
      <3>2. allDayOccurrence(z, times, days[i]).error = "none"
        BY DEF allDayOccurrence, Occurrence
      <3> QED BY <1>7, <3>1, <3>2
    <2>3. answer.error = o.error
      <3>1. occs[i] = o
        BY <2>1, <2>2 DEF occurrencesOf
      <3> QED BY <1>7, <3>1
    <2>4. /\ z \in Zones /\ in.startFold \in Folds /\ in.endFold \in Folds
          /\ times.start \in From .. To /\ times.end \in (From .. To) \cup {None}
          /\ times.end # None => /\ wallDuration(z, times, in.allDay) = lasts /\ lasts > 0
      BY <1>1, <2>2, SeriesBegins
    <2>5. local(z, times.start) \in Int /\ (times.end # None => local(z, times.end) \in Int)
      BY <2>4, ClocksShow
    <2>6. /\ s[i] \in Held /\ s[i] \in Int /\ local(z, days[i]) = s[i] * Day
          /\ date(z, days[i]) = s[i] /\ c \in Int /\ wall \in Walls /\ wall \in Int
          /\ wall + wallDuration(z, times, in.allDay) \in Walls
      <3>1. /\ s[i] \in Held /\ s[i] \in Int /\ local(z, days[i]) = s[i] * Day
            /\ date(z, days[i]) = s[i] /\ c \in Int /\ wall \in Walls
            /\ wall + wallDuration(z, times, in.allDay) \in Walls
        BY <1>5, <2>1
      <3>2. \A w \in Walls : w \in Int
        BY ZonesAssumption DEF Walls
      <3> QED BY <3>1, <3>2
    <2>7. wall \in starts
      BY <2>6
    <2>8. wall = date(z, days[i]) * Day + clock(z, times.start)
      BY <2>6
    <2>9. times.end # None => /\ endWall = wall + lasts /\ endWall \in Walls
                              /\ endWall \in ends /\ endWall - lasts = wall
      <3> SUFFICES ASSUME times.end # None
                   PROVE  /\ endWall = wall + lasts /\ endWall \in Walls
                          /\ endWall \in ends /\ endWall - lasts = wall
        OBVIOUS
      <3>1. lasts = local(z, times.end) - local(z, times.start) /\ lasts \in Int /\ lasts # 0
        BY <2>4, <2>5
      <3>2. endWall = wall + local(z, times.end) - local(z, times.start)
        BY <2>6
      <3> HIDE DEF wall, endWall, c, lasts
      <3>3. endWall = wall + lasts /\ endWall - lasts = wall
        BY <2>5, <2>6, <3>1, <3>2
      <3>4. endWall \in Walls
        BY <2>4, <2>6, <3>3
      <3> HIDE DEF starts
      <3>5. endWall \in ends
        BY <2>7, <3>1, <3>3
      <3> QED BY <3>3, <3>4, <3>5
    <2> DEFINE I == instants(z, wall)
               J == instants(z, endWall)
    <2>10. FailsFor(o, times, I, J, in.startFold, in.endFold)
      <3>1. /\ wall \in Walls /\ wall = date(z, days[i]) * Day + clock(z, times.start)
            /\ times.end # None => endWall \in Walls
            /\ endWall = local(z, days[i]) + clock(z, times.start)
                             + local(z, times.end) - local(z, times.start)
        BY <2>6, <2>8, <2>9
      <3>2. z \in Zones /\ in.startFold \in Folds /\ in.endFold \in Folds
        BY <2>4
      <3> HIDE DEF wall, endWall, z, in, c, lasts
      <3> QED BY <3>1, <3>2, OccurrenceFails
    <2> HIDE DEF wall, endWall, o, starts, ends, lasts, c, z, in
    <2>11. CASE o.error = "nonexistent"
      <3>1. \E w \in starts \cup ends : instants(z, w) = {}
        BY <2>7, <2>9, <2>10, <2>11 DEF FailsFor
      <3> QED BY <2>3, <2>11, <3>1
    <2>12. CASE o.error = "ambiguous"
      <3>1. \/ in.startFold = "" /\ \E w \in starts : ~ single(instants(z, w))
            \/ in.endFold = "" /\ \E w \in ends : ~ single(instants(z, w))
        BY <2>7, <2>9, <2>10, <2>12 DEF FailsFor
      <3> QED BY <2>3, <2>12, <3>1
    <2>13. CASE o.error = "invalid"
      <3>1. \E w \in ends : \E u \in instants(z, w - lasts), v \in instants(z, w) : v <= u
        BY <2>7, <2>9, <2>10, <2>13 DEF FailsFor
      <3> QED BY <2>3, <2>13, <3>1
    <2> QED BY <2>3, <2>10, <2>11, <2>12, <2>13 DEF FailsFor
  <1> HIDE DEF reason, occs
  <1> QED BY <1>4, <1>6, <1>7 DEF SeriesMade

\* In a zone all of whose days have a midnight, a series is refused only for a
\* reason in its fields or in the days it asks for: a wall time that does not
\* exist, or exists twice and no fold is chosen, an end that is not after the
\* start, no occurrence at all, or more than 100.
THEOREM RefusalsAreJustified == Spec => [](HasMidnights(request.in.zone) => RefusalJustified)
  BY PreviewsStand, RefusalsFollowed, PTL
=============================================================================
