---------------------------- MODULE MCRecurrence ----------------------------
(* Zones and requests for TLC: one tick is an hour, day 0 is 1 January 2027. *)
EXTENDS Recurrence

MCFrom == -96
MCTo == 1100 * 24

\* A zone that is base hours ahead, and one more in each of the periods.
Zone(base, summers) ==
    [u \in MCFrom .. MCTo |->
        IF \E s \in summers : s[1] <= u /\ u < s[2] THEN base + 1 ELSE base]

\* Seoul; New York, with a gap from 2 to 3 and a fold from 1 to 2; Beirut, where
\* the gap is from 0 to 1; all in 2027 to 2029.
MCOffset ==
    [seoul   |-> Zone(9, {}),
     newYork |-> Zone(-5, {<<72 * 24 + 7, 310 * 24 + 6>>, <<436 * 24 + 7, 674 * 24 + 6>>,
                           <<800 * 24 + 7, 1038 * 24 + 6>>}),
     beirut  |-> Zone(2, {<<86 * 24 - 2, 303 * 24 - 3>>, <<450 * 24 - 2, 667 * 24 - 3>>,
                          <<814 * 24 - 2, 1031 * 24 - 3>>})]

\* Santiago, west of Greenwich, where the gap is from 0 to 1 too.
MCOffsetWest ==
    [santiago |-> Zone(-4, {<<-96, 93 * 24 + 3>>, <<247 * 24 + 4, 457 * 24 + 3>>,
                            <<611 * 24 + 4, 821 * 24 + 3>>})]

MCZones == DOMAIN MCOffset
MCZonesWest == DOMAIN MCOffsetWest

\* The zones whose series are proved to follow their rule, and the others: in
\* Beirut and Santiago a day begins at one o'clock.
ASSUME MidnightsOf ==
    {z \in Zones : HasMidnights(z) /\ OneMidnight(z)} = Zones \cap {"seoul", "newYork"}

Blank == [zone |-> None, allDay |-> FALSE, startAt |-> None, endAt |-> None,
          localStartAt |-> None, localEndAt |-> None, startDate |-> None, endDate |-> None,
          startFold |-> "", endFold |-> "", recurrence |-> None]

\* Around the changes of both zones, at the hours that are missing or doubled.
Walls2028 ==
    {d * 24 + h : d \in {436, 450, 674}, h \in {0, 1, 2, 3}} \cup {666 * 24 + 23, 667 * 24}

Single ==
    {[Blank EXCEPT !.zone = z, !.localStartAt = w, !.startFold = f] :
        z \in MCZones, w \in Walls2028, f \in Folds}
    \cup
    {[Blank EXCEPT !.zone = z, !.localStartAt = w - 1, !.localEndAt = w, !.endFold = f] :
        z \in MCZones, w \in Walls2028, f \in Folds}
    \cup
    {[Blank EXCEPT !.zone = z, !.allDay = a, !.startAt = u, !.endAt = e] :
        z \in MCZones, a \in BOOLEAN, u \in {449 * 24 + 21, 450 * 24}, e \in {None, 450 * 24 - 1, 452 * 24}}
    \cup
    {[Blank EXCEPT !.zone = z, !.allDay = TRUE, !.startDate = d, !.endDate = e] :
        z \in MCZones, d \in {449, 450}, e \in {None, 450, 451}}

Rule(f, i, c, u, w, x) ==
    [frequency |-> f, interval |-> i, count |-> c, until |-> u, weekdays |-> w, exdates |-> x]

\* 31 January and 29 February 2028, and the days before the changes.
Firsts == {395, 424, 434, 448, 672}

Rules(d) ==
    {Rule("DAILY", i, c, None, <<>>, x) : i \in {1, 3}, c \in {1, 4}, x \in {<<>>, <<d, d + 3>>}}
    \cup {Rule("DAILY", i, None, d + n, <<>>, <<>>) : i \in {1, 30}, n \in {-1, 0, 99, 100, 366, 367}}
    \cup {Rule("WEEKLY", i, 4, None, w, <<>>) : i \in {1, 2}, w \in {<<>>, <<0, 6>>, <<6>>}}
    \cup {Rule("MONTHLY", i, c, None, <<>>, x) : i \in {1, 2, 13}, c \in {3, 100}, x \in {<<>>, <<d>>}}
    \cup {Rule("MONTHLY", 1, None, d + n, <<>>, <<>>) : n \in {0, 31, 366}}

\* Hour of the start, hours it lasts, fold.
Shapes == {<<1, None, "">>, <<1, None, "later">>, <<1, 2, "later">>, <<2, 1, "">>}

Timed(z, d, s, r) ==
    [Blank EXCEPT !.zone = z, !.localStartAt = d * 24 + s[1],
                  !.localEndAt = IF s[2] = None THEN None ELSE d * 24 + s[1] + s[2],
                  !.startFold = s[3], !.endFold = s[3], !.recurrence = r]

AllDay(z, d, r) ==
    [Blank EXCEPT !.zone = z, !.allDay = TRUE, !.startDate = d, !.endDate = d + 2,
                  !.recurrence = r]

Series ==
    UNION {{Timed(z, d, s, r) : s \in Shapes, r \in Rules(d)} \cup {AllDay(z, d, r) : r \in Rules(d)} :
              d \in Firsts, z \in {"newYork", "beirut"}}

MCRequests == Single \cup Series

\* Every day until a date around the change in Santiago.
MCRequestsWest ==
    {[Blank EXCEPT !.zone = "santiago", !.localStartAt = 244 * 24 + 10,
                   !.recurrence = Rule("DAILY", 1, None, u, <<>>, <<>>)] : u \in 245 .. 360}

Span(s, e) == Times(s, e, None, None)

\* The selected occurrence moves across a change, a later one follows.
MCMoves ==
    {[zone |-> z, newZone |-> y, allDay |-> FALSE, startFold |-> f, endFold |-> f,
      old |-> Span(430 * 24, 430 * 24 + 1), new |-> Span(n, n + 1), other |-> Span(o, o + 1)] :
        z \in MCZones, y \in MCZones, f \in {"", "later"},
        n \in {430 * 24 + 1, 437 * 24 + 2, 451 * 24 - 1}, o \in {435 * 24 + 5, 449 * 24, 673 * 24 + 4}}
    \cup
    {[zone |-> z, newZone |-> z, allDay |-> TRUE, startFold |-> "", endFold |-> "",
      old |-> Times(o * 24, (o + 1) * 24, o, o + 1), new |-> Times(n * 24, (n + 2) * 24, n, n + 2),
      other |-> Times(x * 24, (x + 1) * 24, x, x + 1)] :
        z \in MCZones, o \in {430}, n \in {429, 436}, x \in {435, 444, 449}}
=============================================================================
