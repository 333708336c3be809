---------------------------- MODULE MCListPaging ----------------------------
(* Two zones with a fixed offset, one tick an hour, and schedules of both.  *)
EXTENDS ListPaging

MCFrom == -24
MCTo == 120
MCOffset == [east |-> [u \in MCFrom .. MCTo |-> 9], west |-> [u \in MCFrom .. MCTo |-> -5]]
MCZones == DOMAIN MCOffset

Content(from, to, status) ==
    [start |-> from, end |-> to, allDay |-> FALSE, startDate |-> None, endDate |-> None,
     status |-> status, words |-> {}]

\* All day in the western zone.
WholeDay(d) ==
    [start |-> dateAtTimezoneMidnight("west", d), end |-> dateAtTimezoneMidnight("west", d + 1),
     allDay |-> TRUE, startDate |-> d, endDate |-> d + 1, status |-> "confirmed", words |-> {}]

\* Two that start together, one of them without an end, and two whole days, the
\* second of which starts after the range does end.
MCContents == {Content(29, 31, "tentative"), Content(29, None, "confirmed"), WholeDay(1), WholeDay(2)}

\* From the start of day 1 to noon of day 2 in the eastern zone.
MCFilters ==
    {[zone |-> "east", from |-> 15, to |-> 51, status |-> s, query |-> None] :
        s \in {None, "confirmed"}}
=============================================================================
