----------------------------- MODULE ListPaging -----------------------------
(***************************************************************************)
(* A user's schedules listed page by page while they change: ListSchedules *)
(* of internal/api/schedules.go, ListSchedulesPage of the service and its  *)
(* query, and ExportSchedulesICS, which reads one page of at most          *)
(* MaxExport schedules.  Each page is a query of its own; only the cursor  *)
(* of the page before connects them.                                       *)
(***************************************************************************)
EXTENDS LocalTime, FiniteSets

CONSTANTS
    Ids,        \* ids of schedules, ordered as their bytes are
    Contents,   \* what a schedule may hold: times, status and words
    Filters,    \* from, to, zone, status and query of a listing
    Limits,     \* page sizes
    MaxExport   \* maxICSExportEvents

ASSUME ListingAssumption ==
    /\ Ids \subseteq Nat /\ IsFiniteSet(Ids)
    /\ Limits \subseteq Nat \ {0} /\ MaxExport \in Nat \ {0}
    /\ None \notin Contents
    /\ None \notin [start : Int, id : Nat, filter : Filters]
    /\ \A c \in Contents : c.start \in Int
    /\ \A f \in Filters : f.from \in Int /\ f.to \in Int

VARIABLES
    rows,      \* the user's schedules: the content of each id, None without one
    listing,   \* the listing in progress or just ended, None before the first
    steady     \* history: the ids present when it began and unchanged since

vars == <<rows, listing, steady>>

Init ==
    /\ rows \in [Ids -> Contents \cup {None}]
    /\ listing = None
    /\ steady = {}

-----------------------------------------------------------------------------
(* The query.                                                               *)

fromDate(f) == date(f.zone, f.from)

\* The date after the last one the range touches.
toDate(f) == IF clock(f.zone, f.to) = 0 THEN date(f.zone, f.to)
             ELSE date(f.zone, addDays(f.zone, f.to, 1))

overlaps(c, f) ==
    \/ c.allDay /\ c.startDate < toDate(f) /\ c.endDate > fromDate(f)
    \/ ~ c.allDay /\ c.end = None /\ c.start >= f.from /\ c.start < f.to
    \/ ~ c.allDay /\ c.end # None /\ c.start < f.to /\ c.end > f.from

matches(c, f) ==
    /\ overlaps(c, f)
    /\ f.status = None \/ f.status = c.status
    /\ f.query = None \/ f.query \in c.words

\* The order of the pages: by start_at, then by id.
before(a, b) == a.start < b.start \/ (a.start = b.start /\ a.id < b.id)

\* Mutant: the id is not compared.
after_inclusive(e, cursor) == cursor = None \/ e.start >= cursor.start

after(e, cursor) == cursor = None \/ before(cursor, e)

entry(i) == [start |-> rows[i].start, id |-> i]

found(f, cursor) ==
    {e \in {entry(i) : i \in {j \in Ids : rows[j] # None /\ matches(rows[j], f)}} :
        after(e, cursor)}

\* The first n of them.
first(E, n) == {e \in E : Cardinality({d \in E : before(d, e)}) < n}

lastOf(E) == CHOOSE e \in E : \A d \in E : d = e \/ before(d, e)

-----------------------------------------------------------------------------
(* The cursor: the last entry of the page, bound to the filter.             *)

encodeScheduleCursor(e, f) == [start |-> e.start, id |-> e.id, filter |-> f]

\* Mutant: the filter is not compared.
decodeScheduleCursor_unbound(token, f) == TRUE

\* Mutant: the hash of a filter differs from one request to the next.
decodeScheduleCursor_unstable(token, f) == FALSE

decodeScheduleCursor(token, f) == token.filter = f

-----------------------------------------------------------------------------
(* ListSchedules.                                                           *)

\* Mutant: all the rows read are answered, the one too many included.
pageOf_extra(E, limit) == first(E, limit + 1)

pageOf(E, limit) == first(E, limit)

\* The answer to a page: there is a cursor when the query found more rows than
\* the limit.
Paged(f, limit, seen, E) ==
    LET page == pageOf(E, limit)
        more == Cardinality(E) > limit
    IN  [filter |-> f, limit |-> limit, seen |-> seen, page |-> page,
         cursor |-> IF more THEN encodeScheduleCursor(lastOf(page), f) ELSE None,
         state  |-> IF more THEN "open" ELSE "done"]

validRange(f) == f.from < f.to /\ f.to - f.from <= 366 * Day

FirstPage(f, limit) ==
    /\ listing = None
    /\ validRange(f)
    /\ listing' = Paged(f, limit, {}, found(f, None))
    /\ steady' = {i \in Ids : rows[i] # None}
    /\ UNCHANGED rows

\* The cursor is sent back with filter f.  For another filter, and when its start
\* is not before the end of the range, it is refused with the same 400: there is
\* no page, and the client is left with the cursor it has.
NextPage(f) ==
    /\ listing # None /\ listing.state = "open"
    /\ decodeScheduleCursor(listing.cursor, f)
    /\ listing.cursor.start < f.to
    /\ listing' = [Paged(f, listing.limit, listing.seen \cup listing.page, found(f, listing.cursor))
                      EXCEPT !.filter = listing.filter]
    /\ UNCHANGED <<rows, steady>>

\* ExportSchedulesICS: everything in one page, or 413.
ExportSchedulesICS(f) ==
    /\ listing = None
    /\ validRange(f) /\ f.status = None /\ f.query = None
    /\ listing' = IF Cardinality(found(f, None)) > MaxExport
                  THEN [Paged(f, MaxExport, {}, {}) EXCEPT !.state = "refused"]
                  ELSE Paged(f, MaxExport, {}, found(f, None))
    /\ steady' = {i \in Ids : rows[i] # None}
    /\ UNCHANGED rows

\* The client is done with what it got: the last page, the export or its 413.
Close ==
    /\ listing # None /\ listing.state # "open"
    /\ listing' = None /\ steady' = {}
    /\ UNCHANGED rows

-----------------------------------------------------------------------------
(* Other requests of the user in between.                                   *)

CreateSchedule(i, c) ==
    /\ rows[i] = None
    /\ rows' = [rows EXCEPT ![i] = c]
    /\ UNCHANGED <<listing, steady>>

UpdateSchedule(i, c) ==
    /\ rows[i] # None
    /\ rows' = [rows EXCEPT ![i] = c]
    /\ steady' = steady \ {i}
    /\ UNCHANGED listing

DeleteSchedule(i) ==
    /\ rows[i] # None
    /\ rows' = [rows EXCEPT ![i] = None]
    /\ steady' = steady \ {i}
    /\ UNCHANGED listing

Next ==
    \/ \E f \in Filters :
           \/ \E n \in Limits : FirstPage(f, n)
           \/ NextPage(f)
           \/ ExportSchedulesICS(f)
    \/ Close
    \/ \E i \in Ids :
           \/ \E c \in Contents : CreateSchedule(i, c) \/ UpdateSchedule(i, c)
           \/ DeleteSchedule(i)

Spec == Init /\ [][Next]_vars

\* The client asks for the next page as long as it gets a cursor.
FairSpec == Spec /\ \A f \in Filters : WF_vars(NextPage(f))

-----------------------------------------------------------------------------
(* Properties.                                                              *)

\* Type invariant: an open listing holds the cursor of its last page, and a page
\* has at most the rows asked for.
TypeOK ==
    /\ rows \in [Ids -> Contents \cup {None}]
    /\ steady \subseteq {i \in Ids : rows[i] # None}
    /\ listing # None =>
           /\ listing.filter \in Filters
           /\ Cardinality(listing.page) <= listing.limit
           /\ listing.state = "open" =>
                  /\ listing.page # {}
                  /\ listing.cursor = encodeScheduleCursor(lastOf(listing.page), listing.filter)
           /\ listing.state # "open" => listing.cursor = None

\* Whatever is created, moved or deleted between two pages, a schedule that
\* matches and is not changed itself is in a listing that comes to its last page,
\* and a cursor can not be carried over to another filter.  Whether a listing
\* comes to its last page is ListingEnds.
NothingMissed ==
    listing # None /\ listing.state = "done" =>
        \A i \in steady : matches(rows[i], listing.filter) =>
            entry(i) \in listing.seen \cup listing.page

\* It is there once: a page holds only what comes after everything that was
\* answered before, so that no entry is answered twice and the pages are sorted.
PagesAdvance ==
    listing # None => \A d \in listing.seen, e \in listing.page : before(d, e)

\* The cursor a client holds is one the server takes.
CursorUsable ==
    listing # None /\ listing.state = "open" => listing.cursor.start < listing.filter.to

\* A client that sends back each cursor it is given comes to the last page, although
\* the schedules never stop changing: provided that no page ends with a schedule
\* that starts at or after the end of the range.  openapi.yaml, parameter cursor,
\* has no such proviso ("Cursor returned by the previous page; filters must remain
\* identical"), but the server answers that cursor of its own with a 400.
ListingEnds ==
    []CursorUsable =>
        ((listing # None /\ listing.state = "open") ~> (listing # None /\ listing.state = "done"))
=============================================================================
