-------------------------- MODULE ListPagingProofs --------------------------
(***************************************************************************)
(* Proofs about ListPaging for every set of schedules, filters and page    *)
(* sizes.                                                                  *)
(*                                                                         *)
(* First the order of the pages: before is a strict total order, a finite  *)
(* set of entries has a last one (found by counting what comes after, as   *)
(* an induction over the set is not at hand), and first(E, n) is a         *)
(* beginning of E of at most n entries.  Then the listing: what was        *)
(* answered lies up to the cursor (Behind), and what is still owed lies    *)
(* after it (Owed).                                                        *)
(***************************************************************************)
EXTENDS ListPaging, FiniteSetTheorems, TLAPS

Entry == [start : Int, id : Nat]
Cursor == [start : Int, id : Nat, filter : Filters]

-----------------------------------------------------------------------------
(* The order.                                                               *)

\* before is a strict total order of the entries.
LEMMA BeforeOrders ==
    ASSUME NEW a \in Entry, NEW b \in Entry, NEW c \in Entry
    PROVE  /\ ~ before(a, a)
           /\ before(a, b) /\ before(b, c) => before(a, c)
           /\ a = b \/ before(a, b) \/ before(b, a)
           /\ before(a, b) => a # b /\ ~ before(b, a)
  <1>1. a.start \in Int /\ a.id \in Nat /\ b.start \in Int /\ b.id \in Nat
        /\ c.start \in Int /\ c.id \in Nat
    BY DEF Entry
  <1>2. a.start = b.start /\ a.id = b.id => a = b
    BY DEF Entry
  <1> QED BY <1>1, <1>2 DEF before

\* A set of entries with fewer members than another, as it lacks one of its.
LEMMA FewerMembers ==
    ASSUME NEW S, IsFiniteSet(S), NEW T, T \subseteq S, NEW x \in S, x \notin T
    PROVE  /\ IsFiniteSet(T) /\ Cardinality(T) \in Nat /\ Cardinality(S) \in Nat
           /\ Cardinality(T) < Cardinality(S)
  <1>1. /\ IsFiniteSet(T) /\ Cardinality(T) <= Cardinality(S)
        /\ Cardinality(S) = Cardinality(T) => S = T
    BY FS_Subset
  <1>2. Cardinality(T) \in Nat /\ Cardinality(S) \in Nat
    BY <1>1, FS_CardinalityType
  <1> QED BY <1>1, <1>2

\* Of some numbers one is the least.
LEMMA LeastNumber ==
    ASSUME NEW N \in SUBSET Nat, N # {}
    PROVE  \E n \in N : \A m \in N : n <= m
  <1> DEFINE R == OpToRel(<, Nat)
  <1>1. PICK n \in N : \A m \in N : ~ (<<m, n>> \in R)
    <2>1. IsWellFoundedOn(R, Nat)
      BY NatLessThanWellFounded
    <2> HIDE DEF R
    <2> QED BY <2>1, WFMin
  <1>2. \A m \in N : ~ (m < n)
    BY <1>1 DEF OpToRel
  <1> QED BY <1>2

\* There is a last entry, the one with the fewest after it.
LEMMA LastExists ==
    ASSUME NEW E \in SUBSET Entry, IsFiniteSet(E), E # {}
    PROVE  \E e \in E : \A d \in E : d = e \/ before(d, e)
  <1> DEFINE beyond(e) == {d \in E : before(e, d)}
             N == {Cardinality(beyond(e)) : e \in E}
  <1>1. \A e \in E : IsFiniteSet(beyond(e)) /\ Cardinality(beyond(e)) \in Nat
    BY FS_Subset, FS_CardinalityType
  <1>2. N \in SUBSET Nat /\ N # {}
    BY <1>1
  <1>3. PICK n \in N : \A m \in N : n <= m
    BY <1>2, LeastNumber
  <1>4. PICK e \in E : n = Cardinality(beyond(e))
    BY <1>3
  <1>5. ASSUME NEW d \in E, d # e, ~ before(d, e) PROVE FALSE
    <2>1. before(e, d)
      BY <1>5, BeforeOrders
    <2>2. d \in beyond(e) /\ d \notin beyond(d)
      BY <2>1, BeforeOrders
    <2>3. beyond(d) \subseteq beyond(e)
      BY <2>1, BeforeOrders
    <2>4. Cardinality(beyond(d)) < Cardinality(beyond(e))
      <3>1. IsFiniteSet(beyond(e))
        BY <1>1
      <3> HIDE DEF beyond
      <3> QED BY <2>2, <2>3, <3>1, FewerMembers
    <2>5. Cardinality(beyond(d)) \in N
      OBVIOUS
    <2>6. Cardinality(beyond(d)) \in Nat /\ Cardinality(beyond(e)) \in Nat
      BY <1>1
    <2>7. Cardinality(beyond(e)) <= Cardinality(beyond(d))
      BY <1>3, <1>4, <2>5
    <2> HIDE DEF beyond
    <2> QED BY <2>4, <2>6, <2>7
  <1> QED BY <1>5

\* What lastOf chooses is it.
LEMMA LastIsLast ==
    ASSUME NEW E \in SUBSET Entry, IsFiniteSet(E), E # {}
    PROVE  lastOf(E) \in E /\ \A d \in E : d = lastOf(E) \/ before(d, lastOf(E))
  BY LastExists DEF lastOf

-----------------------------------------------------------------------------
(* The first n entries.                                                     *)

ahead(E, e) == {d \in E : before(d, e)}

\* They are a beginning: whatever is left out comes after all of them.
LEMMA FirstBegins ==
    ASSUME NEW E \in SUBSET Entry, IsFiniteSet(E), NEW n \in Nat,
           NEW d \in first(E, n), NEW e \in E, e \notin first(E, n)
    PROVE  before(d, e)
  <1>1. d \in E /\ Cardinality(ahead(E, d)) < n /\ ~ (Cardinality(ahead(E, e)) < n)
    BY DEF first, ahead
  <1>2. CASE before(e, d)
    <2>1. ahead(E, e) \subseteq ahead(E, d) /\ ahead(E, d) \subseteq E
      BY <1>1, <1>2, BeforeOrders DEF ahead
    <2>2. IsFiniteSet(ahead(E, d))
      BY <2>1, FS_Subset
    <2>3. /\ IsFiniteSet(ahead(E, e))
          /\ Cardinality(ahead(E, e)) <= Cardinality(ahead(E, d))
      BY <2>1, <2>2, FS_Subset
    <2>4. Cardinality(ahead(E, e)) \in Nat /\ Cardinality(ahead(E, d)) \in Nat
      BY <2>2, <2>3, FS_CardinalityType
    <2> QED BY <1>1, <2>3, <2>4
  <1>3. d # e
    OBVIOUS
  <1> QED BY <1>1, <1>2, <1>3, BeforeOrders

\* They are at most n.
LEMMA FirstBounded ==
    ASSUME NEW E \in SUBSET Entry, IsFiniteSet(E), NEW n \in Nat
    PROVE  /\ first(E, n) \subseteq E /\ IsFiniteSet(first(E, n))
           /\ Cardinality(first(E, n)) <= n
  <1>1. first(E, n) \subseteq E
    BY DEF first
  <1>2. IsFiniteSet(first(E, n))
    BY <1>1, FS_Subset
  <1>3. CASE first(E, n) = {}
    BY <1>1, <1>2, <1>3, FS_EmptySet
  <1>4. CASE first(E, n) # {}
    <2> DEFINE e == lastOf(first(E, n))
    <2>1. e \in first(E, n) /\ \A d \in first(E, n) : d = e \/ before(d, e)
      BY <1>1, <1>2, <1>4, LastIsLast
    <2> HIDE DEF e
    <2>2. Cardinality(ahead(E, e)) < n /\ ahead(E, e) \subseteq E
      BY <2>1 DEF first, ahead
    <2>3. first(E, n) \subseteq ahead(E, e) \cup {e}
      BY <1>1, <2>1 DEF ahead
    <2>4. IsFiniteSet(ahead(E, e)) /\ e \notin ahead(E, e)
      BY <1>1, <2>1, <2>2, FS_Subset, BeforeOrders DEF ahead
    <2>5. /\ IsFiniteSet(ahead(E, e) \cup {e})
          /\ Cardinality(ahead(E, e) \cup {e}) = Cardinality(ahead(E, e)) + 1
      BY <2>4, FS_AddElement
    <2>6. Cardinality(first(E, n)) <= Cardinality(ahead(E, e) \cup {e})
      BY <2>3, <2>5, FS_Subset
    <2>7. Cardinality(first(E, n)) \in Nat /\ Cardinality(ahead(E, e)) \in Nat
      BY <1>2, <2>4, FS_CardinalityType
    <2> QED BY <1>1, <1>2, <2>2, <2>5, <2>6, <2>7
  <1> QED BY <1>3, <1>4

\* They are all there are when there are no more than n.
LEMMA FirstAll ==
    ASSUME NEW E \in SUBSET Entry, IsFiniteSet(E), NEW n \in Nat, ~ (Cardinality(E) > n)
    PROVE  first(E, n) = E
  <1>1. ASSUME NEW e \in E PROVE Cardinality(ahead(E, e)) < n
    <2>1. ahead(E, e) \subseteq E /\ e \notin ahead(E, e)
      BY BeforeOrders DEF ahead
    <2>2. /\ Cardinality(ahead(E, e)) < Cardinality(E)
          /\ Cardinality(ahead(E, e)) \in Nat /\ Cardinality(E) \in Nat
      BY <2>1, FewerMembers
    <2> QED BY <2>2
  <1> QED BY <1>1 DEF first, ahead

\* They are not none when there are more than n, and n is not 0.
LEMMA FirstSome ==
    ASSUME NEW E \in SUBSET Entry, IsFiniteSet(E), NEW n \in Nat \ {0}, Cardinality(E) > n
    PROVE  first(E, n) # {}
  <1> DEFINE N == {Cardinality(ahead(E, e)) : e \in E}
  <1>1. E # {}
    BY FS_EmptySet
  <1>2. \A e \in E : IsFiniteSet(ahead(E, e)) /\ Cardinality(ahead(E, e)) \in Nat
    BY FS_Subset, FS_CardinalityType DEF ahead
  <1>3. N \in SUBSET Nat /\ N # {}
    BY <1>1, <1>2
  <1>4. PICK m \in N : \A k \in N : m <= k
    BY <1>3, LeastNumber
  <1>5. PICK e \in E : m = Cardinality(ahead(E, e))
    BY <1>4
  <1>6. ahead(E, e) = {}
    <2>1. SUFFICES ASSUME NEW d \in ahead(E, e) PROVE FALSE
      OBVIOUS
    <2>2. d \in E /\ before(d, e)
      BY <2>1 DEF ahead
    <2>3. ahead(E, d) \subseteq ahead(E, e) /\ d \notin ahead(E, d)
      BY <2>2, BeforeOrders DEF ahead
    <2>4. Cardinality(ahead(E, d)) < Cardinality(ahead(E, e))
      BY <1>2, <2>1, <2>3, FewerMembers
    <2> QED BY <1>2, <1>4, <1>5, <2>2, <2>4
  <1>7. Cardinality(ahead(E, e)) = 0
    BY <1>6, FS_EmptySet
  <1> QED BY <1>7 DEF first, ahead

-----------------------------------------------------------------------------
(* The query and the answer to a page.                                      *)

\* What the query finds: finitely many entries, all of them after the cursor,
\* and no row that matches is overlooked.
LEMMA FoundEntries ==
    ASSUME TypeOK, NEW f, NEW cursor
    PROVE  /\ found(f, cursor) \in SUBSET Entry /\ IsFiniteSet(found(f, cursor))
           /\ \A e \in found(f, cursor) : after(e, cursor)
           /\ \A i \in Ids :
                  rows[i] # None /\ matches(rows[i], f) /\ after(entry(i), cursor)
                  => entry(i) \in found(f, cursor)
  <1> DEFINE J == {j \in Ids : rows[j] # None /\ matches(rows[j], f)}
             S == {entry(i) : i \in J}
             g == [i \in J |-> entry(i)]
  <1>1. \A i \in J : entry(i) \in Entry
    BY ListingAssumption DEF TypeOK, entry, Entry
  <1>2. IsFiniteSet(J)
    BY ListingAssumption, FS_Subset
  <1>3. g \in Surjection(J, S)
    <2> HIDE DEF J
    <2> QED BY DEF Surjection
  <1>4. IsFiniteSet(S)
    <2> HIDE DEF J, S, g
    <2> QED BY <1>2, <1>3, FS_Surjection
  <1>5. found(f, cursor) = {e \in S : after(e, cursor)}
    BY DEF found
  <1>6. S \subseteq Entry
    BY <1>1
  <1>7. \A i \in Ids : rows[i] # None /\ matches(rows[i], f) => entry(i) \in S
    OBVIOUS
  <1> HIDE DEF S
  <1>8. IsFiniteSet(found(f, cursor))
    BY <1>4, <1>5, FS_Subset
  <1> QED BY <1>5, <1>6, <1>7, <1>8

\* e is at the cursor or before it.
upToCursor(e, cursor) == before(e, cursor) \/ (e.start = cursor.start /\ e.id = cursor.id)

Listings == [filter : Filters, limit : Nat \ {0}, seen : SUBSET Entry, page : SUBSET Entry,
             cursor : Cursor \cup {None}, state : {"open", "done", "refused"}]

\* The answer P to a page of E: with a cursor when something of E comes after
\* it, and with all of E otherwise.
Answers(P, f, seen, E) ==
    /\ P \in Listings
    /\ P.filter = f /\ P.seen = seen
    /\ P.page \subseteq E /\ IsFiniteSet(P.page) /\ Cardinality(P.page) <= P.limit
    /\ P.state = "open" =>
           /\ P.page # {}
           /\ P.cursor = encodeScheduleCursor(lastOf(P.page), f)
           /\ P.cursor \in Cursor
           /\ \E e \in E : e.start = P.cursor.start /\ e.id = P.cursor.id
           /\ \A d \in P.page : upToCursor(d, P.cursor)
           /\ \A e \in E : e \in P.page \/ before(P.cursor, e)
    /\ P.state # "open" => P.cursor = None
    /\ P.state = "done" => P.page = E

\* ListSchedulesPage asks for one row too many and so tells whether there is more.
LEMMA PagedAnswers ==
    ASSUME NEW f \in Filters, NEW limit \in Nat \ {0}, NEW seen \in SUBSET Entry,
           NEW E \in SUBSET Entry, IsFiniteSet(E)
    PROVE  Answers(Paged(f, limit, seen, E), f, seen, E)
  <1> DEFINE page == first(E, limit)
             more == Cardinality(E) > limit
             last == lastOf(page)
             cursor == IF more THEN encodeScheduleCursor(last, f) ELSE None
             P == [filter |-> f, limit |-> limit, seen |-> seen, page |-> page,
                   cursor |-> cursor, state |-> IF more THEN "open" ELSE "done"]
  <1>1. Paged(f, limit, seen, E) = P
    BY DEF Paged, pageOf
  <1>2. page \subseteq E /\ IsFiniteSet(page) /\ Cardinality(page) <= limit
    BY FirstBounded
  <1>3. ~ more => page = E
    BY FirstAll
  <1>4. more => page # {}
    BY FirstSome
  <1>5. more => last \in page /\ \A d \in page : d = last \/ before(d, last)
    <2> HIDE DEF page, more
    <2> QED BY <1>2, <1>4, LastIsLast
  <1>6. \A e \in E : e \in page \/ \A d \in page : before(d, e)
    BY FirstBegins
  <1> HIDE DEF page, more, last
  <1>7. more => cursor \in Cursor /\ cursor.start = last.start /\ cursor.id = last.id
    BY <1>2, <1>5 DEF encodeScheduleCursor, Cursor, Entry
  <1>8. P \in Listings
    <2>1. cursor \in Cursor \cup {None}
      BY <1>7
    <2>2. page \in SUBSET Entry
      BY <1>2
    <2> HIDE DEF cursor
    <2> QED BY <2>1, <2>2 DEF Listings
  <1>9. more => /\ \E e \in E : e.start = cursor.start /\ e.id = cursor.id
                /\ \A d \in page : upToCursor(d, cursor)
                /\ \A e \in E : e \in page \/ before(cursor, e)
    BY <1>2, <1>5, <1>6, <1>7 DEF upToCursor, before
  <1>10. more => cursor = encodeScheduleCursor(last, f)
    OBVIOUS
  <1>11. ~ more => cursor = None
    OBVIOUS
  <1> HIDE DEF cursor
  <1>12. /\ P.filter = f /\ P.seen = seen /\ P.page = page /\ P.limit = limit /\ P.cursor = cursor
         /\ P.state = IF more THEN "open" ELSE "done"
    OBVIOUS
  <1> HIDE DEF P
  <1>13. (P.state = "open" <=> more) /\ (P.state = "done" <=> ~ more)
    BY <1>12
  <1> QED BY <1>1, <1>2, <1>3, <1>4, <1>7, <1>8, <1>9, <1>10, <1>11, <1>12, <1>13 DEF Answers, last

-----------------------------------------------------------------------------
(* The listing.                                                             *)

ListingTyped == listing # None => listing \in Listings /\ IsFiniteSet(listing.page)

\* What was answered is not after the cursor.
Behind ==
    listing # None /\ listing.state = "open" =>
        \A d \in listing.seen \cup listing.page : upToCursor(d, listing.cursor)

\* What is owed and was not answered is after the cursor.
Owed ==
    listing # None /\ listing.state = "open" =>
        \A i \in steady : matches(rows[i], listing.filter) =>
            entry(i) \in listing.seen \cup listing.page \/ before(listing.cursor, entry(i))

PagingInv ==
    TypeOK /\ ListingTyped /\ Behind /\ Owed /\ PagesAdvance /\ NothingMissed

\* A page is answered.
LEMMA AnswerStep ==
    ASSUME TypeOK, NEW f \in Filters, NEW seen \in SUBSET Entry, NEW E \in SUBSET Entry,
           UNCHANGED rows, steady' \subseteq {i \in Ids : rows[i] # None},
           Answers(listing', f, seen, E),
           \A d \in seen, e \in E : before(d, e),
           listing'.state \in {"open", "done"} =>
               \A i \in steady' : matches(rows[i], f) => entry(i) \in seen \cup E
    PROVE  PagingInv'
  <1> DEFINE P == listing'
  <1>1. /\ P \in Listings /\ P.filter = f /\ P.seen = seen
        /\ P.page \subseteq E /\ IsFiniteSet(P.page) /\ Cardinality(P.page) <= P.limit
        /\ P.state # "open" => P.cursor = None
        /\ P.state = "done" => P.page = E
    BY DEF Answers
  <1>2. P.state = "open" =>
            /\ P.page # {}
            /\ P.cursor = encodeScheduleCursor(lastOf(P.page), f)
            /\ \E e \in E : e.start = P.cursor.start /\ e.id = P.cursor.id
            /\ \A d \in P.page : upToCursor(d, P.cursor)
            /\ \A e \in E : e \in P.page \/ before(P.cursor, e)
    BY DEF Answers
  <1>3. TypeOK'
    BY <1>1, <1>2 DEF TypeOK
  <1>4. ListingTyped'
    BY <1>1 DEF ListingTyped
  <1>5. P.state = "open" => \A d \in seen : upToCursor(d, P.cursor)
    BY <1>2 DEF upToCursor, before
  <1>6. Behind'
    BY <1>1, <1>2, <1>5 DEF Behind
  <1>7. \A i : entry(i)' = entry(i)
    BY DEF entry
  <1>8. Owed'
    BY <1>1, <1>2, <1>7 DEF Owed
  <1>9. PagesAdvance'
    BY <1>1 DEF PagesAdvance
  <1>10. NothingMissed'
    BY <1>1, <1>7 DEF NothingMissed
  <1> QED BY <1>3, <1>4, <1>6, <1>8, <1>9, <1>10 DEF PagingInv

\* GET /schedules without a cursor.
LEMMA FirstPageInv ==
    ASSUME PagingInv, NEW f \in Filters, NEW limit \in Limits, FirstPage(f, limit)
    PROVE  PagingInv'
  <1> DEFINE E == found(f, None)
  <1>1. /\ listing' = Paged(f, limit, {}, E)
        /\ steady' = {i \in Ids : rows[i] # None} /\ UNCHANGED rows
    BY DEF FirstPage
  <1>2. /\ TypeOK /\ E \in SUBSET Entry /\ IsFiniteSet(E)
        /\ \A i \in steady' : matches(rows[i], f) => entry(i) \in E
    BY <1>1, FoundEntries DEF PagingInv, after
  <1> HIDE DEF E
  <1>3. Answers(listing', f, {}, E)
    BY <1>1, <1>2, ListingAssumption, PagedAnswers
  <1> QED BY <1>1, <1>2, <1>3, AnswerStep

\* GET /schedules with the cursor of the page before.
LEMMA NextPageInv ==
    ASSUME PagingInv, NEW f \in Filters, NextPage(f)
    PROVE  PagingInv'
  <1> DEFINE E == found(f, listing.cursor)
             seen == listing.seen \cup listing.page
             P == Paged(f, listing.limit, seen, E)
  <1>1. /\ listing # None /\ listing.state = "open" /\ listing.cursor.filter = f
        /\ UNCHANGED <<rows, steady>>
    BY DEF NextPage, decodeScheduleCursor
  <1>2. listing \in Listings /\ IsFiniteSet(listing.page)
    BY <1>1 DEF PagingInv, ListingTyped
  <1>3. listing.cursor = encodeScheduleCursor(lastOf(listing.page), listing.filter)
    BY <1>1 DEF PagingInv, TypeOK
  <1>4. f = listing.filter
    BY <1>1, <1>3 DEF encodeScheduleCursor
  <1>5. listing.cursor # None
    <2>1. listing.page \in SUBSET Entry /\ listing.page # {}
      BY <1>1, <1>2 DEF PagingInv, TypeOK, Listings
    <2>2. lastOf(listing.page) \in Entry
      BY <1>2, <2>1, LastIsLast
    <2>3. encodeScheduleCursor(lastOf(listing.page), listing.filter) \in Cursor
      BY <1>4, <2>2 DEF encodeScheduleCursor, Cursor, Entry
    <2> QED BY <1>3, <2>3, ListingAssumption DEF Cursor
  <1>6. listing' = [P EXCEPT !.filter = listing.filter]
    BY DEF NextPage
  <1>7. TypeOK /\ E \in SUBSET Entry /\ IsFiniteSet(E)
        /\ \A e \in E : before(listing.cursor, e)
    BY <1>5, FoundEntries DEF PagingInv, after
  <1>8. ASSUME NEW i \in steady', matches(rows[i], f) PROVE entry(i) \in seen \cup E
    <2>1. i \in Ids /\ rows[i] # None /\ i \in steady
      BY <1>1, <1>8 DEF PagingInv, TypeOK
    <2>2. entry(i) \in seen \/ before(listing.cursor, entry(i))
      BY <1>1, <1>4, <1>8, <2>1 DEF PagingInv, Owed
    <2> QED BY <1>7, <1>8, <2>1, <2>2, FoundEntries DEF after
  <1>9. seen \in SUBSET Entry /\ listing.limit \in Nat \ {0}
    BY <1>2 DEF Listings
  <1>10. ASSUME NEW d \in seen, NEW e \in E PROVE before(d, e)
    <2>1. upToCursor(d, listing.cursor) /\ before(listing.cursor, e)
      BY <1>1, <1>7 DEF PagingInv, Behind
    <2>2. d \in Entry /\ e \in Entry
      BY <1>7, <1>9
    <2>3. listing.cursor.start \in Int /\ listing.cursor.id \in Nat
      BY <1>2, <1>5 DEF Listings, Cursor
    <2> QED BY <2>1, <2>2, <2>3 DEF upToCursor, before, Entry
  <1>11. steady' \subseteq {i \in Ids : rows[i] # None}
    BY <1>1 DEF PagingInv, TypeOK
  <1> HIDE DEF E, seen
  <1>12. Answers(P, f, seen, E)
    BY <1>7, <1>9, PagedAnswers
  <1>13. listing' = P
    BY <1>4, <1>6 DEF Paged
  <1> HIDE DEF P
  <1>14. Answers(listing', f, seen, E)
    BY <1>12, <1>13
  <1> QED BY <1>1, <1>7, <1>8, <1>9, <1>10, <1>11, <1>14, AnswerStep

\* GET /schedules/export.ics.
LEMMA ExportInv ==
    ASSUME PagingInv, NEW f \in Filters, ExportSchedulesICS(f)
    PROVE  PagingInv'
  <1> DEFINE E == found(f, None)
             Q == Paged(f, MaxExport, {}, {})
  <1>1. /\ listing' = IF Cardinality(E) > MaxExport THEN [Q EXCEPT !.state = "refused"]
                      ELSE Paged(f, MaxExport, {}, E)
        /\ steady' = {i \in Ids : rows[i] # None} /\ UNCHANGED rows
    BY DEF ExportSchedulesICS
  <1>2. /\ TypeOK /\ E \in SUBSET Entry /\ IsFiniteSet(E)
        /\ \A i \in steady' : matches(rows[i], f) => entry(i) \in E
    BY <1>1, FoundEntries DEF PagingInv, after
  <1> HIDE DEF E
  <1>3. CASE ~ (Cardinality(E) > MaxExport)
    <2>1. Answers(listing', f, {}, E)
      BY <1>1, <1>2, <1>3, ListingAssumption, PagedAnswers
    <2> QED BY <1>1, <1>2, <2>1, AnswerStep
  <1>4. CASE Cardinality(E) > MaxExport
    <2>1. listing' = [Q EXCEPT !.state = "refused"]
      BY <1>1, <1>4
    <2>2. Answers(Q, f, {}, {})
      BY ListingAssumption, FS_EmptySet, PagedAnswers
    <2>3. Q.cursor = None
      BY <2>2 DEF Answers
    <2> HIDE DEF Q
    <2>4. /\ listing' \in Listings /\ listing'.filter = Q.filter /\ listing'.seen = Q.seen
          /\ listing'.page = Q.page /\ listing'.limit = Q.limit /\ listing'.cursor = Q.cursor
          /\ listing'.state = "refused"
      BY <2>1, <2>2 DEF Answers, Listings
    <2>5. Answers(listing', f, {}, {})
      BY <2>2, <2>3, <2>4 DEF Answers
    <2> QED BY <1>1, <1>2, <2>4, <2>5, AnswerStep
  <1> QED BY <1>3, <1>4

\* A schedule is created, moved or deleted in between.
LEMMA RowChangeInv ==
    ASSUME PagingInv, NEW i \in Ids, NEW c \in Contents \cup {None},
           rows' = [rows EXCEPT ![i] = c],
           UNCHANGED listing,
           \/ rows[i] = None /\ c # None /\ steady' = steady
           \/ steady' = steady \ {i}
    PROVE  PagingInv'
  <1>1. rows' \in [Ids -> Contents \cup {None}]
    BY DEF PagingInv, TypeOK
  <1>2. \A j \in steady' : j \in steady /\ j \in Ids /\ rows[j] # None /\ rows'[j] = rows[j]
    BY DEF PagingInv, TypeOK
  <1>3. \A j \in steady' : entry(j)' = entry(j)
    BY <1>2 DEF entry
  <1>4. TypeOK'
    BY <1>1, <1>2 DEF PagingInv, TypeOK
  <1>5. Owed' /\ NothingMissed'
    BY <1>2, <1>3 DEF PagingInv, Owed, NothingMissed
  <1> QED BY <1>4, <1>5 DEF PagingInv, ListingTyped, Behind, PagesAdvance

\* Every step keeps the invariant.
LEMMA PagingStep == PagingInv /\ [Next]_vars => PagingInv'
  <1> SUFFICES ASSUME PagingInv, [Next]_vars PROVE PagingInv'
    OBVIOUS
  <1>1. CASE Close
    BY <1>1 DEF Close, PagingInv, TypeOK, ListingTyped, Behind, Owed, PagesAdvance, NothingMissed
  <1>2. ASSUME NEW i \in Ids, NEW c \in Contents, CreateSchedule(i, c) \/ UpdateSchedule(i, c)
        PROVE  PagingInv'
    BY <1>2, ListingAssumption, RowChangeInv DEF CreateSchedule, UpdateSchedule
  <1>3. ASSUME NEW i \in Ids, DeleteSchedule(i) PROVE PagingInv'
    BY <1>3, RowChangeInv DEF DeleteSchedule
  <1>4. CASE UNCHANGED vars
    BY <1>4 DEF vars, PagingInv, TypeOK, ListingTyped, Behind, Owed, PagesAdvance, NothingMissed, entry
  <1> QED BY <1>1, <1>2, <1>3, <1>4, FirstPageInv, NextPageInv, ExportInv DEF Next

\* The invariant holds throughout.
THEOREM PagingInvariant == Spec => []PagingInv
  <1>1. Init => PagingInv
    BY DEF Init, PagingInv, TypeOK, ListingTyped, Behind, Owed, PagesAdvance, NothingMissed
  <1> QED BY <1>1, PagingStep, PTL DEF Spec

\* A page never has more rows than asked for, and its cursor is that of its last
\* row: encodeScheduleCursor is given the row the next page starts after.
THEOREM PagesAreBounded == Spec => []TypeOK
  <1>1. PagingInv => TypeOK
    BY DEF PagingInv
  <1> QED BY <1>1, PagingInvariant, PTL

\* No entry is answered twice and the pages are sorted, although every page is a
\* query of its own.
THEOREM PagesAlwaysAdvance == Spec => []PagesAdvance
  <1>1. PagingInv => PagesAdvance
    BY DEF PagingInv
  <1> QED BY <1>1, PagingInvariant, PTL

\* A schedule that matches and is left alone is in a listing that comes to its last
\* page, whatever happens to the others between two pages.
THEOREM NothingIsMissed == Spec => []NothingMissed
  <1>1. PagingInv => NothingMissed
    BY DEF PagingInv
  <1> QED BY <1>1, PagingInvariant, PTL
=============================================================================
