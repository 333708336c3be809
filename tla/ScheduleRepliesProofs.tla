------------------------ MODULE ScheduleRepliesProofs ------------------------
(***************************************************************************)
(* Proofs about the saved responses and the reminders of ScheduleStore,    *)
(* for every value of its constants.                                       *)
(*                                                                         *)
(* A key is answered once: the row of a key a following transaction has    *)
(* claimed is not there yet, and no other transaction gets past the lock   *)
(* on it (KeyInv).  What it is answered is the event of a write of its     *)
(* own: the event stays as long as the row of the key does, because both   *)
(* belong to one account, and a later write has a higher revision          *)
(* (ReplyInv, on top of the event invariant of ScheduleStoreProofs).       *)
(***************************************************************************)
EXTENDS ScheduleStoreProofs

-----------------------------------------------------------------------------
(* What a step does to the saved responses.                                 *)

\* The event of schedule r.schedule at r.revision is in E, with the content of
\* r, and is u's.
AnnouncedIn(E, u, r) ==
    \E e \in E : /\ e.subject # "deleted"
                 /\ e.user = u
                 /\ e.schedule = r.schedule /\ e.revision = r.revision
                 /\ e.fields = r.fields /\ e.reminders = r.reminders

\* The rows of a request table: the old ones, and at most one for a new key.
Saves(old, new, q, response) ==
    \A p \in DOMAIN new :
        \/ p \in DOMAIN old /\ new[p] = old[p]
        \/ p = q /\ p \notin DOMAIN old /\ new[p].response = response

SavesMutation(u, op, k, response) ==
    /\ Saves(mutationRequests, mutationRequests', <<u, op, k>>, response)
    /\ k = NoKey => DOMAIN mutationRequests' \subseteq DOMAIN mutationRequests
    /\ op = "update" =>
           /\ AnnouncedIn(events', u, response)
           /\ response.schedule \in DOMAIN schedules
           /\ response.revision = schedules[response.schedule].revision + 1

\* A transaction of one statement batch, a commit of an open one, ...
Mutates(u, op, k, response) ==
    /\ keyUnlocked(u, op, k)
    /\ SavesMutation(u, op, k, response)
    /\ UNCHANGED <<createRequests, following>>

Commits(t, response) ==
    /\ SavesMutation(following[t].user, "update", following[t].key, response)
    /\ DOMAIN following' = DOMAIN following \ {t}
    /\ \A v \in DOMAIN following' : following'[v] = following[v]
    /\ UNCHANGED createRequests

\* ... a creation, ...
SavesCreate(u, k, response) ==
    /\ Saves(createRequests, createRequests', <<u, k>>, response)
    /\ AnnouncedIn(events', u, response)
    /\ response.schedule = nextID
    /\ UNCHANGED <<mutationRequests, following>>

\* ... a transaction opened, ...
Opens(t, u, k) ==
    /\ t \notin DOMAIN following
    /\ DOMAIN following' = DOMAIN following \cup {t}
    /\ \A v \in DOMAIN following : following'[v] = following[v]
    /\ following'[t].user = u /\ following'[t].key = k
    /\ <<u, "update", k>> \notin DOMAIN mutationRequests
    /\ keyUnlocked(u, "update", k)
    /\ UNCHANGED <<createRequests, mutationRequests>>

\* ... or rows and transactions that go.
Forgets ==
    /\ DOMAIN createRequests' \subseteq DOMAIN createRequests
    /\ \A q \in DOMAIN createRequests' : createRequests'[q] = createRequests[q]
    /\ DOMAIN mutationRequests' \subseteq DOMAIN mutationRequests
    /\ \A q \in DOMAIN mutationRequests' : mutationRequests'[q] = mutationRequests[q]
    /\ DOMAIN following' \subseteq DOMAIN following
    /\ \A t \in DOMAIN following' : following'[t] = following[t]

\* An open transaction's key is not saved, and is its alone.
KeyInv ==
    /\ \A t \in DOMAIN following : following[t].key # NoKey =>
           <<following[t].user, "update", following[t].key>> \notin DOMAIN mutationRequests
    /\ \A t, v \in DOMAIN following :
           /\ following[t].key # NoKey
           /\ following[t].user = following[v].user /\ following[t].key = following[v].key
           => t = v

\* No event goes, unless its account does.
EventsStay == events \subseteq events'

RequestShape ==
    \/ EventsStay /\ \E u, op, k, response : Mutates(u, op, k, response)
    \/ EventsStay /\ \E t \in DOMAIN following : \E response : Commits(t, response)
    \/ EventsStay /\ \E u, k, response : SavesCreate(u, k, response)
    \/ EventsStay /\ \E t, u, k : Opens(t, u, k)
    \/ EventsStay /\ Forgets
    \/ \E u \in Users : CleanupDeletedAccount(u)

-----------------------------------------------------------------------------
\* A transaction that begins finds the row of its key missing and unlocked.
LEMMA Claimed ==
    ASSUME NEW u, NEW op, NEW k, NEW s, NEW request, begins(u, op, k, s, request)
    PROVE  <<u, op, k>> \notin DOMAIN mutationRequests /\ keyUnlocked(u, op, k)
  BY DEF begins, claimScheduleMutation

\* Saving under a key that is not there adds its row and no more.
LEMMA SavedMutation ==
    ASSUME NEW u, NEW op, NEW k, NEW s, NEW request, NEW response,
           saveMutation(u, op, k, s, request, response),
           k = NoKey \/ <<u, op, k>> \notin DOMAIN mutationRequests
    PROVE  /\ Saves(mutationRequests, mutationRequests', <<u, op, k>>, response)
           /\ k = NoKey => DOMAIN mutationRequests' \subseteq DOMAIN mutationRequests
  <1>1. CASE k = NoKey
    BY <1>1 DEF saveMutation, Saves
  <1>2. CASE k # NoKey
    <2> DEFINE q == <<u, op, k>>
               row == [schedule |-> s, request |-> request, response |-> response]
               g == [x \in {q} |-> row]
    <2>1. mutationRequests' = With(mutationRequests, g) /\ q \notin DOMAIN mutationRequests
      BY <1>2 DEF saveMutation
    <2>2. /\ DOMAIN g = {q} /\ g[q] = row /\ row.response = response
      OBVIOUS
    <2> HIDE DEF q, row, g
    <2>3. /\ DOMAIN mutationRequests' = DOMAIN mutationRequests \cup {q}
          /\ mutationRequests'[q] = row
          /\ \A p \in DOMAIN mutationRequests : mutationRequests'[p] = mutationRequests[p]
      BY <2>1, <2>2 DEF With
    <2>4. Saves(mutationRequests, mutationRequests', q, response)
      BY <2>1, <2>2, <2>3 DEF Saves
    <2> QED BY <1>2, <2>4 DEF q
  <1> QED BY <1>1, <1>2

\* The response of a write is its event.
LEMMA SnapshotAnnounced ==
    ASSUME NEW E, NEW u, NEW s, NEW row, row.user = u, NEW subject \in {"created", "updated"},
           toScheduleEvent(subject, s, row) \in E
    PROVE  /\ AnnouncedIn(E, u, toSnapshot(s, row))
           /\ toSnapshot(s, row).schedule = s /\ toSnapshot(s, row).revision = row.revision
  <1> DEFINE e == toScheduleEvent(subject, s, row)
             r == toSnapshot(s, row)
  <1>1. /\ e.subject # "deleted" /\ e.user = u /\ e.schedule = s /\ e.revision = row.revision
        /\ e.fields = row.fields /\ e.reminders = row.reminders
    BY DEF toScheduleEvent
  <1>2. /\ r.schedule = s /\ r.revision = row.revision
        /\ r.fields = row.fields /\ r.reminders = row.reminders
    BY DEF toSnapshot
  <1> HIDE DEF e, r
  <1>3. AnnouncedIn(E, u, r)
    <2>1. e \in E
      BY DEF e
    <2> QED BY <1>1, <1>2, <2>1 DEF AnnouncedIn
  <1> QED BY <1>2, <1>3 DEF r

\* Of every transaction that claims a key and commits at once.
LEMMA MutationShape ==
    ASSUME NEW u, NEW op, NEW k, NEW s, NEW request, NEW response, op # "update",
           begins(u, op, k, s, request),
           saveMutation(u, op, k, s, request, response),
           EventsStay, UNCHANGED <<createRequests, following>>
    PROVE  RequestShape
  <1>1. Mutates(u, op, k, response)
    BY Claimed, SavedMutation DEF Mutates, SavesMutation
  <1> QED BY <1>1 DEF RequestShape

\* PATCH scope=this.
LEMMA UpdateShape ==
    ASSUME TypeOK, NEW u, NEW s \in DOMAIN schedules, NEW patch, NEW k,
           UpdateSchedule(u, s, patch, k)
    PROVE  RequestShape
  <1> DEFINE fields == mergeSchedulePatchFields(schedules[s].fields, patch)
             row == [schedules[s] EXCEPT !.fields = fields, !.revision = @ + 1]
             request == updateRequest("this", patch, schedules[s].revision)
             response == toSnapshot(s, row)
  <1>1. /\ begins(u, "update", k, s, request)
        /\ saveMutation(u, "update", k, s, request, response)
        /\ events' = events \cup {toScheduleEvent("updated", s, row)}
        /\ schedules[s].user = u
        /\ UNCHANGED <<createRequests, following>>
    BY DEF UpdateSchedule, Owned
  <1>2. row.user = u /\ row.revision = schedules[s].revision + 1
    <2>1. schedules[s] \in Schedule
      BY DEF TypeOK, ScheduleRows
    <2> QED BY <1>1, <2>1 DEF Schedule
  <1>3. toScheduleEvent("updated", s, row) \in events'
    BY <1>1
  <1> HIDE DEF row, request
  <1>4. /\ AnnouncedIn(events', u, response) /\ response.schedule = s
        /\ response.revision = row.revision
    BY <1>2, <1>3, SnapshotAnnounced
  <1> HIDE DEF response
  <1>5. Mutates(u, "update", k, response)
    BY <1>1, <1>2, <1>4, Claimed, SavedMutation DEF Mutates, SavesMutation
  <1> QED BY <1>1, <1>5 DEF RequestShape, EventsStay

\* PATCH scope=following commits: its key has been locked since it began.
LEMMA CommitRequestShape ==
    ASSUME TypeOK, KeyInv, NEW t \in DOMAIN following, CommitFollowing(t)
    PROVE  RequestShape
  <1> DEFINE f == following[t]
             s == f.schedule
             row == followingRead(f, s)
             request == updateRequest("following", f.patch, f.ifMatch)
             response == toSnapshot(s, row)
  <1>1. /\ saveMutation(f.user, "update", f.key, s, request, response)
        /\ events' = events \cup
               {toScheduleEvent("updated", x, followingRead(f, x)) : x \in DOMAIN f.before}
        /\ following' = Without(following, {t})
        /\ UNCHANGED createRequests
    BY DEF CommitFollowing
  <1>2. s \in DOMAIN f.before /\ f.before[s] \in Schedule
    BY DEF TypeOK, OpenTransactions
  <1>3. /\ s \in DOMAIN schedules /\ schedules[s].user = f.user /\ schedules[s] \in Schedule
        /\ followingFields(f, s) \in Fields
    BY <1>2, FollowingType DEF CommitFollowing, Owned, TypeOK, ScheduleRows
  <1>4. row.user = f.user /\ row.revision = schedules[s].revision + 1
    BY <1>2, <1>3 DEF followingRead, followingRow, Schedule
  <1>5. toScheduleEvent("updated", s, row) \in events'
    BY <1>1, <1>2
  <1>6. f.key = NoKey \/ <<f.user, "update", f.key>> \notin DOMAIN mutationRequests
    BY DEF KeyInv
  <1>7. /\ DOMAIN following' = DOMAIN following \ {t}
        /\ \A v \in DOMAIN following' : following'[v] = following[v]
    BY <1>1 DEF Without
  <1> HIDE DEF row, request
  <1>8. /\ AnnouncedIn(events', f.user, response) /\ response.schedule = s
        /\ response.revision = row.revision
    BY <1>4, <1>5, SnapshotAnnounced
  <1> HIDE DEF response
  <1>9. Commits(t, response)
    BY <1>1, <1>3, <1>4, <1>6, <1>7, <1>8, SavedMutation DEF Commits, SavesMutation
  <1> QED BY <1>1, <1>9 DEF RequestShape, EventsStay

\* POST /schedules and the clone.
LEMMA CreateRequestShape ==
    ASSUME TypeOK, NEW u \in Users, NEW in \in CreateInput, NEW k \in MaybeKey,
           CreateSchedule(u, in, k)
    PROVE  RequestShape
  <1> DEFINE n == IF in.count = 0 THEN 1 ELSE in.count
             rows == [s \in nextID .. nextID + n - 1 |->
                         newSchedule(u, in, nextID, s - nextID)]
             row == rows[nextID]
             response == toSnapshot(nextID, row)
             q == <<u, k>>
             g == [x \in {q} |-> [request |-> in, response |-> response]]
  <1>1. n \in Nat \ {0} /\ nextID \in Nat \ {0}
    BY DEF CreateInput, TypeOK, ScheduleRows
  <1>2. /\ events' = events \cup {toScheduleEvent("created", s, rows[s]) : s \in DOMAIN rows}
        /\ createRequests' = IF k = NoKey THEN createRequests ELSE With(createRequests, g)
        /\ claimScheduleCreate(u, k, in) = "claimed"
        /\ UNCHANGED <<mutationRequests, following>>
    BY DEF CreateSchedule, saveCreate
  <1>3. nextID \in DOMAIN rows /\ row = newSchedule(u, in, nextID, nextID - nextID)
    BY <1>1
  <1>4. toScheduleEvent("created", nextID, row) \in events' /\ events \subseteq events'
    BY <1>2, <1>3
  <1>5. row.user = u
    BY <1>3 DEF newSchedule
  <1>6. q \notin DOMAIN createRequests
    BY <1>2 DEF claimScheduleCreate
  <1>7. DOMAIN g = {q} /\ g[q].response = response
    OBVIOUS
  <1> HIDE DEF rows, n, row, g, q
  <1>8. AnnouncedIn(events', u, response) /\ response.schedule = nextID
    BY <1>4, <1>5, SnapshotAnnounced
  <1> HIDE DEF response
  <1>9. Saves(createRequests, createRequests', q, response)
    <2>1. CASE k = NoKey
      BY <1>2, <2>1 DEF Saves
    <2>2. CASE k # NoKey
      <3>1. createRequests' = With(createRequests, g)
        BY <1>2, <2>2
      <3>2. /\ DOMAIN createRequests' = DOMAIN createRequests \cup {q}
            /\ createRequests'[q] = g[q]
            /\ \A p \in DOMAIN createRequests : createRequests'[p] = createRequests[p]
        BY <1>6, <1>7, <3>1 DEF With
      <3> QED BY <1>6, <1>7, <3>2 DEF Saves
    <2> QED BY <2>1, <2>2
  <1>10. SavesCreate(u, k, response)
    BY <1>2, <1>8, <1>9 DEF SavesCreate, q
  <1> QED BY <1>4, <1>10 DEF RequestShape, EventsStay

\* PATCH scope=following begins.
LEMMA BeginRequestShape ==
    ASSUME NEW t, NEW u, NEW s, NEW patch, NEW k, BeginFollowing(t, u, s, patch, k)
    PROVE  RequestShape
  <1> DEFINE tx == [user |-> u, schedule |-> s, patch |-> patch, key |-> k,
                    ifMatch |-> schedules[s].revision,
                    before |-> [x2 \in followingOf(s) |-> schedules[x2]]]
             g == [x \in {t} |-> tx]
  <1>1. /\ t \notin DOMAIN following
        /\ begins(u, "update", k, s, updateRequest("following", patch, schedules[s].revision))
        /\ following' = With(following, g)
        /\ UNCHANGED <<createRequests, mutationRequests, events>>
    BY DEF BeginFollowing
  <1>2. DOMAIN g = {t} /\ g[t].user = u /\ g[t].key = k
    OBVIOUS
  <1> HIDE DEF tx, g
  <1>3. /\ DOMAIN following' = DOMAIN following \cup {t} /\ following'[t] = g[t]
        /\ \A v \in DOMAIN following : following'[v] = following[v]
    BY <1>1, <1>2 DEF With
  <1>4. Opens(t, u, k)
    BY <1>1, <1>2, <1>3, Claimed DEF Opens
  <1> QED BY <1>1, <1>4 DEF RequestShape, EventsStay

\* Every step does one of these to the saved responses.
LEMMA StepRequests == TypeOK /\ KeyInv /\ [Next]_vars => RequestShape
  <1> SUFFICES ASSUME TypeOK, KeyInv, [Next]_vars PROVE RequestShape
    OBVIOUS
  <1>1. ASSUME NEW u, NEW k, NEW s, DeleteSchedule(u, s, k) PROVE RequestShape
    <2>1. EventsStay
      BY <1>1 DEF DeleteSchedule, deleteRows, EventsStay
    <2> QED BY <1>1, <2>1, MutationShape DEF DeleteSchedule
  <1>2. ASSUME NEW u, NEW k, NEW s, DeleteScheduleFollowing(u, s, k) PROVE RequestShape
    <2>1. EventsStay
      BY <1>2 DEF DeleteScheduleFollowing, deleteRows, EventsStay
    <2> QED BY <1>2, <2>1, MutationShape DEF DeleteScheduleFollowing
  <1>3. ASSUME NEW u, NEW k, NEW ids, BulkDeleteSchedules(u, ids, k) PROVE RequestShape
    <2>1. EventsStay
      BY <1>3 DEF BulkDeleteSchedules, deleteRows, EventsStay
    <2> QED BY <1>3, <2>1, MutationShape DEF BulkDeleteSchedules
  <1>4. ASSUME NEW u, NEW k, NEW s, NEW m, AddReminder(u, s, m, k) PROVE RequestShape
    <2>1. EventsStay
      BY <1>4 DEF AddReminder, setReminders, EventsStay
    <2> QED BY <1>4, <2>1, MutationShape DEF AddReminder
  <1>5. ASSUME NEW u, NEW k, NEW s, NEW r, DeleteReminder(u, s, r, k) PROVE RequestShape
    <2>1. EventsStay
      BY <1>5 DEF DeleteReminder, setReminders, EventsStay
    <2> QED BY <1>5, <2>1, MutationShape DEF DeleteReminder
  <1>6. CASE \/ \E t \in DOMAIN following : RollbackFollowing(t)
             \/ \E q \in DOMAIN createRequests : ExpireCreateKey(q)
             \/ \E q \in DOMAIN mutationRequests : ExpireMutationKey(q)
             \/ UNCHANGED vars
    BY <1>6 DEF RollbackFollowing, ExpireCreateKey, ExpireMutationKey, vars, Without, Forgets,
                EventsStay, RequestShape
  <1>7. CASE \E u \in Users : CleanupDeletedAccount(u)
    BY <1>7 DEF RequestShape
  <1>8. ASSUME NEW u \in Users, NEW k \in MaybeKey, NEW source \in events, NEW patch \in Patches,
               CloneSchedule(u, source, patch, k)
        PROVE  RequestShape
    BY <1>8, CloneInputType, CreateRequestShape DEF CloneSchedule
  <1>9. ASSUME NEW u \in Users, NEW k \in MaybeKey, NEW in \in Creates, CreateSchedule(u, in, k)
        PROVE  RequestShape
    BY <1>9, InputsAssumption, CreateRequestShape
  <1> QED BY <1>1, <1>2, <1>3, <1>4, <1>5, <1>6, <1>7, <1>8, <1>9, UpdateShape, CommitRequestShape,
             BeginRequestShape DEF Next

-----------------------------------------------------------------------------
(* A key is answered once.                                                  *)

\* The lock on a key lasts from the claim to the commit.
LEMMA KeyStep == TypeOK /\ KeyInv /\ [Next]_vars => KeyInv'
  <1> SUFFICES ASSUME TypeOK, KeyInv, [Next]_vars PROVE KeyInv'
    OBVIOUS
  <1>1. RequestShape
    BY StepRequests
  <1>2. ASSUME NEW u, NEW op, NEW k, NEW response, Mutates(u, op, k, response) PROVE KeyInv'
    <2>1. following' = following
      BY <1>2 DEF Mutates
    <2>2. ASSUME NEW t \in DOMAIN following, following[t].key # NoKey
          PROVE  <<following[t].user, "update", following[t].key>> \notin DOMAIN mutationRequests'
      <3> DEFINE q == <<following[t].user, "update", following[t].key>>
      <3>1. q \notin DOMAIN mutationRequests
        BY <2>2 DEF KeyInv
      <3>2. q # <<u, op, k>> \/ k = NoKey
        BY <1>2, <2>2 DEF Mutates, keyUnlocked
      <3> HIDE DEF q
      <3>3. q \notin DOMAIN mutationRequests'
        BY <1>2, <3>1, <3>2 DEF Mutates, SavesMutation, Saves
      <3> QED BY <3>3 DEF q
    <2> QED BY <2>1, <2>2 DEF KeyInv
  <1>3. ASSUME NEW t \in DOMAIN following, NEW response, Commits(t, response) PROVE KeyInv'
    <2>1. ASSUME NEW v \in DOMAIN following', following'[v].key # NoKey
          PROVE  <<following'[v].user, "update", following'[v].key>> \notin DOMAIN mutationRequests'
      <3>1. v \in DOMAIN following /\ v # t /\ following'[v] = following[v]
        BY <1>3, <2>1 DEF Commits
      <3> DEFINE q == <<following[v].user, "update", following[v].key>>
                 p == <<following[t].user, "update", following[t].key>>
      <3>2. q \notin DOMAIN mutationRequests
        BY <2>1, <3>1 DEF KeyInv
      <3>3. q # p
        BY <2>1, <3>1 DEF KeyInv
      <3>4. Saves(mutationRequests, mutationRequests', p, response)
        BY <1>3 DEF Commits, SavesMutation
      <3> HIDE DEF q, p
      <3>5. q \notin DOMAIN mutationRequests'
        BY <3>2, <3>3, <3>4 DEF Saves
      <3> QED BY <3>1, <3>5 DEF q
    <2>2. \A v \in DOMAIN following' : v \in DOMAIN following /\ following'[v] = following[v]
      BY <1>3 DEF Commits
    <2> QED BY <2>1, <2>2 DEF KeyInv
  <1>4. ASSUME NEW u, NEW k, NEW response, SavesCreate(u, k, response) PROVE KeyInv'
    BY <1>4 DEF SavesCreate, KeyInv
  <1>5. ASSUME NEW t, NEW u, NEW k, Opens(t, u, k) PROVE KeyInv'
    <2>1. k # NoKey => \A v \in DOMAIN following : ~ (following[v].user = u /\ following[v].key = k)
      BY <1>5 DEF Opens, keyUnlocked
    <2> QED BY <1>5, <2>1 DEF Opens, KeyInv
  <1>6. CASE Forgets
    BY <1>6 DEF Forgets, KeyInv
  <1>7. ASSUME NEW u \in Users, CleanupDeletedAccount(u) PROVE KeyInv'
    BY <1>7 DEF CleanupDeletedAccount, Without, KeyInv
  <1> QED BY <1>1, <1>2, <1>3, <1>4, <1>5, <1>6, <1>7 DEF RequestShape

\* While a key lives its saved response stays: claimScheduleCreate and
\* claimScheduleMutation let one transaction through, and a following one keeps
\* the others out until it has committed.
THEOREM RepliesAreStable == Spec => RepliesStable
  <1> DEFINE A == /\ \A q \in DOMAIN createRequests \cap DOMAIN createRequests' :
                         createRequests'[q] = createRequests[q]
                  /\ \A q \in DOMAIN mutationRequests \cap DOMAIN mutationRequests' :
                         mutationRequests'[q] = mutationRequests[q]
  <1>1. TypeOK /\ KeyInv /\ [Next]_vars => A
    <2> SUFFICES ASSUME TypeOK, KeyInv, [Next]_vars PROVE A
      OBVIOUS
    <2>1. RequestShape
      BY StepRequests
    <2>2. ASSUME NEW u, NEW op, NEW k, NEW response, Mutates(u, op, k, response) PROVE A
      BY <2>2 DEF Mutates, SavesMutation, Saves
    <2>3. ASSUME NEW t \in DOMAIN following, NEW response, Commits(t, response) PROVE A
      BY <2>3 DEF Commits, SavesMutation, Saves
    <2>4. ASSUME NEW u, NEW k, NEW response, SavesCreate(u, k, response) PROVE A
      BY <2>4 DEF SavesCreate, Saves
    <2>5. ASSUME NEW t, NEW u, NEW k, Opens(t, u, k) PROVE A
      BY <2>5 DEF Opens
    <2>6. CASE Forgets
      BY <2>6 DEF Forgets
    <2>7. ASSUME NEW u \in Users, CleanupDeletedAccount(u) PROVE A
      BY <2>7 DEF CleanupDeletedAccount, Without
    <2> QED BY <2>1, <2>2, <2>3, <2>4, <2>5, <2>6, <2>7 DEF RequestShape
  <1>2. TypeOK /\ KeyInv /\ [Next]_vars => [A]_vars
    BY <1>1
  <1>3. Init => KeyInv
    BY DEF Init, KeyInv
  <1> HIDE DEF A
  <1>4. [][A]_vars => RepliesStable
    BY DEF A, RepliesStable
  <1> QED BY <1>2, <1>3, <1>4, KeyStep, TypeCorrect, PTL DEF Spec

-----------------------------------------------------------------------------
(* A saved response is the event of one write.                              *)

\* With the account of the event, which the cleanup goes by.
ReplyInv ==
    /\ \A q \in DOMAIN createRequests : AnnouncedIn(events, q[1], createRequests[q].response)
    /\ \A q \in DOMAIN mutationRequests :
           q[2] = "update" => AnnouncedIn(events, q[1], mutationRequests[q].response)
    /\ \A q, p \in DOMAIN createRequests :
           createRequests[q].response = createRequests[p].response => q = p
    /\ \A q, p \in DOMAIN mutationRequests :
           /\ q[2] = "update" /\ p[2] = "update"
           /\ mutationRequests[q].response = mutationRequests[p].response
           => q = p

\* An update is answered with a revision no saved response has.
LEMMA UpdateReply ==
    ASSUME TypeOK, EventInv, ReplyInv, EventsStay, UNCHANGED createRequests,
           NEW u, NEW op, NEW k, NEW response, SavesMutation(u, op, k, response)
    PROVE  ReplyInv'
  <1> DEFINE new == <<u, op, k>>
  <1>1. new[1] = u /\ new[2] = op
    OBVIOUS
  <1>2. /\ Saves(mutationRequests, mutationRequests', new, response)
        /\ op = "update" =>
               /\ AnnouncedIn(events', u, response)
               /\ response.schedule \in DOMAIN schedules
               /\ response.revision = schedules[response.schedule].revision + 1
    BY DEF SavesMutation
  <1> HIDE DEF new
  <1>3. \A v, r : AnnouncedIn(events, v, r) => AnnouncedIn(events', v, r)
    BY DEF AnnouncedIn, EventsStay
  <1>4. ASSUME op = "update", NEW v, NEW r, AnnouncedIn(events, v, r) PROVE r # response
    <2>1. PICK e \in events : e.schedule = r.schedule /\ e.revision = r.revision
      BY <1>4 DEF AnnouncedIn
    <2>2. r.schedule \in DOMAIN schedules => r.revision <= schedules[r.schedule].revision
      BY <2>1 DEF EventInv, RowsAnnounced
    <2>3. response.schedule \in DOMAIN schedules
          /\ schedules[response.schedule].revision \in Nat
      BY <1>2, <1>4 DEF TypeOK, ScheduleRows, Schedule
    <2> QED BY <1>2, <1>4, <2>2, <2>3
  <1>5. \A q \in DOMAIN mutationRequests' :
            \/ q \in DOMAIN mutationRequests /\ mutationRequests'[q] = mutationRequests[q]
            \/ q = new /\ mutationRequests'[q].response = response
    BY <1>2 DEF Saves
  <1>6. \A q \in DOMAIN createRequests' :
            AnnouncedIn(events', q[1], createRequests'[q].response)
    BY <1>3 DEF ReplyInv
  <1>7. \A q \in DOMAIN mutationRequests' :
            q[2] = "update" => AnnouncedIn(events', q[1], mutationRequests'[q].response)
    BY <1>1, <1>2, <1>3, <1>5 DEF ReplyInv
  <1>8. ASSUME NEW q \in DOMAIN mutationRequests', NEW p \in DOMAIN mutationRequests',
               q[2] = "update", p[2] = "update",
               mutationRequests'[q].response = mutationRequests'[p].response
        PROVE  q = p
    <2>1. CASE q = new /\ p # new
      BY <1>1, <1>4, <1>5, <1>8, <2>1 DEF ReplyInv
    <2>2. CASE q # new /\ p = new
      BY <1>1, <1>4, <1>5, <1>8, <2>2 DEF ReplyInv
    <2>3. CASE q # new /\ p # new
      BY <1>5, <1>8, <2>3 DEF ReplyInv
    <2> QED BY <2>1, <2>2, <2>3
  <1> QED BY <1>6, <1>7, <1>8 DEF ReplyInv

\* A creation is answered with an id no saved response has.
LEMMA CreateReply ==
    ASSUME TypeOK, EventInv, ReplyInv, EventsStay,
           NEW u, NEW k, NEW response, SavesCreate(u, k, response)
    PROVE  ReplyInv'
  <1> DEFINE new == <<u, k>>
  <1>1. new[1] = u
    OBVIOUS
  <1>2. /\ Saves(createRequests, createRequests', new, response)
        /\ AnnouncedIn(events', u, response) /\ response.schedule = nextID
        /\ mutationRequests' = mutationRequests
    BY DEF SavesCreate
  <1> HIDE DEF new
  <1>3. \A v, r : AnnouncedIn(events, v, r) => AnnouncedIn(events', v, r)
    BY DEF AnnouncedIn, EventsStay
  <1>4. ASSUME NEW v, NEW r, AnnouncedIn(events, v, r) PROVE r # response
    <2>1. PICK e \in events : e.schedule = r.schedule
      BY <1>4 DEF AnnouncedIn
    <2>2. r.schedule \in 1 .. nextID - 1 /\ nextID \in Nat
      BY <2>1 DEF EventInv, EventsNumbered, TypeOK, ScheduleRows
    <2>3. r.schedule # nextID
      BY <2>2
    <2> QED BY <1>2, <2>3
  <1>5. \A q \in DOMAIN createRequests' :
            \/ q \in DOMAIN createRequests /\ createRequests'[q] = createRequests[q]
            \/ q = new /\ createRequests'[q].response = response
    BY <1>2 DEF Saves
  <1>6. \A q \in DOMAIN createRequests' :
            AnnouncedIn(events', q[1], createRequests'[q].response)
    BY <1>1, <1>2, <1>3, <1>5 DEF ReplyInv
  <1>7. \A q \in DOMAIN mutationRequests' :
            q[2] = "update" => AnnouncedIn(events', q[1], mutationRequests'[q].response)
    BY <1>2, <1>3 DEF ReplyInv
  <1>8. ASSUME NEW q \in DOMAIN createRequests', NEW p \in DOMAIN createRequests',
               createRequests'[q].response = createRequests'[p].response
        PROVE  q = p
    <2>1. CASE q = new /\ p # new
      BY <1>4, <1>5, <1>8, <2>1 DEF ReplyInv
    <2>2. CASE q # new /\ p = new
      BY <1>4, <1>5, <1>8, <2>2 DEF ReplyInv
    <2>3. CASE q # new /\ p # new
      BY <1>5, <1>8, <2>3 DEF ReplyInv
    <2> QED BY <2>1, <2>2, <2>3
  <1> QED BY <1>2, <1>6, <1>7, <1>8 DEF ReplyInv

\* The cleanup takes the events of an account with its saved responses, and no
\* event of another account.
LEMMA CleanupReply ==
    ASSUME TypeOK, EventInv, ReplyInv, NEW u \in Users, CleanupDeletedAccount(u)
    PROVE  ReplyInv'
  <1>1. /\ events' = {e \in events : e.user # u /\ e.schedule \notin OwnedBy(u)}
        /\ \A q \in DOMAIN createRequests' :
               q \in DOMAIN createRequests /\ q[1] # u /\ createRequests'[q] = createRequests[q]
        /\ \A q \in DOMAIN mutationRequests' :
               q \in DOMAIN mutationRequests /\ q[1] # u /\ mutationRequests'[q] = mutationRequests[q]
    BY DEF CleanupDeletedAccount, Without
  <1>2. \A e \in events : e.user # u => e \in events'
    BY <1>1 DEF EventInv, RowsAnnounced, EventsOwned, OwnedBy
  <1>3. \A v, r : v # u /\ AnnouncedIn(events, v, r) => AnnouncedIn(events', v, r)
    BY <1>2 DEF AnnouncedIn
  <1> QED BY <1>1, <1>3 DEF ReplyInv

\* Every step keeps the saved responses truthful.
LEMMA ReplyStep == TypeOK /\ EventInv /\ KeyInv /\ ReplyInv /\ [Next]_vars => ReplyInv'
  <1> SUFFICES ASSUME TypeOK, EventInv, KeyInv, ReplyInv, [Next]_vars PROVE ReplyInv'
    OBVIOUS
  <1>1. RequestShape
    BY StepRequests
  <1>2. ASSUME EventsStay, NEW u, NEW op, NEW k, NEW response, Mutates(u, op, k, response)
        PROVE  ReplyInv'
    BY <1>2, UpdateReply DEF Mutates
  <1>3. ASSUME EventsStay, NEW t \in DOMAIN following, NEW response, Commits(t, response)
        PROVE  ReplyInv'
    BY <1>3, UpdateReply DEF Commits
  <1>4. ASSUME EventsStay, NEW u, NEW k, NEW response, SavesCreate(u, k, response)
        PROVE  ReplyInv'
    BY <1>4, CreateReply
  <1>5. ASSUME EventsStay, Forgets \/ \E t, u, k : Opens(t, u, k)
        PROVE  ReplyInv'
    <2>1. /\ \A q \in DOMAIN createRequests' :
                 q \in DOMAIN createRequests /\ createRequests'[q] = createRequests[q]
          /\ \A q \in DOMAIN mutationRequests' :
                 q \in DOMAIN mutationRequests /\ mutationRequests'[q] = mutationRequests[q]
      BY <1>5 DEF Forgets, Opens
    <2>2. \A v, r : AnnouncedIn(events, v, r) => AnnouncedIn(events', v, r)
      BY <1>5 DEF AnnouncedIn, EventsStay
    <2> QED BY <2>1, <2>2 DEF ReplyInv
  <1> QED BY <1>1, <1>2, <1>3, <1>4, <1>5, CleanupReply DEF RequestShape

\* A saved response is what the write it stands for announced, and no two keys
\* share a write: an Idempotency-Key stands for one change of the table.
THEOREM RepliesAreTruthful == Spec => []RepliesTruthful
  <1>1. Init => KeyInv /\ ReplyInv
    BY DEF Init, KeyInv, ReplyInv
  <1>2. ReplyInv => RepliesTruthful
    BY DEF ReplyInv, AnnouncedIn, RepliesTruthful
  <1> QED BY <1>1, <1>2, KeyStep, ReplyStep, TypeCorrect, EventInvariant, PTL DEF Spec

-----------------------------------------------------------------------------
(* The reminders of a row.                                                  *)

\* The outbox has the event of the row of s, with the reminders of the row.
Told(s) ==
    \E e \in events : /\ e.schedule = s
                      /\ e.revision = schedules[s].revision
                      /\ e.reminders = schedules[s].reminders

\* What a step can do to the reminders of s: leave some out, add one that
\* reminderAllowed lets through, or insert those of a new row.
RemindersLeft(s) == s \in DOMAIN schedules /\ schedules'[s].reminders \subseteq schedules[s].reminders

ReminderAdded(s) ==
    /\ s \in DOMAIN schedules
    /\ \E a, m : /\ reminderAllowed(s, m)
                 /\ schedules'[s].reminders
                        = schedules[s].reminders \cup {[added |-> a, minutes |-> m]}

RemindersNew(s) ==
    \E M \in SUBSET Minutes : /\ validateReminderSet(M)
                              /\ schedules'[s].reminders = [added : {1}, minutes : M]

\* A write of s is announced with the reminders it leaves, but for the commit of
\* a following transaction, which announces those it read when it began.
RowStep(s) ==
    \/ s \in DOMAIN schedules /\ schedules'[s] = schedules[s]
    \/ Told(s)' /\ (RemindersLeft(s) \/ ReminderAdded(s) \/ RemindersNew(s))
    \/ /\ RemindersLeft(s)
       /\ \E t \in DOMAIN following : s \in DOMAIN following[t].before

\* A write of one row.
LEMMA OneRowStep ==
    ASSUME NEW s \in DOMAIN schedules, NEW row,
           schedules' = With(schedules, [x \in {s} |-> row]),
           events' = events \cup {toScheduleEvent("updated", s, row)},
           \/ row.reminders \subseteq schedules[s].reminders
           \/ \E a, m : /\ reminderAllowed(s, m)
                        /\ row.reminders
                               = schedules[s].reminders \cup {[added |-> a, minutes |-> m]}
    PROVE  \A x \in DOMAIN schedules' : RowStep(x)
  <1>1. /\ DOMAIN schedules' = DOMAIN schedules /\ schedules'[s] = row
        /\ \A x \in DOMAIN schedules : x # s => schedules'[x] = schedules[x]
    BY DEF With
  <1>2. Told(s)'
    <2> DEFINE e == toScheduleEvent("updated", s, row)
    <2>1. /\ e.schedule = s /\ e.revision = row.revision /\ e.reminders = row.reminders
      BY DEF toScheduleEvent
    <2>2. e \in events'
      OBVIOUS
    <2> HIDE DEF e
    <2> QED BY <1>1, <2>1, <2>2 DEF Told
  <1>3. RemindersLeft(s) \/ ReminderAdded(s)
    BY <1>1 DEF RemindersLeft, ReminderAdded
  <1> QED BY <1>1, <1>2, <1>3 DEF RowStep

\* POST /schedules and the clone.
LEMMA CreateRowStep ==
    ASSUME TypeOK, NEW u \in Users, NEW in \in CreateInput, NEW k \in MaybeKey,
           CreateSchedule(u, in, k)
    PROVE  \A x \in DOMAIN schedules' : RowStep(x)
  <1> DEFINE n == IF in.count = 0 THEN 1 ELSE in.count
             rows == [s \in nextID .. nextID + n - 1 |->
                         newSchedule(u, in, nextID, s - nextID)]
  <1>1. /\ schedules' = With(schedules, rows)
        /\ events' = events \cup {toScheduleEvent("created", s, rows[s]) : s \in DOMAIN rows}
        /\ validateReminderSet(in.minutes)
    BY DEF CreateSchedule, createAllowed
  <1>2. in.minutes \in SUBSET Minutes
    BY DEF CreateInput
  <1>3. \A s \in DOMAIN rows : rows[s].reminders = [added : {1}, minutes : in.minutes]
    BY DEF newSchedule
  <1> HIDE DEF rows, n
  <1>4. /\ DOMAIN schedules' = DOMAIN schedules \cup DOMAIN rows
        /\ \A s \in DOMAIN rows : schedules'[s] = rows[s]
        /\ \A s \in DOMAIN schedules \ DOMAIN rows : schedules'[s] = schedules[s]
    BY <1>1 DEF With
  <1>5. ASSUME NEW s \in DOMAIN rows PROVE Told(s)' /\ RemindersNew(s)
    <2> DEFINE e == toScheduleEvent("created", s, rows[s])
    <2>1. /\ e.schedule = s /\ e.revision = rows[s].revision /\ e.reminders = rows[s].reminders
      BY DEF toScheduleEvent
    <2>2. e \in events'
      BY <1>1
    <2> HIDE DEF e
    <2>3. Told(s)'
      BY <1>4, <2>1, <2>2 DEF Told
    <2> QED BY <1>1, <1>2, <1>3, <1>4, <2>3 DEF RemindersNew
  <1> QED BY <1>4, <1>5 DEF RowStep

\* PATCH scope=following writes the row as it is now and keeps its reminders.
LEMMA CommitRowStep ==
    ASSUME TypeOK, NEW t \in DOMAIN following, CommitFollowing(t)
    PROVE  \A x \in DOMAIN schedules' : RowStep(x)
  <1> DEFINE f == following[t]
             rows == [x \in DOMAIN f.before |-> followingRow(f, x)]
  <1>1. /\ schedules' = With(schedules, rows)
        /\ \A x \in DOMAIN f.before : x \in DOMAIN schedules
    BY DEF CommitFollowing, Owned
  <1>2. \A x \in DOMAIN f.before : rows[x].reminders = schedules[x].reminders
    BY <1>1 DEF followingRow, TypeOK, ScheduleRows, Schedule
  <1>3. /\ DOMAIN rows = DOMAIN f.before
        /\ DOMAIN schedules' = DOMAIN schedules
        /\ \A x \in DOMAIN rows : schedules'[x] = rows[x]
        /\ \A x \in DOMAIN schedules \ DOMAIN rows : schedules'[x] = schedules[x]
    BY <1>1 DEF With
  <1> HIDE DEF rows
  <1> QED BY <1>1, <1>2, <1>3 DEF RowStep, RemindersLeft

\* Rows that stay, stay as they are.
LEMMA RemainStep ==
    ASSUME NEW D, schedules' = Without(schedules, D)
    PROVE  \A x \in DOMAIN schedules' : RowStep(x)
  BY DEF Without, RowStep

\* Every step does one of these to a row.
LEMMA StepRows == TypeOK /\ [Next]_vars => \A x \in DOMAIN schedules' : RowStep(x)
  <1> DEFINE G == \A x \in DOMAIN schedules' : RowStep(x)
  <1> SUFFICES ASSUME TypeOK, [Next]_vars PROVE G
    OBVIOUS
  <1> HIDE DEF G
  <1>1. ASSUME NEW u \in Users, NEW k \in MaybeKey,
               \/ \E in \in Creates : CreateSchedule(u, in, k)
               \/ \E source \in events, patch \in Patches : CloneSchedule(u, source, patch, k)
        PROVE  G
    BY <1>1, InputsAssumption, CloneInputType, CreateRowStep DEF CloneSchedule, G
  <1>2. ASSUME NEW u, NEW s \in DOMAIN schedules, NEW patch, NEW k, UpdateSchedule(u, s, patch, k)
        PROVE  G
    <2> DEFINE fields == mergeSchedulePatchFields(schedules[s].fields, patch)
               row == [schedules[s] EXCEPT !.fields = fields, !.revision = @ + 1]
    <2>1. /\ schedules' = With(schedules, [x \in {s} |-> row])
          /\ events' = events \cup {toScheduleEvent("updated", s, row)}
      BY <1>2 DEF UpdateSchedule
    <2>2. row.reminders = schedules[s].reminders
      BY DEF TypeOK, ScheduleRows, Schedule
    <2> HIDE DEF row
    <2> QED BY <2>1, <2>2, OneRowStep DEF G
  <1>3. ASSUME NEW s \in DOMAIN schedules, NEW R, setReminders(s, R),
               \/ R \subseteq schedules[s].reminders
               \/ \E a, m : /\ reminderAllowed(s, m)
                            /\ R = schedules[s].reminders \cup {[added |-> a, minutes |-> m]}
        PROVE  G
    <2> DEFINE row == [schedules[s] EXCEPT !.reminders = R, !.revision = @ + 1]
    <2>1. /\ schedules' = With(schedules, [x \in {s} |-> row])
          /\ events' = events \cup {toScheduleEvent("updated", s, row)}
      BY <1>3 DEF setReminders
    <2>2. row.reminders = R
      BY DEF TypeOK, ScheduleRows, Schedule
    <2> HIDE DEF row
    <2> QED BY <1>3, <2>1, <2>2, OneRowStep DEF G
  <1>4. ASSUME NEW u, NEW s \in DOMAIN schedules, NEW m, NEW k, AddReminder(u, s, m, k)
        PROVE  G
    BY <1>3, <1>4 DEF AddReminder
  <1>5. ASSUME NEW u, NEW s \in DOMAIN schedules, NEW r, NEW k, DeleteReminder(u, s, r, k)
        PROVE  G
    BY <1>3, <1>5 DEF DeleteReminder
  <1>6. ASSUME NEW u, NEW k,
               \/ \E s : DeleteSchedule(u, s, k) \/ DeleteScheduleFollowing(u, s, k)
               \/ \E ids : BulkDeleteSchedules(u, ids, k)
               \/ CleanupDeletedAccount(u)
        PROVE  G
    BY <1>6, RemainStep DEF DeleteSchedule, DeleteScheduleFollowing, BulkDeleteSchedules,
                            CleanupDeletedAccount, deleteRows, G
  <1>7. CASE UNCHANGED schedules
    BY <1>7 DEF RowStep, G
  <1>8. ASSUME \/ \E t \in DOMAIN following : RollbackFollowing(t)
               \/ \E q : ExpireCreateKey(q) \/ ExpireMutationKey(q)
               \/ \E t, u, s, patch, k : BeginFollowing(t, u, s, patch, k)
               \/ UNCHANGED vars
        PROVE  G
    BY <1>7, <1>8 DEF RollbackFollowing, ExpireCreateKey, ExpireMutationKey, BeginFollowing, vars
  <1>9. ASSUME NEW t \in DOMAIN following, CommitFollowing(t) PROVE G
    BY <1>9, CommitRowStep DEF G
  <1> QED BY <1>1, <1>2, <1>4, <1>5, <1>6, <1>8, <1>9 DEF Next

\* The reminders of a row can be counted, and are few.
ReminderInv ==
    /\ RemindersBounded
    /\ \A s \in DOMAIN schedules : IsFiniteSet(schedules[s].reminders)

\* Fewer than counted.
LEMMA FewerReminders ==
    ASSUME NEW R, IsFiniteSet(R), Cardinality(R) <= MaxReminders, NEW S, S \subseteq R
    PROVE  IsFiniteSet(S) /\ Cardinality(S) <= MaxReminders
  <1>1. IsFiniteSet(S) /\ Cardinality(S) <= Cardinality(R)
    BY FS_Subset
  <1>2. Cardinality(S) \in Nat /\ Cardinality(R) \in Nat
    BY <1>1, FS_CardinalityType
  <1> QED BY <1>1, <1>2, BoundsAssumption

\* One more than counted, for a minute of its own.
LEMMA OneMoreReminder ==
    ASSUME NEW R, IsFiniteSet(R), Cardinality(R) < MaxReminders,
           \A r, q \in R : r.minutes = q.minutes => r = q,
           NEW x, \A r \in R : r.minutes # x.minutes
    PROVE  /\ IsFiniteSet(R \cup {x}) /\ Cardinality(R \cup {x}) <= MaxReminders
           /\ \A r, q \in R \cup {x} : r.minutes = q.minutes => r = q
  <1>1. x \notin R
    OBVIOUS
  <1>2. IsFiniteSet(R \cup {x}) /\ Cardinality(R \cup {x}) = Cardinality(R) + 1
    BY <1>1, FS_AddElement
  <1>3. Cardinality(R) \in Nat
    BY FS_CardinalityType
  <1>4. Cardinality(R \cup {x}) <= MaxReminders
    BY <1>2, <1>3, BoundsAssumption
  <1>5. \A r, q \in R \cup {x} : r.minutes = q.minutes => r = q
    OBVIOUS
  <1> QED BY <1>2, <1>4, <1>5

\* As many reminders as minutes.
LEMMA NewReminders ==
    ASSUME NEW M \in SUBSET Minutes, validateReminderSet(M)
    PROVE  LET S == [added : {1}, minutes : M]
           IN  /\ IsFiniteSet(S) /\ Cardinality(S) <= MaxReminders
               /\ \A r, q \in S : r.minutes = q.minutes => r = q
  <1> DEFINE S == [added : {1}, minutes : M]
             g == [m \in M |-> [added |-> 1, minutes |-> m]]
  <1>1. IsFiniteSet(M)
    BY MinutesAssumption, FS_Subset
  <1>2. g \in Surjection(M, S)
    <2>1. g \in [M -> S]
      OBVIOUS
    <2>2. ASSUME NEW r \in S PROVE \E m \in M : g[m] = r
      <3>1. r.minutes \in M /\ r = [added |-> 1, minutes |-> r.minutes]
        OBVIOUS
      <3> QED BY <3>1
    <2> QED BY <2>1, <2>2 DEF Surjection
  <1>3. IsFiniteSet(S) /\ Cardinality(S) <= Cardinality(M)
    BY <1>1, <1>2, FS_Surjection
  <1>4. Cardinality(S) \in Nat /\ Cardinality(M) \in Nat
    BY <1>1, <1>3, FS_CardinalityType
  <1>5. Cardinality(S) <= MaxReminders
    <2> HIDE DEF S
    <2> QED BY <1>3, <1>4, BoundsAssumption DEF validateReminderSet
  <1>6. \A r, q \in S : r.minutes = q.minutes => r = q
    OBVIOUS
  <1> QED BY <1>3, <1>5, <1>6

\* No sequence of creations, clones, updates and reminder calls takes a schedule
\* over maxScheduleReminders or gives it two reminders for one minute: the count
\* is taken under the row lock.
THEOREM RemindersStayBounded == Spec => []RemindersBounded
  <1>1. Init => ReminderInv
    BY DEF Init, ReminderInv, RemindersBounded
  <1>2. TypeOK /\ ReminderInv /\ [Next]_vars => ReminderInv'
    <2> SUFFICES ASSUME TypeOK, ReminderInv, [Next]_vars, NEW s \in DOMAIN schedules'
                 PROVE  /\ IsFiniteSet(schedules'[s].reminders)
                        /\ Cardinality(schedules'[s].reminders) <= MaxReminders
                        /\ \A r, q \in schedules'[s].reminders : r.minutes = q.minutes => r = q
      BY DEF ReminderInv, RemindersBounded
    <2>1. RowStep(s)
      BY StepRows
    <2>2. CASE RemindersLeft(s) \/ ReminderAdded(s)
      <3>1. /\ IsFiniteSet(schedules[s].reminders)
            /\ Cardinality(schedules[s].reminders) <= MaxReminders
            /\ \A r, q \in schedules[s].reminders : r.minutes = q.minutes => r = q
        BY <2>2 DEF RemindersLeft, ReminderAdded, ReminderInv, RemindersBounded
      <3>2. CASE RemindersLeft(s)
        <4> DEFINE R == schedules[s].reminders
                   S == schedules'[s].reminders
        <4>1. S \subseteq R
          BY <3>2 DEF RemindersLeft
        <4> HIDE DEF R, S
        <4>2. IsFiniteSet(S) /\ Cardinality(S) <= MaxReminders
          BY <3>1, <4>1, FewerReminders DEF R
        <4> QED BY <3>1, <4>1, <4>2 DEF R, S
      <3>3. CASE ReminderAdded(s)
        <4>1. PICK a, m : /\ reminderAllowed(s, m)
                          /\ schedules'[s].reminders
                                 = schedules[s].reminders \cup {[added |-> a, minutes |-> m]}
          BY <3>3 DEF ReminderAdded
        <4>2. /\ Cardinality(schedules[s].reminders) < MaxReminders
              /\ \A r \in schedules[s].reminders : r.minutes # m
          BY <4>1 DEF reminderAllowed
        <4> DEFINE R == schedules[s].reminders
                   x == [added |-> a, minutes |-> m]
        <4>3. schedules'[s].reminders = R \cup {x} /\ \A r \in R : r.minutes # x.minutes
          BY <4>1, <4>2
        <4> HIDE DEF x
        <4>4. /\ IsFiniteSet(R \cup {x}) /\ Cardinality(R \cup {x}) <= MaxReminders
              /\ \A r, q \in R \cup {x} : r.minutes = q.minutes => r = q
          <5> HIDE DEF R
          <5> QED BY <3>1, <4>2, <4>3, OneMoreReminder DEF R
        <4> QED BY <4>3, <4>4
      <3> QED BY <2>2, <3>2, <3>3
    <2>3. CASE RemindersNew(s)
      BY <2>3, NewReminders DEF RemindersNew
    <2>4. CASE s \in DOMAIN schedules /\ schedules'[s] = schedules[s]
      BY <2>4 DEF ReminderInv, RemindersBounded
    <2> QED BY <2>1, <2>2, <2>3, <2>4 DEF RowStep
  <1>3. ReminderInv => RemindersBounded
    BY DEF ReminderInv
  <1> QED BY <1>1, <1>2, <1>3, TypeCorrect, PTL DEF Spec

-----------------------------------------------------------------------------
(* The reminders a consumer ends up with.                                   *)

\* The rows whose reminders no following transaction announces.
Plain(s) == Txs = {} \/ schedules[s].series = 0

\* Following transactions are about series, and a schedule stays in its series.
SeriesOnly ==
    \A t \in DOMAIN following : \A x \in DOMAIN following[t].before :
        x \in DOMAIN schedules => schedules[x].series # 0

RemindersTold == \A s \in DOMAIN schedules : Plain(s) => Told(s)

\* A step leaves a row in its series.
LEMMA SeriesStay ==
    ASSUME TypeOK, [Next]_vars
    PROVE  \A s \in DOMAIN schedules' :
               \/ s \in DOMAIN schedules /\ schedules'[s].series = schedules[s].series
               \/ s \notin DOMAIN schedules /\ s \notin 1 .. nextID - 1
  <1> DEFINE G == \A s \in DOMAIN schedules' :
                      \/ s \in DOMAIN schedules /\ schedules'[s].series = schedules[s].series
                      \/ s \notin DOMAIN schedules /\ s \notin 1 .. nextID - 1
  <1>1. Shape
    BY StepShape
  <1>2. ASSUME NEW u \in Users, NEW in \in CreateInput, NEW k \in MaybeKey, CreateSchedule(u, in, k)
        PROVE  G
    <2> DEFINE n == IF in.count = 0 THEN 1 ELSE in.count
               rows == [s \in nextID .. nextID + n - 1 |->
                           newSchedule(u, in, nextID, s - nextID)]
    <2>1. schedules' = With(schedules, rows)
      BY <1>2 DEF CreateSchedule
    <2>2. nextID \in Nat /\ n \in Nat
      BY DEF TypeOK, ScheduleRows, CreateInput
    <2>3. \A s \in DOMAIN rows : s \notin 1 .. nextID - 1
      BY <2>2
    <2>4. \A s \in DOMAIN schedules : s \in 1 .. nextID - 1
      BY DEF TypeOK, ScheduleRows
    <2> HIDE DEF rows, n
    <2> QED BY <2>1, <2>3, <2>4 DEF With
  <1>3. ASSUME NEW T, NEW E, Wrote(T, E) PROVE G
    BY <1>3 DEF Wrote
  <1>4. ASSUME NEW u, NEW D, NEW X, Deleted(u, D, X) PROVE G
    BY <1>4 DEF Deleted, deleteRows, Without
  <1>5. ASSUME NEW u \in Users, CleanupDeletedAccount(u) PROVE G
    BY <1>5 DEF CleanupDeletedAccount, Without
  <1>6. CASE Quiet
    BY <1>6 DEF Quiet
  <1> QED BY <1>1, <1>2, <1>3, <1>4, <1>5, <1>6 DEF Shape

\* An open transaction is one that was open, or one that begins with a series.
LEMMA OpenSeries ==
    ASSUME TypeOK, [Next]_vars
    PROVE  \A t \in DOMAIN following' :
               \/ t \in DOMAIN following /\ following'[t] = following[t]
               \/ /\ UNCHANGED schedules
                  /\ \A x \in DOMAIN following'[t].before : schedules[x].series # 0
  <1> DEFINE G == \A t \in DOMAIN following' :
                      \/ t \in DOMAIN following /\ following'[t] = following[t]
                      \/ /\ UNCHANGED schedules
                         /\ \A x \in DOMAIN following'[t].before : schedules[x].series # 0
  <1>1. ASSUME UNCHANGED following PROVE G
    BY <1>1
  <1>2. ASSUME NEW t, following' = Without(following, {t}) PROVE G
    BY <1>2 DEF Without
  <1>3. ASSUME NEW t, NEW u, NEW s, NEW patch, NEW k, BeginFollowing(t, u, s, patch, k)
        PROVE  G
    <2> DEFINE tx == [user |-> u, schedule |-> s, patch |-> patch, key |-> k,
                      ifMatch |-> schedules[s].revision,
                      before |-> [x2 \in followingOf(s) |-> schedules[x2]]]
               g == [x \in {t} |-> tx]
    <2>1. following' = With(following, g) /\ UNCHANGED schedules /\ schedules[s].series # 0
      BY <1>3 DEF BeginFollowing
    <2>2. DOMAIN g = {t} /\ DOMAIN g[t].before = followingOf(s)
      OBVIOUS
    <2>3. \A x \in followingOf(s) : schedules[x].series # 0
      BY <2>1 DEF followingOf
    <2> HIDE DEF tx, g
    <2> QED BY <2>1, <2>2, <2>3 DEF With
  <1> HIDE DEF G
  <1>4. G
    <2>1. ASSUME NEW u, NEW k,
                 \/ \E in : CreateSchedule(u, in, k)
                 \/ \E source, patch : CloneSchedule(u, source, patch, k)
          PROVE  G
      <3>1. ASSUME NEW in, CreateSchedule(u, in, k) PROVE G
        BY <1>1, <3>1 DEF CreateSchedule
      <3> QED BY <2>1, <3>1 DEF CloneSchedule
    <2>3. ASSUME NEW u, NEW k,
                 \/ \E s : DeleteSchedule(u, s, k) \/ DeleteScheduleFollowing(u, s, k)
                 \/ \E ids : BulkDeleteSchedules(u, ids, k)
          PROVE  G
      BY <1>1, <2>3 DEF DeleteSchedule, DeleteScheduleFollowing, BulkDeleteSchedules
    <2>4. ASSUME NEW u, NEW k, NEW s,
                 \/ \E patch : UpdateSchedule(u, s, patch, k)
                 \/ \E m : AddReminder(u, s, m, k) \/ DeleteReminder(u, s, m, k)
          PROVE  G
      <3>1. ASSUME NEW patch, UpdateSchedule(u, s, patch, k) PROVE G
        BY <1>1, <3>1 DEF UpdateSchedule
      <3>2. ASSUME NEW m, AddReminder(u, s, m, k) \/ DeleteReminder(u, s, m, k) PROVE G
        BY <1>1, <3>2 DEF AddReminder, DeleteReminder
      <3> QED BY <2>4, <3>1, <3>2
    <2>5. ASSUME \/ \E u : CleanupDeletedAccount(u)
                 \/ \E q : ExpireCreateKey(q) \/ ExpireMutationKey(q)
                 \/ UNCHANGED vars
          PROVE  G
      BY <1>1, <2>5 DEF CleanupDeletedAccount, ExpireCreateKey, ExpireMutationKey, vars
    <2>2. ASSUME NEW t, CommitFollowing(t) \/ RollbackFollowing(t) PROVE G
      BY <1>2, <2>2 DEF CommitFollowing, RollbackFollowing
    <2> QED BY <1>3, <2>1, <2>2, <2>3, <2>4, <2>5 DEF Next
  <1> QED BY <1>4 DEF G

\* The event of a row stays while the row does.
LEMMA EventOfRowStays ==
    ASSUME TypeOK, KeyInv, EventInv, [Next]_vars,
           NEW s \in DOMAIN schedules', s \in DOMAIN schedules, schedules'[s] = schedules[s],
           Told(s)
    PROVE  Told(s)'
  <1>1. PICK e \in events : /\ e.schedule = s /\ e.revision = schedules[s].revision
                            /\ e.reminders = schedules[s].reminders
    BY DEF Told
  <1>2. RequestShape
    BY StepRequests
  <1>3. CASE EventsStay
    BY <1>1, <1>3 DEF EventsStay, Told
  <1>4. ASSUME NEW u \in Users, CleanupDeletedAccount(u) PROVE e \in events'
    <2>1. /\ events' = {x \in events : x.user # u /\ x.schedule \notin OwnedBy(u)}
          /\ s \notin OwnedBy(u)
      BY <1>4 DEF CleanupDeletedAccount, Without
    <2>2. e.user = schedules[s].user
      BY <1>1 DEF EventInv, RowsAnnounced, EventsOwned
    <2> QED BY <1>1, <2>1, <2>2 DEF OwnedBy
  <1> QED BY <1>1, <1>2, <1>3, <1>4 DEF RequestShape, Told

\* Every step keeps the plain rows told.
LEMMA ToldStep ==
    TypeOK /\ KeyInv /\ EventInv /\ SeriesOnly /\ RemindersTold /\ [Next]_vars
        => SeriesOnly' /\ RemindersTold'
  <1> SUFFICES ASSUME TypeOK, KeyInv, EventInv, SeriesOnly, RemindersTold, [Next]_vars
               PROVE  SeriesOnly' /\ RemindersTold'
    OBVIOUS
  <1>1. ASSUME NEW t \in DOMAIN following', NEW x \in DOMAIN following'[t].before,
               x \in DOMAIN schedules'
        PROVE  schedules'[x].series # 0
    <2>1. CASE t \in DOMAIN following /\ following'[t] = following[t]
      <3>1. x \in 1 .. nextID - 1
        BY <1>1, <2>1 DEF TypeOK, OpenTransactions
      <3>2. x \in DOMAIN schedules /\ schedules'[x].series = schedules[x].series
        BY <1>1, <3>1, SeriesStay
      <3> QED BY <1>1, <2>1, <3>2 DEF SeriesOnly
    <2> QED BY <1>1, <2>1, OpenSeries
  <1>2. ASSUME NEW s \in DOMAIN schedules', Plain(s)' PROVE Told(s)'
    <2>1. RowStep(s)
      BY StepRows
    <2>2. s \in DOMAIN schedules => Plain(s)
      BY <1>2, SeriesStay DEF Plain
    <2>3. CASE s \in DOMAIN schedules /\ schedules'[s] = schedules[s]
      BY <2>2, <2>3, EventOfRowStays DEF RemindersTold
    <2>4. ASSUME RemindersLeft(s), NEW t \in DOMAIN following, s \in DOMAIN following[t].before
          PROVE  FALSE
      <3>1. s \in DOMAIN schedules /\ schedules[s].series # 0
        BY <2>4 DEF RemindersLeft, SeriesOnly
      <3>2. Txs # {}
        BY DEF TypeOK, OpenTransactions
      <3> QED BY <2>2, <3>1, <3>2 DEF Plain
    <2> QED BY <2>1, <2>3, <2>4 DEF RowStep
  <1> QED BY <1>1, <1>2 DEF SeriesOnly, RemindersTold

\* The latest event of a row is the one at its revision.
LEMMA LatestTold ==
    ASSUME TypeOK, EventInv, NEW e \in events, Latest(e), e.schedule \in DOMAIN schedules,
           Told(e.schedule)
    PROVE  e.reminders = schedules[e.schedule].reminders
  <1>1. e.revision = schedules[e.schedule].revision
    BY EventInvConverges DEF EventsConverge
  <1>2. PICK f \in events : /\ f.schedule = e.schedule
                            /\ f.revision = schedules[e.schedule].revision
                            /\ f.reminders = schedules[e.schedule].reminders
    BY DEF Told
  <1>3. e = f
    BY <1>1, <1>2 DEF EventInv, RevisionsOrdered
  <1> QED BY <1>2, <1>3

\* The latest event of every schedule carries its reminders, occurrences included.
RemindersConverge ==
    \A e \in events : Latest(e) /\ e.schedule \in DOMAIN schedules =>
        e.reminders = schedules[e.schedule].reminders

\* The invariants of this section hold.
LEMMA ToldInvariant == Spec => [](TypeOK /\ EventInv /\ RemindersTold)
  <1>1. Init => KeyInv /\ SeriesOnly /\ RemindersTold
    BY DEF Init, KeyInv, SeriesOnly, RemindersTold
  <1> QED BY <1>1, KeyStep, ToldStep, TypeCorrect, EventInvariant, PTL DEF Spec

\* A consumer ends up with the reminders of every schedule that is not part of a
\* series, whatever else goes on at the same time.
THEOREM SinglesConverge == Spec => []SingleRemindersConverge
  <1>1. TypeOK /\ EventInv /\ RemindersTold => SingleRemindersConverge
    BY LatestTold DEF SingleRemindersConverge, RemindersTold, Plain
  <1> QED BY <1>1, ToldInvariant, PTL

\* ... and with those of every schedule, series included, as long as no PATCH
\* scope=following is open: the stale snapshot of that transaction is the only
\* way an event can carry other reminders than its row.
THEOREM RemindersAllConverge ==
    ASSUME Txs = {}
    PROVE  Spec => []RemindersConverge
  <1>1. TypeOK /\ EventInv /\ RemindersTold => RemindersConverge
    BY LatestTold DEF RemindersConverge, RemindersTold, Plain
  <1> QED BY <1>1, ToldInvariant, PTL
=============================================================================
