------------------------- MODULE ScheduleStoreProofs -------------------------
(***************************************************************************)
(* Proofs about ScheduleStore for every value of its constants.            *)
(*                                                                         *)
(* First the types, action by action.  Then every step is given one of few *)
(* shapes (rows created, written, deleted, an account cleaned up, nothing) *)
(* and the events are followed through the shapes: EventInv says that the  *)
(* events of a schedule are numbered 1 .. n, that n is the revision of its *)
(* row while there is one, and that event n is a deletion when not.        *)
(***************************************************************************)
EXTENDS ScheduleStore, FiniteSetTheorems, TLAPS

-----------------------------------------------------------------------------
(* Operators.                                                              *)

\* A table with rows inserted: its ids and its rows.
LEMMA WithRows ==
    ASSUME NEW f, NEW g
    PROVE  /\ DOMAIN With(f, g) = DOMAIN f \cup DOMAIN g
           /\ \A x \in DOMAIN g : With(f, g)[x] = g[x]
           /\ \A x \in DOMAIN f \ DOMAIN g : With(f, g)[x] = f[x]
  BY DEF With

\* A table with rows removed: its ids and its rows.
LEMMA WithoutRows ==
    ASSUME NEW f, NEW D
    PROVE  /\ DOMAIN Without(f, D) = DOMAIN f \ D
           /\ \A x \in DOMAIN f \ D : Without(f, D)[x] = f[x]
  BY DEF Without

\* Merging a patch into fields gives fields.
LEMMA MergeType ==
    ASSUME NEW before \in Fields, NEW patch \in Patch
    PROVE  mergeSchedulePatchFields(before, patch) \in Fields
  BY NullsAssumption DEF mergeSchedulePatchFields, Pick, Fields, Patch

\* Shifting another occurrence gives fields.
LEMMA ShiftType ==
    ASSUME NEW before \in Fields, NEW patch \in Patch,
           NEW old \in Fields, NEW new \in Fields
    PROVE  shiftOccurrence(before, patch, old, new) \in Fields
  BY MergeType, NullsAssumption DEF shiftOccurrence, Pick, Fields, Patch

\* A clone is created from an input like any other, whenever its reminders
\* are read.
LEMMA CloneInputType ==
    ASSUME TypeOK, NEW source \in events, source.subject # "deleted", NEW patch \in Patches,
           NEW reminders \in rereads(source)
    PROVE  cloneInput(source, reminders, patch) \in CreateInput
  <1>1. source.fields \in Fields
    BY DEF TypeOK, Event
  <1>2. reminders \subseteq Reminder
    BY DEF TypeOK, Event, ScheduleRows, Schedule, rereads
  <1>3. mergeSchedulePatchFields(source.fields, patch) \in Fields
    BY <1>1, InputsAssumption, MergeType
  <1>4. {r.minutes : r \in reminders} \subseteq Minutes
    BY <1>2 DEF Reminder
  <1> QED BY <1>3, <1>4 DEF cloneInput, CreateInput

\* What a following transaction writes has the type of fields.
LEMMA FollowingType ==
    ASSUME TypeOK, NEW t \in DOMAIN following, NEW x \in DOMAIN following[t].before
    PROVE  followingFields(following[t], x) \in Fields
  <1>1. following[t].before[x].fields \in Fields
    BY DEF TypeOK, OpenTransactions, Schedule
  <1>2. following[t].before[following[t].schedule].fields \in Fields
    BY DEF TypeOK, OpenTransactions, Schedule
  <1>3. following[t].patch \in Patch
    BY InputsAssumption DEF TypeOK, OpenTransactions
  <1>4. mergeSchedulePatchFields(following[t].before[following[t].schedule].fields,
                                 following[t].patch) \in Fields
    BY <1>2, <1>3, MergeType
  <1> QED
    BY <1>1, <1>2, <1>3, <1>4, ShiftType DEF followingFields

\* A saved mutation request is typed when its parts are.
LEMMA SaveMutationType ==
    ASSUME TypeOK, NEW u \in Users, NEW op \in Operations, NEW k \in MaybeKey,
           NEW s \in Nat, NEW request, NEW response \in ResponseOf(op),
           saveMutation(u, op, k, s, request, response),
           UNCHANGED createRequests
    PROVE  RequestRows'
  <1> USE NullsAssumption
  <1>1. CASE k = NoKey
    BY <1>1 DEF saveMutation, TypeOK, RequestRows
  <1>2. CASE k # NoKey
    <2> DEFINE g == [q \in {<<u, op, k>>} |->
                      [schedule |-> s, request |-> request, response |-> response]]
    <2>1. mutationRequests' = With(mutationRequests, g)
      BY <1>2 DEF saveMutation
    <2>2. SUFFICES ASSUME NEW q \in DOMAIN mutationRequests'
                   PROVE  /\ q \in Users \X Operations \X Keys
                          /\ mutationRequests'[q].schedule \in Nat
                          /\ mutationRequests'[q].response \in ResponseOf(q[2])
      BY DEF TypeOK, RequestRows
    <2>3. CASE q = <<u, op, k>>
      BY <1>2, <2>1, <2>3 DEF With, MaybeKey
    <2>4. CASE q # <<u, op, k>>
      BY <2>1, <2>2, <2>4 DEF With, TypeOK, RequestRows
    <2> QED BY <2>3, <2>4
  <1> QED BY <1>1, <1>2

\* Rewriting rows with typed rows keeps the tables typed.
LEMMA WriteRowsType ==
    ASSUME ScheduleRows, NEW rows, DOMAIN rows \subseteq DOMAIN schedules,
           \A x \in DOMAIN rows : rows[x] \in Schedule,
           schedules' = With(schedules, rows), UNCHANGED <<series, nextID>>
    PROVE  ScheduleRows'
  BY DEF ScheduleRows, With

\* Deleting rows, with their events and the orphaned series, keeps the types.
LEMMA DeleteRowsType ==
    ASSUME TypeOK, NEW D, D \subseteq DOMAIN schedules, NEW X, deleteRows(D, X),
           UNCHANGED nextID
    PROVE  ScheduleRows' /\ events' \subseteq Event
  <1>1. ScheduleRows'
    BY DEF TypeOK, ScheduleRows, deleteRows, Without
  <1>2. \A s \in D : deletedEvent(s, schedules[s]) \in Event
    BY DEF TypeOK, ScheduleRows, Schedule, deletedEvent, Event
  <1>3. events' \subseteq Event
    BY <1>2 DEF TypeOK, deleteRows
  <1> QED BY <1>1, <1>3

\* A typed row stays typed under the changes the transactions make to it.
LEMMA RowType ==
    ASSUME NEW row \in Schedule, NEW fields \in Fields, NEW R \in SUBSET Reminder
    PROVE  /\ [row EXCEPT !.fields = fields, !.revision = @ + 1] \in Schedule
           /\ [row EXCEPT !.reminders = R, !.revision = @ + 1] \in Schedule
           /\ [row EXCEPT !.reminders = R] \in Schedule
  <1>1. row.revision + 1 \in Nat
    BY DEF Schedule
  <1>2. [row EXCEPT !.fields = fields, !.revision = @ + 1] \in Schedule
    BY <1>1 DEF Schedule
  <1>3. [row EXCEPT !.reminders = R, !.revision = @ + 1] \in Schedule
    BY <1>1 DEF Schedule
  <1>4. [row EXCEPT !.reminders = R] \in Schedule
    BY DEF Schedule
  <1> QED BY <1>2, <1>3, <1>4

\* The event of a typed row is typed.
LEMMA EventType ==
    ASSUME NEW row \in Schedule, NEW s \in Nat, NEW subject \in {"created", "updated"}
    PROVE  toScheduleEvent(subject, s, row) \in Event /\ toSnapshot(s, row) \in Snapshot
  BY DEF Schedule, Event, Snapshot, toScheduleEvent, toSnapshot

\* A new row is typed.
LEMMA NewScheduleType ==
    ASSUME NEW u \in Users, NEW in \in CreateInput, NEW id \in Nat, NEW i \in Nat
    PROVE  newSchedule(u, in, id, i) \in Schedule
  <1>1. in \in CreateInput
    BY InputsAssumption
  <1>2. occurrence(in.fields, i) \in Fields
    BY <1>1, NullsAssumption DEF occurrence, CreateInput, Fields
  <1>3. [added : {1}, minutes : in.minutes] \subseteq Reminder
    BY <1>1 DEF CreateInput, Reminder
  <1> QED
    BY <1>1, <1>2, <1>3 DEF newSchedule, Schedule, CreateInput

-----------------------------------------------------------------------------
(* Type correctness, one lemma per group of actions.                       *)

\* A creation keeps the types.
LEMMA CreateType ==
    ASSUME TypeOK, NEW u \in Users, NEW in \in CreateInput, NEW k \in MaybeKey,
           CreateSchedule(u, in, k)
    PROVE  TypeOK'
  <1> DEFINE n == IF in.count = 0 THEN 1 ELSE in.count
             rows == [s \in nextID .. nextID + n - 1 |->
                         newSchedule(u, in, nextID, s - nextID)]
  <1>1. n \in Nat \ {0} /\ nextID \in Nat \ {0}
    BY InputsAssumption DEF CreateInput, TypeOK, ScheduleRows
  <1>2. /\ schedules' = With(schedules, rows)
        /\ series' = IF in.count = 0 THEN series
                     ELSE With(series, [x \in {nextID} |-> u])
        /\ events' = events \cup {toScheduleEvent("created", s, rows[s]) : s \in DOMAIN rows}
        /\ saveCreate(u, k, in, toSnapshot(nextID, rows[nextID]))
        /\ nextID' = nextID + n
        /\ UNCHANGED <<mutationRequests, tombstones, following>>
    BY DEF CreateSchedule
  <1>3. \A s \in DOMAIN rows : s \in Nat /\ s - nextID \in Nat
    BY <1>1
  <1>4. \A s \in DOMAIN rows : rows[s] \in Schedule
    BY <1>1, <1>3, NewScheduleType
  <1>5. nextID \in DOMAIN rows
    BY <1>1
  <1> HIDE DEF rows, n
  <1>6. ScheduleRows'
    <2>1. \A s \in DOMAIN schedules' : s \in 1 .. nextID' - 1 /\ schedules'[s] \in Schedule
      BY <1>1, <1>2, <1>4 DEF With, TypeOK, ScheduleRows, rows
    <2>2. \A x \in DOMAIN series' : x \in 1 .. nextID' - 1 /\ series'[x] \in Users
      BY <1>1, <1>2 DEF With, TypeOK, ScheduleRows
    <2> QED BY <1>1, <1>2, <2>1, <2>2 DEF ScheduleRows
  <1>7. \A s \in DOMAIN rows : toScheduleEvent("created", s, rows[s]) \in Event
    BY <1>3, <1>4, EventType
  <1>8. toSnapshot(nextID, rows[nextID]) \in Snapshot
    BY <1>3, <1>4, <1>5, EventType
  <1>9. RequestRows'
    <2>1. CASE k = NoKey
      BY <1>2, <2>1 DEF saveCreate, TypeOK, RequestRows
    <2>2. CASE k # NoKey
      BY <1>2, <1>8, <2>2 DEF saveCreate, With, TypeOK, RequestRows, MaybeKey
    <2> QED BY <2>1, <2>2
  <1>10. OpenTransactions'
    BY <1>1, <1>2 DEF TypeOK, OpenTransactions
  <1> QED
    BY <1>2, <1>6, <1>7, <1>9, <1>10 DEF TypeOK

\* One row rewritten: the updates of a schedule and of its reminders.
LEMMA WriteRowType ==
    ASSUME TypeOK, NEW s \in DOMAIN schedules, NEW row \in Schedule,
           schedules' = With(schedules, [x \in {s} |-> row]),
           events' = events \cup {toScheduleEvent("updated", s, row)},
           RequestRows', UNCHANGED <<series, tombstones, nextID, following>>
    PROVE  TypeOK'
  <1>1. ScheduleRows'
    BY DEF TypeOK, ScheduleRows, With
  <1>2. s \in Nat
    BY DEF TypeOK, ScheduleRows
  <1>3. toScheduleEvent("updated", s, row) \in Event
    BY <1>2, EventType
  <1>4. OpenTransactions'
    BY DEF TypeOK, OpenTransactions
  <1> QED BY <1>1, <1>3, <1>4 DEF TypeOK

\* PATCH scope=this keeps the types.
LEMMA UpdateType ==
    ASSUME TypeOK, NEW u \in Users, NEW s \in DOMAIN schedules,
           NEW patch \in Patches, NEW k \in MaybeKey, UpdateSchedule(u, s, patch, k)
    PROVE  TypeOK'
  <1> DEFINE fields == mergeSchedulePatchFields(schedules[s].fields, patch)
             row == [schedules[s] EXCEPT !.fields = fields, !.revision = @ + 1]
  <1>1. schedules[s] \in Schedule /\ s \in Nat
    BY DEF TypeOK, ScheduleRows
  <1>2. fields \in Fields
    BY <1>1, InputsAssumption, MergeType DEF Schedule
  <1>3. row \in Schedule
    <2> HIDE DEF fields
    <2> QED BY <1>1, <1>2, RowType DEF Schedule
  <1>4. toSnapshot(s, row) \in ResponseOf("update")
    BY <1>1, <1>3, EventType DEF ResponseOf
  <1>5. RequestRows'
    BY <1>1, <1>4, SaveMutationType DEF UpdateSchedule, Operations
  <1> QED
    BY <1>3, <1>5, WriteRowType DEF UpdateSchedule

\* Opening a following transaction keeps the types.
LEMMA BeginType ==
    ASSUME TypeOK, NEW t \in Txs, NEW u \in Users, NEW s \in DOMAIN schedules,
           NEW patch \in Patches, NEW k \in MaybeKey, BeginFollowing(t, u, s, patch, k)
    PROVE  TypeOK'
  <1>1. schedules[s] \in Schedule /\ s \in followingOf(s)
    BY DEF TypeOK, ScheduleRows, Schedule, followingOf
  <1>2. followingOf(s) \subseteq DOMAIN schedules
    BY DEF followingOf
  <1> DEFINE tx == [user |-> u, schedule |-> s, patch |-> patch, key |-> k,
                    ifMatch |-> schedules[s].revision,
                    before |-> [x2 \in followingOf(s) |-> schedules[x2]]]
  <1>3. following' = With(following, [x \in {t} |-> tx])
    BY DEF BeginFollowing
  <1>4. /\ tx.user \in Users /\ tx.patch \in Patches /\ tx.key \in MaybeKey
        /\ tx.ifMatch \in Nat /\ tx.schedule \in DOMAIN tx.before
        /\ \A x \in DOMAIN tx.before : x \in 1 .. nextID - 1 /\ tx.before[x] \in Schedule
    BY <1>1, <1>2 DEF TypeOK, ScheduleRows, Schedule
  <1> HIDE DEF tx
  <1>5. OpenTransactions'
    BY <1>3, <1>4 DEF BeginFollowing, With, TypeOK, OpenTransactions
  <1> QED
    BY <1>5 DEF BeginFollowing, TypeOK, ScheduleRows, RequestRows

\* Committing a following transaction keeps the types.
LEMMA CommitType ==
    ASSUME TypeOK, NEW t \in DOMAIN following, CommitFollowing(t)
    PROVE  TypeOK'
  <1> DEFINE f == following[t]
             targets == DOMAIN f.before
             rows == [x \in targets |-> followingRow(f, x)]
  <1>1. \A x \in targets : x \in DOMAIN schedules /\ schedules[x] \in Schedule /\ x \in Nat
    BY DEF CommitFollowing, Owned, TypeOK, ScheduleRows
  <1>2. \A x \in targets : followingFields(f, x) \in Fields
    BY FollowingType
  <1>3. f.schedule \in targets /\ f.user \in Users /\ f.key \in MaybeKey
        /\ \A x \in targets : f.before[x] \in Schedule
    BY DEF TypeOK, OpenTransactions
  <1>4. \A x \in targets : followingRow(f, x) \in Schedule
    BY <1>1, <1>2, RowType DEF followingRow, Schedule
  <1>5. \A x \in targets : followingRead(f, x) \in Schedule
    BY <1>3, <1>4, RowType DEF followingRead, Schedule
  <1>6. /\ schedules' = With(schedules, rows)
        /\ events' = events \cup
               {toScheduleEvent("updated", x, followingRead(f, x)) : x \in targets}
        /\ saveMutation(f.user, "update", f.key, f.schedule,
               updateRequest("following", f.patch, f.ifMatch),
               toSnapshot(f.schedule, followingRead(f, f.schedule)))
        /\ following' = Without(following, {t})
        /\ UNCHANGED <<series, createRequests, tombstones, nextID>>
    BY DEF CommitFollowing
  <1> HIDE DEF f
  <1>7. ScheduleRows'
    <2>1. DOMAIN rows \subseteq DOMAIN schedules /\ \A x \in DOMAIN rows : rows[x] \in Schedule
      BY <1>1, <1>4
    <2> HIDE DEF rows
    <2> QED BY <1>6, <2>1, WriteRowsType DEF TypeOK
  <1>8. \A x \in targets : toScheduleEvent("updated", x, followingRead(f, x)) \in Event
    BY <1>1, <1>5, EventType
  <1>9. toSnapshot(f.schedule, followingRead(f, f.schedule)) \in ResponseOf("update")
    BY <1>1, <1>3, <1>5, EventType DEF ResponseOf
  <1>10. RequestRows'
    BY <1>1, <1>3, <1>6, <1>9, SaveMutationType DEF Operations
  <1>11. OpenTransactions'
    BY <1>6 DEF TypeOK, OpenTransactions, Without
  <1> QED
    BY <1>6, <1>7, <1>8, <1>10, <1>11 DEF TypeOK

\* A deletion, of whatever rows, keeps the types.
LEMMA DeleteType ==
    ASSUME TypeOK, NEW u \in Users, NEW op \in Operations, NEW k \in MaybeKey,
           NEW s \in Nat, NEW request, NEW response \in ResponseOf(op),
           NEW D, D \subseteq DOMAIN schedules, NEW X, deleteRows(D, X),
           saveMutation(u, op, k, s, request, response),
           UNCHANGED <<createRequests, tombstones, nextID, following>>
    PROVE  TypeOK'
  <1>1. ScheduleRows' /\ events' \subseteq Event
    BY DeleteRowsType
  <1>2. RequestRows'
    BY SaveMutationType
  <1>3. OpenTransactions'
    BY DEF TypeOK, OpenTransactions
  <1> QED BY <1>1, <1>2, <1>3 DEF TypeOK

\* Adding a reminder keeps the types.
LEMMA AddReminderType ==
    ASSUME TypeOK, NEW u \in Users, NEW s \in DOMAIN schedules,
           NEW m \in Minutes, NEW k \in MaybeKey, AddReminder(u, s, m, k)
    PROVE  TypeOK'
  <1> DEFINE created == [added |-> schedules[s].revision + 1, minutes |-> m]
             R == schedules[s].reminders \cup {created}
             row == [schedules[s] EXCEPT !.reminders = R, !.revision = @ + 1]
  <1>1. schedules[s] \in Schedule /\ s \in Nat
    BY DEF TypeOK, ScheduleRows
  <1>2. created \in Reminder
    BY <1>1 DEF Schedule, Reminder
  <1>3. R \in SUBSET Reminder
    BY <1>1, <1>2 DEF Schedule
  <1>4. row \in Schedule
    <2> HIDE DEF R
    <2> QED BY <1>1, <1>3, RowType DEF Schedule
  <1>5. RequestRows'
    BY <1>1, <1>2, SaveMutationType DEF AddReminder, Operations, ResponseOf
  <1> QED
    BY <1>4, <1>5, WriteRowType DEF AddReminder, setReminders

\* Deleting a reminder keeps the types.
LEMMA DeleteReminderType ==
    ASSUME TypeOK, NEW u \in Users, NEW s \in DOMAIN schedules,
           NEW r, NEW k \in MaybeKey, DeleteReminder(u, s, r, k)
    PROVE  TypeOK'
  <1> DEFINE R == schedules[s].reminders \ {r}
             row == [schedules[s] EXCEPT !.reminders = R, !.revision = @ + 1]
  <1>1. schedules[s] \in Schedule /\ s \in Nat
    BY DEF TypeOK, ScheduleRows
  <1>2. R \in SUBSET Reminder
    BY <1>1 DEF Schedule
  <1>3. row \in Schedule
    <2> HIDE DEF R
    <2> QED BY <1>1, <1>2, RowType DEF Schedule
  <1>4. NoResponse \in ResponseOf("reminder-delete")
    BY DEF NoResponse, ResponseOf
  <1>5. RequestRows'
    BY <1>1, <1>4, SaveMutationType DEF DeleteReminder, Operations
  <1> QED
    BY <1>3, <1>5, WriteRowType DEF DeleteReminder, setReminders

\* The cleanup of an account keeps the types.
LEMMA CleanupType ==
    ASSUME TypeOK, NEW u \in Users, CleanupDeletedAccount(u)
    PROVE  TypeOK'
  <1>1. ScheduleRows'
    BY DEF CleanupDeletedAccount, TypeOK, ScheduleRows, Without
  <1>2. RequestRows'
    BY DEF CleanupDeletedAccount, TypeOK, RequestRows, Without
  <1>3. OpenTransactions'
    BY DEF CleanupDeletedAccount, TypeOK, OpenTransactions
  <1> QED
    BY <1>1, <1>2, <1>3 DEF CleanupDeletedAccount, TypeOK

\* A transaction that rolls back, and a key that expires.
LEMMA ForgetType ==
    ASSUME TypeOK,
           \/ \E t \in DOMAIN following : RollbackFollowing(t)
           \/ \E q \in DOMAIN createRequests : ExpireCreateKey(q)
           \/ \E q \in DOMAIN mutationRequests : ExpireMutationKey(q)
    PROVE  TypeOK'
  <1>1. ScheduleRows' /\ tombstones' = tombstones /\ events' = events
    BY DEF RollbackFollowing, ExpireCreateKey, ExpireMutationKey, TypeOK, ScheduleRows
  <1>2. RequestRows'
    BY DEF RollbackFollowing, ExpireCreateKey, ExpireMutationKey, TypeOK, RequestRows, Without
  <1>3. OpenTransactions'
    BY DEF RollbackFollowing, ExpireCreateKey, ExpireMutationKey, TypeOK, OpenTransactions, Without
  <1> QED BY <1>1, <1>2, <1>3 DEF TypeOK

\* The table is finite, so the number of deleted rows is a number.
LEMMA CountType ==
    ASSUME TypeOK, NEW D, D \subseteq DOMAIN schedules
    PROVE  Cardinality(D) \in Nat
  <1>1. D \subseteq 1 .. nextID - 1 /\ 1 \in Int /\ nextID - 1 \in Int
    BY DEF TypeOK, ScheduleRows
  <1>2. IsFiniteSet(1 .. nextID - 1)
    BY <1>1, FS_Interval
  <1>3. IsFiniteSet(D)
    BY <1>1, <1>2, FS_Subset
  <1> QED BY <1>3, FS_CardinalityType

\* The empty tables have the types.
LEMMA TypeInit == Init => TypeOK
  BY DEF Init, TypeOK, ScheduleRows, RequestRows, OpenTransactions

\* Every step keeps the types.
LEMMA TypeStep == TypeOK /\ [Next]_vars => TypeOK'
  <1> SUFFICES ASSUME TypeOK, [Next]_vars PROVE TypeOK'
    OBVIOUS
  <1>1. ASSUME NEW u \in Users, NEW k \in MaybeKey, NEW in \in CreateInput,
               CreateSchedule(u, in, k)
        PROVE  TypeOK'
    BY <1>1, CreateType
  <1>12. ASSUME NEW u \in Users, NEW k \in MaybeKey, NEW source \in events,
                NEW patch \in Patches, CloneSchedule(u, source, patch, k)
         PROVE  TypeOK'
    BY <1>12, CloneInputType, CreateType DEF CloneSchedule
  <1>2. ASSUME NEW u \in Users, NEW k \in MaybeKey, NEW s \in DOMAIN schedules,
               NEW patch \in Patches, UpdateSchedule(u, s, patch, k)
        PROVE  TypeOK'
    BY <1>2, UpdateType
  <1>3. ASSUME NEW u \in Users, NEW k \in MaybeKey, NEW s \in DOMAIN schedules,
               NEW t \in Txs, NEW patch \in Patches, BeginFollowing(t, u, s, patch, k)
        PROVE  TypeOK'
    BY <1>3, BeginType
  <1>4. ASSUME NEW u \in Users, NEW k \in MaybeKey, NEW s \in DOMAIN schedules,
               DeleteSchedule(u, s, k)
        PROVE  TypeOK'
    <2>1. s \in Nat /\ NoResponse \in ResponseOf("delete") /\ "delete" \in Operations
      BY DEF TypeOK, ScheduleRows, NoResponse, ResponseOf, Operations
    <2> QED BY <1>4, <2>1, DeleteType DEF DeleteSchedule
  <1>5. ASSUME NEW u \in Users, NEW k \in MaybeKey, NEW s \in DOMAIN schedules,
               DeleteScheduleFollowing(u, s, k)
        PROVE  TypeOK'
    <2>1. followingOf(s) \subseteq DOMAIN schedules
      BY DEF followingOf
    <2>2. /\ s \in Nat /\ "delete-following" \in Operations
          /\ Cardinality(followingOf(s)) \in ResponseOf("delete-following")
      BY <2>1, CountType DEF TypeOK, ScheduleRows, ResponseOf, Operations
    <2> QED BY <1>5, <2>1, <2>2, DeleteType DEF DeleteScheduleFollowing
  <1>6. ASSUME NEW u \in Users, NEW k \in MaybeKey, NEW ids \in SUBSET DOMAIN schedules,
               BulkDeleteSchedules(u, ids, k)
        PROVE  TypeOK'
    <2>1. /\ 0 \in Nat /\ "bulk-delete" \in Operations
          /\ Cardinality(ids) \in ResponseOf("bulk-delete")
      BY CountType DEF ResponseOf, Operations
    <2> QED BY <1>6, <2>1, DeleteType DEF BulkDeleteSchedules
  <1>7. ASSUME NEW u \in Users, NEW k \in MaybeKey, NEW s \in DOMAIN schedules,
               NEW m \in Minutes, AddReminder(u, s, m, k)
        PROVE  TypeOK'
    BY <1>7, AddReminderType
  <1>8. ASSUME NEW u \in Users, NEW k \in MaybeKey, NEW s \in DOMAIN schedules,
               NEW r \in schedules[s].reminders, DeleteReminder(u, s, r, k)
        PROVE  TypeOK'
    BY <1>8, DeleteReminderType
  <1>9. ASSUME NEW t \in DOMAIN following, CommitFollowing(t)
        PROVE  TypeOK'
    BY <1>9, CommitType
  <1>10. ASSUME NEW u \in Users, CleanupDeletedAccount(u)
         PROVE  TypeOK'
    BY <1>10, CleanupType
  <1>11. CASE UNCHANGED vars
    BY <1>11 DEF vars, TypeOK, ScheduleRows, RequestRows, OpenTransactions
  <1> QED
    BY <1>1, <1>2, <1>3, <1>4, <1>5, <1>6, <1>7, <1>8, <1>9, <1>10, <1>11, <1>12,
       ForgetType, InputsAssumption DEF Next, bulkRequests

\* The tables keep their types, for any accounts, keys, inputs and bounds.
THEOREM TypeCorrect == Spec => []TypeOK
  BY TypeInit, TypeStep, PTL DEF Spec

-----------------------------------------------------------------------------
(* The shapes of a step: what it does to the schedules and the outbox.     *)

\* The rows of T are written, each announced by one event of E.
Wrote(T, E) ==
    /\ T \subseteq DOMAIN schedules
    /\ DOMAIN schedules' = DOMAIN schedules
    /\ \A x \in DOMAIN schedules \ T : schedules'[x] = schedules[x]
    /\ \A x \in T :
           /\ schedules'[x].revision = schedules[x].revision + 1
           /\ schedules'[x].user = schedules[x].user
           /\ schedules'[x].series = schedules[x].series
           /\ schedules'[x].fields = schedules[x].fields
              \/ validateScheduleFields(schedules'[x].fields)
    /\ events' = events \cup E
    /\ \A e \in E :
           /\ e.schedule \in T
           /\ e.subject = "updated"
           /\ e.user = schedules'[e.schedule].user
           /\ e.revision = schedules'[e.schedule].revision
           /\ e.fields = schedules'[e.schedule].fields
    /\ \A x \in T : \E e \in E : e.schedule = x
    /\ \A e, f \in E : e.schedule = f.schedule => e = f
    /\ UNCHANGED <<series, tombstones, nextID>>

\* The rows of D are deleted, and the orphaned series of X with them.
Deleted(u, D, X) ==
    /\ D \subseteq DOMAIN schedules
    /\ \A s \in D : schedules[s].user = u
    /\ \/ X = seriesOf(u)
       \/ \A s \in D : schedules[s].series \in X
    /\ deleteRows(D, X)
    /\ UNCHANGED <<tombstones, nextID>>

\* The step touches neither the schedules nor the outbox.
Quiet == UNCHANGED <<schedules, series, events, tombstones, nextID>>

Shape ==
    \/ \E u \in Users, in \in CreateInput, k \in MaybeKey : CreateSchedule(u, in, k)
    \/ \E T, E : Wrote(T, E)
    \/ \E u, D, X : Deleted(u, D, X)
    \/ \E u \in Users : CleanupDeletedAccount(u)
    \/ Quiet

\* One row written with one event.
LEMMA WroteOne ==
    ASSUME TypeOK, NEW s \in DOMAIN schedules, NEW row,
           row.revision = schedules[s].revision + 1,
           row.user = schedules[s].user, row.series = schedules[s].series,
           row.fields = schedules[s].fields \/ validateScheduleFields(row.fields),
           schedules' = With(schedules, [x \in {s} |-> row]),
           events' = events \cup {toScheduleEvent("updated", s, row)},
           UNCHANGED <<series, tombstones, nextID>>
    PROVE  Shape
  <1>1. /\ DOMAIN schedules' = DOMAIN schedules
        /\ schedules'[s] = row
        /\ \A x \in DOMAIN schedules \ {s} : schedules'[x] = schedules[x]
    BY DEF With
  <1>2. Wrote({s}, {toScheduleEvent("updated", s, row)})
    BY <1>1 DEF Wrote, toScheduleEvent
  <1> QED BY <1>2 DEF Shape

\* A committed following transaction writes each target once, with its event.
LEMMA CommitShape ==
    ASSUME TypeOK, NEW t \in DOMAIN following, CommitFollowing(t)
    PROVE  Shape
  <1> DEFINE f == following[t]
             T == DOMAIN f.before
             E == {toScheduleEvent("updated", x, followingRead(f, x)) : x \in T}
  <1>1. /\ T \subseteq DOMAIN schedules
        /\ \A x \in T : schedules[x] \in Schedule
        /\ \A x \in T : validateScheduleFields(followingFields(f, x))
    BY DEF CommitFollowing, Owned, TypeOK, ScheduleRows
  <1>2. /\ DOMAIN schedules' = DOMAIN schedules
        /\ \A x \in DOMAIN schedules \ T : schedules'[x] = schedules[x]
        /\ \A x \in T : schedules'[x] = followingRow(f, x)
    BY <1>1 DEF CommitFollowing, With
  <1>3. \A x \in T :
           /\ followingRow(f, x).revision = schedules[x].revision + 1
           /\ followingRow(f, x).user = schedules[x].user
           /\ followingRow(f, x).series = schedules[x].series
           /\ followingRow(f, x).fields = followingFields(f, x)
           /\ followingRead(f, x).revision = schedules[x].revision + 1
           /\ followingRead(f, x).user = schedules[x].user
           /\ followingRead(f, x).fields = followingFields(f, x)
    BY <1>1 DEF followingRow, followingRead, Schedule
  <1>4. events' = events \cup E /\ UNCHANGED <<series, tombstones, nextID>>
    BY DEF CommitFollowing
  <1>5. \A e \in E : /\ e.schedule \in T
                     /\ e.subject = "updated"
                     /\ e.user = schedules'[e.schedule].user
                     /\ e.revision = schedules'[e.schedule].revision
                     /\ e.fields = schedules'[e.schedule].fields
    BY <1>2, <1>3 DEF toScheduleEvent
  <1>6. \A x \in T : \E e \in E : e.schedule = x
    <2> TAKE x \in T
    <2> WITNESS toScheduleEvent("updated", x, followingRead(f, x)) \in E
    <2> QED BY DEF toScheduleEvent
  <1>7. \A e, g \in E : e.schedule = g.schedule => e = g
    BY DEF toScheduleEvent
  <1> HIDE DEF f, T, E
  <1>8. Wrote(T, E)
    BY <1>1, <1>2, <1>3, <1>4, <1>5, <1>6, <1>7 DEF Wrote
  <1> QED BY <1>8 DEF Shape

\* Every step has one of the shapes above.
LEMMA StepShape == TypeOK /\ [Next]_vars => Shape
  <1> SUFFICES ASSUME TypeOK, [Next]_vars PROVE Shape
    OBVIOUS
  <1>1. ASSUME NEW u \in Users, NEW k \in MaybeKey, NEW s \in DOMAIN schedules,
               NEW patch \in Patches, UpdateSchedule(u, s, patch, k)
        PROVE  Shape
    <2> DEFINE fields == mergeSchedulePatchFields(schedules[s].fields, patch)
               row == [schedules[s] EXCEPT !.fields = fields, !.revision = @ + 1]
    <2>1. schedules[s] \in Schedule
      BY DEF TypeOK, ScheduleRows
    <2>2. /\ row.revision = schedules[s].revision + 1
          /\ row.user = schedules[s].user /\ row.series = schedules[s].series
          /\ row.fields = fields
      BY <2>1 DEF Schedule
    <2> QED BY <1>1, <2>2, WroteOne DEF UpdateSchedule
  <1>2. ASSUME NEW s \in DOMAIN schedules, NEW R, setReminders(s, R),
               UNCHANGED <<series, tombstones, nextID>>
        PROVE  Shape
    <2> DEFINE row == [schedules[s] EXCEPT !.reminders = R, !.revision = @ + 1]
    <2>1. schedules[s] \in Schedule
      BY DEF TypeOK, ScheduleRows
    <2>2. /\ row.revision = schedules[s].revision + 1
          /\ row.user = schedules[s].user /\ row.series = schedules[s].series
          /\ row.fields = schedules[s].fields
      BY <2>1 DEF Schedule
    <2> QED BY <1>2, <2>2, WroteOne DEF setReminders
  <1>3. ASSUME NEW u \in Users, NEW k \in MaybeKey, NEW s \in DOMAIN schedules,
               DeleteSchedule(u, s, k)
        PROVE  Shape
    <2>1. Deleted(u, {s}, seriesOf(u))
      BY <1>3 DEF DeleteSchedule, Deleted, Owned
    <2> QED BY <2>1 DEF Shape
  <1>4. ASSUME NEW u \in Users, NEW k \in MaybeKey, NEW s \in DOMAIN schedules,
               DeleteScheduleFollowing(u, s, k)
        PROVE  Shape
    <2>1. Deleted(u, followingOf(s), {schedules[s].series})
      BY <1>4 DEF DeleteScheduleFollowing, Deleted, Owned, followingOf
    <2> QED BY <2>1 DEF Shape
  <1>5. ASSUME NEW u \in Users, NEW k \in MaybeKey, NEW ids \in SUBSET DOMAIN schedules,
               BulkDeleteSchedules(u, ids, k)
        PROVE  Shape
    <2>1. Deleted(u, ids, seriesOf(u))
      BY <1>5 DEF BulkDeleteSchedules, Deleted, Owned
    <2> QED BY <2>1 DEF Shape
  <1>6. ASSUME NEW u, NEW k, NEW s \in DOMAIN schedules, NEW m, AddReminder(u, s, m, k)
        PROVE  Shape
    BY <1>2, <1>6 DEF AddReminder
  <1>7. ASSUME NEW u, NEW k, NEW s \in DOMAIN schedules, NEW r, DeleteReminder(u, s, r, k)
        PROVE  Shape
    BY <1>2, <1>7 DEF DeleteReminder
  <1>8. ASSUME \/ \E u \in Users, k \in MaybeKey, s \in DOMAIN schedules, t \in Txs,
                     patch \in Patches : BeginFollowing(t, u, s, patch, k)
               \/ \E t \in DOMAIN following : RollbackFollowing(t)
               \/ \E q \in DOMAIN createRequests : ExpireCreateKey(q)
               \/ \E q \in DOMAIN mutationRequests : ExpireMutationKey(q)
               \/ UNCHANGED vars
        PROVE  Shape
    <2>1. CASE \E u \in Users, k \in MaybeKey, s \in DOMAIN schedules, t \in Txs,
                   patch \in Patches : BeginFollowing(t, u, s, patch, k)
      BY <2>1 DEF Shape, Quiet, BeginFollowing
    <2>2. CASE \E t \in DOMAIN following : RollbackFollowing(t)
      BY <2>2 DEF Shape, Quiet, RollbackFollowing
    <2>3. CASE \E q \in DOMAIN createRequests : ExpireCreateKey(q)
      BY <2>3 DEF Shape, Quiet, ExpireCreateKey
    <2>4. CASE \E q \in DOMAIN mutationRequests : ExpireMutationKey(q)
      BY <2>4 DEF Shape, Quiet, ExpireMutationKey
    <2>5. CASE UNCHANGED vars
      BY <2>5 DEF Shape, Quiet, vars
    <2> QED BY <1>8, <2>1, <2>2, <2>3, <2>4, <2>5
  <1>9. ASSUME \/ \E u \in Users, k \in MaybeKey, in \in Creates : CreateSchedule(u, in, k)
               \/ \E u \in Users : CleanupDeletedAccount(u)
        PROVE  Shape
    BY <1>9, InputsAssumption DEF Shape
  <1>10. ASSUME NEW u \in Users, NEW k \in MaybeKey, NEW source \in events,
                NEW patch \in Patches, CloneSchedule(u, source, patch, k)
         PROVE  Shape
    BY <1>10, CloneInputType DEF CloneSchedule, Shape
  <1> QED
    BY <1>1, <1>3, <1>4, <1>5, <1>6, <1>7, <1>8, <1>9, <1>10, CommitShape
       DEF Next, bulkRequests

-----------------------------------------------------------------------------
(* The outbox tells the table: RevisionsOrdered and EventsConverge.        *)

EventsNumbered ==
    \A e \in events : e.schedule \in 1 .. nextID - 1 /\ e.revision \in Nat \ {0}

\* All events of a schedule are its owner's.
EventsOwned ==
    \A e, f \in events : e.schedule = f.schedule => e.user = f.user

\* The row of s is announced, by an event as high as any other of s.
RowsAnnounced ==
    \A s \in DOMAIN schedules :
        /\ \E e \in events : /\ e.schedule = s
                             /\ e.subject # "deleted"
                             /\ e.user = schedules[s].user
                             /\ e.revision = schedules[s].revision
                             /\ e.fields = schedules[s].fields
        /\ \A e \in events : e.schedule = s => e.revision <= schedules[s].revision

\* A schedule that is gone was announced as deleted, and nothing after that.
GoneAnnounced ==
    \A e \in events : e.schedule \notin DOMAIN schedules =>
        \E d \in events : /\ d.schedule = e.schedule
                          /\ d.subject = "deleted"
                          /\ Latest(d)

\* The inductive invariant: EventsConverge says nothing of the events below
\* the latest one, which a next revision must not meet again.
EventInv ==
    /\ EventsNumbered
    /\ EventsOwned
    /\ RevisionsOrdered
    /\ RowsAnnounced
    /\ GoneAnnounced

\* The event invariant implies that the latest events tell the table.
LEMMA EventInvConverges == TypeOK /\ EventInv => EventsConverge
  <1> SUFFICES ASSUME TypeOK, EventInv PROVE EventsConverge
    OBVIOUS
  <1>1. \A s \in DOMAIN schedules : \E e \in events : e.schedule = s
    BY DEF EventInv, RowsAnnounced
  <1>2. ASSUME NEW e \in events, Latest(e), e.schedule \in DOMAIN schedules
        PROVE  /\ e.subject # "deleted"
               /\ e.revision = schedules[e.schedule].revision
               /\ e.fields = schedules[e.schedule].fields
               /\ e.user = schedules[e.schedule].user
    <2>1. PICK f \in events : /\ f.schedule = e.schedule
                              /\ f.subject # "deleted"
                              /\ f.user = schedules[e.schedule].user
                              /\ f.revision = schedules[e.schedule].revision
                              /\ f.fields = schedules[e.schedule].fields
      BY <1>2 DEF EventInv, RowsAnnounced
    <2>2. f.revision <= e.revision /\ e.revision <= schedules[e.schedule].revision
      BY <1>2, <2>1 DEF Latest, EventInv, RowsAnnounced
    <2>3. e.revision \in Nat /\ f.revision \in Nat
      BY DEF EventInv, EventsNumbered
    <2>4. e = f
      BY <2>1, <2>2, <2>3 DEF EventInv, RevisionsOrdered
    <2> QED BY <2>1, <2>4
  <1>3. ASSUME NEW e \in events, Latest(e), e.schedule \notin DOMAIN schedules
        PROVE  e.subject = "deleted"
    <2>1. PICK d \in events : /\ d.schedule = e.schedule
                              /\ d.subject = "deleted"
                              /\ Latest(d)
      BY <1>3 DEF EventInv, GoneAnnounced
    <2>2. e.revision <= d.revision /\ d.revision <= e.revision
      BY <1>3, <2>1 DEF Latest
    <2>3. e.revision \in Nat /\ d.revision \in Nat
      BY DEF EventInv, EventsNumbered
    <2>4. e = d
      BY <2>1, <2>2, <2>3 DEF EventInv, RevisionsOrdered
    <2> QED BY <2>1, <2>4
  <1> QED BY <1>1, <1>2, <1>3 DEF EventsConverge

\* A creation announces new schedules at revision 1.
LEMMA EventInvCreate ==
    ASSUME TypeOK, EventInv, NEW u \in Users, NEW in \in CreateInput, NEW k \in MaybeKey,
           CreateSchedule(u, in, k)
    PROVE  EventInv'
  <1> DEFINE n == IF in.count = 0 THEN 1 ELSE in.count
             rows == [s \in nextID .. nextID + n - 1 |->
                         newSchedule(u, in, nextID, s - nextID)]
             new == {toScheduleEvent("created", s, rows[s]) : s \in DOMAIN rows}
  <1>1. n \in Nat \ {0} /\ nextID \in Nat \ {0}
    BY InputsAssumption DEF CreateInput, TypeOK, ScheduleRows
  <1>2. schedules' = With(schedules, rows) /\ events' = events \cup new /\ nextID' = nextID + n
    BY DEF CreateSchedule
  <1>3. \A s \in DOMAIN rows : rows[s].user = u /\ rows[s].revision = 1
    BY DEF newSchedule
  <1>4. \A e \in new : /\ e.schedule \in DOMAIN rows
                       /\ e.subject = "created"
                       /\ e.user = u
                       /\ e.revision = 1
                       /\ e.fields = rows[e.schedule].fields
    BY <1>3 DEF toScheduleEvent
  <1>5. \A s \in DOMAIN rows : \E e \in new : e.schedule = s
    <2> TAKE s \in DOMAIN rows
    <2> WITNESS toScheduleEvent("created", s, rows[s]) \in new
    <2> QED BY DEF toScheduleEvent
  <1>6. \A e, f \in new : e.schedule = f.schedule => e = f
    <2>1. \A e \in new : e = toScheduleEvent("created", e.schedule, rows[e.schedule])
      <3> HIDE DEF rows
      <3> QED BY DEF toScheduleEvent
    <2> HIDE DEF new
    <2> QED BY <2>1
  <1>7. \A s \in DOMAIN rows : s >= nextID /\ s \in 1 .. nextID + n - 1
    BY <1>1
  <1> HIDE DEF n, rows, new
  <1>8. \A e \in events : e.schedule \notin DOMAIN rows
    BY <1>1, <1>7 DEF EventInv, EventsNumbered
  <1>9. \A s \in DOMAIN schedules : s \notin DOMAIN rows
    BY <1>1, <1>7 DEF TypeOK, ScheduleRows
  <1>10. /\ DOMAIN schedules' = DOMAIN schedules \cup DOMAIN rows
         /\ \A s \in DOMAIN rows : schedules'[s] = rows[s]
         /\ \A s \in DOMAIN schedules : schedules'[s] = schedules[s]
    BY <1>2, <1>9 DEF With
  <1>11. EventsNumbered'
    BY <1>1, <1>2, <1>4, <1>7 DEF EventInv, EventsNumbered
  <1>12. EventsOwned'
    BY <1>2, <1>4, <1>8 DEF EventInv, EventsOwned
  <1>13. RevisionsOrdered'
    BY <1>2, <1>4, <1>6, <1>8 DEF EventInv, RevisionsOrdered
  <1>14. RowsAnnounced'
    <2>1. ASSUME NEW s \in DOMAIN rows
          PROVE  /\ \E e \in events' : /\ e.schedule = s
                                       /\ e.subject # "deleted"
                                       /\ e.user = schedules'[s].user
                                       /\ e.revision = schedules'[s].revision
                                       /\ e.fields = schedules'[s].fields
                 /\ \A e \in events' : e.schedule = s => e.revision <= schedules'[s].revision
      BY <1>2, <1>3, <1>4, <1>5, <1>8, <1>10
    <2>2. ASSUME NEW s \in DOMAIN schedules
          PROVE  /\ \E e \in events' : /\ e.schedule = s
                                       /\ e.subject # "deleted"
                                       /\ e.user = schedules'[s].user
                                       /\ e.revision = schedules'[s].revision
                                       /\ e.fields = schedules'[s].fields
                 /\ \A e \in events' : e.schedule = s => e.revision <= schedules'[s].revision
      BY <1>2, <1>4, <1>9, <1>10 DEF EventInv, RowsAnnounced
    <2> QED BY <1>10, <2>1, <2>2 DEF RowsAnnounced
  <1>15. GoneAnnounced'
    BY <1>2, <1>4, <1>8, <1>10 DEF EventInv, GoneAnnounced, Latest
  <1> QED BY <1>11, <1>12, <1>13, <1>14, <1>15 DEF EventInv

\* A write announces every row it touches at the next revision.
LEMMA EventInvWrote ==
    ASSUME TypeOK, EventInv, NEW T, NEW E, Wrote(T, E)
    PROVE  EventInv'
  <1>1. /\ T \subseteq DOMAIN schedules
        /\ DOMAIN schedules' = DOMAIN schedules
        /\ \A x \in DOMAIN schedules \ T : schedules'[x] = schedules[x]
        /\ \A x \in T : /\ schedules'[x].revision = schedules[x].revision + 1
                        /\ schedules'[x].user = schedules[x].user
        /\ events' = events \cup E
        /\ nextID' = nextID
    BY DEF Wrote
  <1>2. \A e \in E : /\ e.schedule \in T
                     /\ e.subject = "updated"
                     /\ e.user = schedules'[e.schedule].user
                     /\ e.revision = schedules'[e.schedule].revision
                     /\ e.fields = schedules'[e.schedule].fields
    BY DEF Wrote
  <1>3. /\ \A x \in T : \E e \in E : e.schedule = x
        /\ \A e, f \in E : e.schedule = f.schedule => e = f
    BY DEF Wrote
  <1>4. \A s \in DOMAIN schedules : s \in 1 .. nextID - 1 /\ schedules[s].revision \in Nat
    BY DEF TypeOK, ScheduleRows, Schedule
  <1>5. \A e \in events : e.revision \in Nat \ {0}
    BY DEF EventInv, EventsNumbered
  <1>6. \A e \in events : e.schedule \in T =>
            /\ e.revision <= schedules[e.schedule].revision
            /\ e.user = schedules[e.schedule].user
    BY <1>1 DEF EventInv, RowsAnnounced, EventsOwned
  <1>7. EventsNumbered'
    BY <1>1, <1>2, <1>4 DEF EventInv, EventsNumbered
  <1>8. EventsOwned'
    BY <1>1, <1>2, <1>3, <1>6 DEF EventInv, EventsOwned
  <1>9. RevisionsOrdered'
    <2>1. ASSUME NEW e \in events', NEW f \in events',
                 e.schedule = f.schedule, e.revision = f.revision
          PROVE  e = f
      <3>1. CASE e \in events /\ f \in events
        BY <2>1, <3>1 DEF EventInv, RevisionsOrdered
      <3>2. CASE e \in E /\ f \in E
        BY <1>3, <2>1, <3>2
      <3>3. CASE e \in E /\ f \in events
        BY <1>1, <1>2, <1>4, <1>5, <1>6, <2>1, <3>3
      <3>4. CASE e \in events /\ f \in E
        BY <1>1, <1>2, <1>4, <1>5, <1>6, <2>1, <3>4
      <3> QED BY <1>1, <3>1, <3>2, <3>3, <3>4
    <2>2. ASSUME NEW e \in events', e.revision # 1
          PROVE  \E f \in events' : f.schedule = e.schedule /\ f.revision = e.revision - 1
      <3>1. CASE e \in events
        BY <1>1, <2>2, <3>1 DEF EventInv, RevisionsOrdered
      <3>2. CASE e \in E
        <4>1. e.schedule \in T /\ e.revision = schedules[e.schedule].revision + 1
          BY <1>1, <1>2, <3>2
        <4>2. PICK f \in events : /\ f.schedule = e.schedule
                                  /\ f.revision = schedules[e.schedule].revision
          BY <1>1, <4>1 DEF EventInv, RowsAnnounced
        <4>3. f.revision = e.revision - 1
          BY <1>1, <1>4, <4>1, <4>2
        <4> QED BY <1>1, <4>2, <4>3
      <3> QED BY <1>1, <2>2, <3>1, <3>2
    <2> QED BY <2>1, <2>2 DEF RevisionsOrdered
  <1>10. RowsAnnounced'
    <2> SUFFICES ASSUME NEW s \in DOMAIN schedules
                 PROVE  /\ \E e \in events' : /\ e.schedule = s
                                              /\ e.subject # "deleted"
                                              /\ e.user = schedules'[s].user
                                              /\ e.revision = schedules'[s].revision
                                              /\ e.fields = schedules'[s].fields
                        /\ \A e \in events' : e.schedule = s =>
                               e.revision <= schedules'[s].revision
      BY <1>1 DEF RowsAnnounced
    <2>1. CASE s \in T
      <3>1. PICK e \in E : e.schedule = s
        BY <1>3, <2>1
      <3>2. \A f \in events' : f.schedule = s => f.revision <= schedules'[s].revision
        BY <1>1, <1>2, <1>4, <1>5, <1>6, <2>1
      <3> QED BY <1>1, <1>2, <3>1, <3>2
    <2>2. CASE s \notin T
      BY <1>1, <1>2, <2>2 DEF EventInv, RowsAnnounced
    <2> QED BY <2>1, <2>2
  <1>11. GoneAnnounced'
    BY <1>1, <1>2 DEF EventInv, GoneAnnounced, Latest
  <1> QED BY <1>7, <1>8, <1>9, <1>10, <1>11 DEF EventInv

\* A deletion announces every row it removes at the revision after its last.
LEMMA EventInvDeleted ==
    ASSUME TypeOK, EventInv, NEW u, NEW D, NEW X, Deleted(u, D, X)
    PROVE  EventInv'
  <1> DEFINE E == {deletedEvent(s, schedules[s]) : s \in D}
  <1>1. /\ D \subseteq DOMAIN schedules
        /\ DOMAIN schedules' = DOMAIN schedules \ D
        /\ \A s \in DOMAIN schedules \ D : schedules'[s] = schedules[s]
        /\ events' = events \cup E
        /\ nextID' = nextID
    BY DEF Deleted, deleteRows, Without
  <1>2. \A e \in E : /\ e.schedule \in D
                     /\ e.subject = "deleted"
                     /\ e.user = schedules[e.schedule].user
                     /\ e.revision = schedules[e.schedule].revision + 1
    BY DEF deletedEvent
  <1>3. \A s \in D : \E e \in E : e.schedule = s
    <2> TAKE s \in D
    <2> WITNESS deletedEvent(s, schedules[s]) \in E
    <2> QED BY DEF deletedEvent
  <1>4. \A e, f \in E : e.schedule = f.schedule => e = f
    <2>1. \A e \in E : e = deletedEvent(e.schedule, schedules[e.schedule])
      BY DEF deletedEvent
    <2> HIDE DEF E
    <2> QED BY <2>1
  <1> HIDE DEF E
  <1>5. \A s \in DOMAIN schedules : s \in 1 .. nextID - 1 /\ schedules[s].revision \in Nat
    BY DEF TypeOK, ScheduleRows, Schedule
  <1>6. \A e \in events : e.revision \in Nat \ {0}
    BY DEF EventInv, EventsNumbered
  <1>7. \A e \in events : e.schedule \in D =>
            /\ e.revision <= schedules[e.schedule].revision
            /\ e.user = schedules[e.schedule].user
    BY <1>1 DEF EventInv, RowsAnnounced, EventsOwned
  <1>8. EventsNumbered'
    BY <1>1, <1>2, <1>5 DEF EventInv, EventsNumbered
  <1>9. EventsOwned'
    BY <1>1, <1>2, <1>4, <1>7 DEF EventInv, EventsOwned
  <1>10. RevisionsOrdered'
    <2>1. ASSUME NEW e \in events', NEW f \in events',
                 e.schedule = f.schedule, e.revision = f.revision
          PROVE  e = f
      <3>1. CASE e \in events /\ f \in events
        BY <2>1, <3>1 DEF EventInv, RevisionsOrdered
      <3>2. CASE e \in E /\ f \in E
        BY <1>4, <2>1, <3>2
      <3>3. CASE e \in E /\ f \in events
        BY <1>1, <1>2, <1>5, <1>6, <1>7, <2>1, <3>3
      <3>4. CASE e \in events /\ f \in E
        BY <1>1, <1>2, <1>5, <1>6, <1>7, <2>1, <3>4
      <3> QED BY <1>1, <3>1, <3>2, <3>3, <3>4
    <2>2. ASSUME NEW e \in events', e.revision # 1
          PROVE  \E f \in events' : f.schedule = e.schedule /\ f.revision = e.revision - 1
      <3>1. CASE e \in events
        BY <1>1, <2>2, <3>1 DEF EventInv, RevisionsOrdered
      <3>2. CASE e \in E
        <4>1. e.schedule \in D /\ e.revision = schedules[e.schedule].revision + 1
          BY <1>2, <3>2
        <4>2. PICK f \in events : /\ f.schedule = e.schedule
                                  /\ f.revision = schedules[e.schedule].revision
          BY <1>1, <4>1 DEF EventInv, RowsAnnounced
        <4>3. f.revision = e.revision - 1
          BY <1>1, <1>5, <4>1, <4>2
        <4> QED BY <1>1, <4>2, <4>3
      <3> QED BY <1>1, <2>2, <3>1, <3>2
    <2> QED BY <2>1, <2>2 DEF RevisionsOrdered
  <1>11. RowsAnnounced'
    BY <1>1, <1>2 DEF EventInv, RowsAnnounced
  <1>12. GoneAnnounced'
    <2> SUFFICES ASSUME NEW e \in events', e.schedule \notin DOMAIN schedules'
                 PROVE  \E d \in events' : /\ d.schedule = e.schedule
                                           /\ d.subject = "deleted"
                                           /\ Latest(d)'
      BY DEF GoneAnnounced
    <2>1. CASE e.schedule \in D
      <3>1. PICK d \in E : d.schedule = e.schedule
        BY <1>3, <2>1
      <3>2. \A f \in events' : f.schedule = d.schedule => f.revision <= d.revision
        BY <1>1, <1>2, <1>4, <1>5, <1>6, <1>7, <2>1, <3>1
      <3> QED BY <1>1, <1>2, <3>1, <3>2 DEF Latest
    <2>2. CASE e.schedule \notin D
      <3>1. e \in events /\ e.schedule \notin DOMAIN schedules
        BY <1>1, <1>2, <2>2
      <3>2. PICK d \in events : /\ d.schedule = e.schedule
                                /\ d.subject = "deleted"
                                /\ Latest(d)
        BY <3>1 DEF EventInv, GoneAnnounced
      <3> QED BY <1>1, <1>2, <2>2, <3>2 DEF Latest
    <2> QED BY <2>1, <2>2
  <1> QED BY <1>8, <1>9, <1>10, <1>11, <1>12 DEF EventInv

\* A cleanup removes rows and events of the same schedules.
LEMMA EventInvCleanup ==
    ASSUME TypeOK, EventInv, NEW u \in Users, CleanupDeletedAccount(u)
    PROVE  EventInv'
  <1>1. /\ events' = {e \in events : e.user # u /\ e.schedule \notin OwnedBy(u)}
        /\ DOMAIN schedules' = DOMAIN schedules \ OwnedBy(u)
        /\ \A s \in DOMAIN schedules' : schedules'[s] = schedules[s]
        /\ nextID' = nextID
    BY DEF CleanupDeletedAccount, Without
  <1>2. \A e \in events : e.schedule \in DOMAIN schedules =>
            (e.schedule \in OwnedBy(u) <=> e.user = u)
    BY DEF EventInv, RowsAnnounced, EventsOwned, OwnedBy
  <1>3. \A e, f \in events : e.schedule = f.schedule => (e \in events' <=> f \in events')
    BY <1>1 DEF EventInv, EventsOwned
  <1>4. EventsNumbered' /\ EventsOwned'
    BY <1>1 DEF EventInv, EventsNumbered, EventsOwned
  <1>5. RevisionsOrdered'
    BY <1>1, <1>3 DEF EventInv, RevisionsOrdered
  <1>6. RowsAnnounced'
    BY <1>1, <1>2 DEF EventInv, RowsAnnounced, OwnedBy
  <1>7. GoneAnnounced'
    BY <1>1, <1>2, <1>3 DEF EventInv, GoneAnnounced, Latest
  <1> QED BY <1>4, <1>5, <1>6, <1>7 DEF EventInv

\* The event invariant holds in every behaviour.
LEMMA EventInvariant == Spec => []EventInv
  <1>1. Init => EventInv
    BY DEF Init, EventInv, EventsNumbered, EventsOwned, RevisionsOrdered,
           RowsAnnounced, GoneAnnounced
  <1>2. TypeOK /\ EventInv /\ [Next]_vars => EventInv'
    <2> SUFFICES ASSUME TypeOK, EventInv, [Next]_vars PROVE EventInv'
      OBVIOUS
    <2>1. Shape
      BY StepShape
    <2>2. CASE Quiet
      BY <2>2 DEF Quiet, EventInv, EventsNumbered, EventsOwned, RevisionsOrdered,
                  RowsAnnounced, GoneAnnounced, Latest
    <2> QED
      BY <2>1, <2>2, EventInvCreate, EventInvWrote, EventInvDeleted, EventInvCleanup
         DEF Shape
  <1> QED BY <1>1, <1>2, TypeCorrect, PTL DEF Spec

\* The events of a schedule are numbered without gap or repetition, and the
\* latest one tells what the table holds: for any number of accounts,
\* schedules, occurrences and open transactions.
THEOREM EventsTellTheTable == Spec => [](RevisionsOrdered /\ EventsConverge)
  <1>1. TypeOK /\ EventInv => RevisionsOrdered /\ EventsConverge
    BY EventInvConverges DEF EventInv
  <1> QED BY <1>1, TypeCorrect, EventInvariant, PTL

\* The events of one schedule are numbered 1, 2, 3, ... whatever writes, in
\* whatever order the transactions commit.
THEOREM RevisionsAreOrdered == Spec => []RevisionsOrdered
  BY EventsTellTheTable, PTL

-----------------------------------------------------------------------------
(* ETags, times, series and deleted accounts.                              *)

\* The rows after a creation: the old ones, and the new ones above them.
LEMMA CreateRows ==
    ASSUME TypeOK, NEW u \in Users, NEW in \in CreateInput, NEW k \in MaybeKey,
           CreateSchedule(u, in, k)
    PROVE  /\ \A s \in DOMAIN schedules : s \in DOMAIN schedules' /\ schedules'[s] = schedules[s]
           /\ \A s \in DOMAIN schedules' \ DOMAIN schedules :
                  \E i \in Nat : schedules'[s] = newSchedule(u, in, nextID, i)
           /\ nextID \in DOMAIN schedules' \ DOMAIN schedules
           /\ u \notin tombstones
           /\ tombstones' = tombstones
           /\ validateScheduleFields(in.fields)
           /\ series' = IF in.count = 0 THEN series ELSE With(series, [x \in {nextID} |-> u])
           /\ \A e \in events' \ events : e.user = u
  <1> DEFINE n == IF in.count = 0 THEN 1 ELSE in.count
             rows == [s \in nextID .. nextID + n - 1 |->
                         newSchedule(u, in, nextID, s - nextID)]
  <1>1. n \in Nat \ {0} /\ nextID \in Nat \ {0}
    BY InputsAssumption DEF CreateInput, TypeOK, ScheduleRows
  <1>2. /\ schedules' = With(schedules, rows)
        /\ events' = events \cup {toScheduleEvent("created", s, rows[s]) : s \in DOMAIN rows}
        /\ series' = IF in.count = 0 THEN series ELSE With(series, [x \in {nextID} |-> u])
        /\ u \notin tombstones /\ tombstones' = tombstones
        /\ validateScheduleFields(in.fields)
    BY DEF CreateSchedule, createAllowed, ensureAccountNotDeleted
  <1>3. \A s \in DOMAIN rows :
            /\ \E i \in Nat : rows[s] = newSchedule(u, in, nextID, i)
            /\ rows[s].user = u
            /\ s >= nextID
    <2> TAKE s \in DOMAIN rows
    <2>1. s - nextID \in Nat /\ s >= nextID
      BY <1>1
    <2>2. rows[s] = newSchedule(u, in, nextID, s - nextID)
      OBVIOUS
    <2>3. rows[s].user = u
      BY <2>2 DEF newSchedule
    <2> QED BY <2>1, <2>2, <2>3
  <1>4. nextID \in DOMAIN rows
    BY <1>1
  <1> HIDE DEF rows, n
  <1>5. \A s \in DOMAIN schedules : s \notin DOMAIN rows
    BY <1>1, <1>3 DEF TypeOK, ScheduleRows
  <1>6. /\ DOMAIN schedules' = DOMAIN schedules \cup DOMAIN rows
        /\ \A s \in DOMAIN rows : schedules'[s] = rows[s]
        /\ \A s \in DOMAIN schedules : schedules'[s] = schedules[s]
    BY <1>2, <1>5 DEF With
  <1>7. \A e \in events' \ events : e.user = u
    BY <1>2, <1>3 DEF toScheduleEvent
  <1> QED BY <1>2, <1>3, <1>4, <1>5, <1>6, <1>7

\* If-Match is sound: two contents of a schedule never share a revision.
THEOREM ETagsAreSound == Spec => ETagSound
  <1> DEFINE A == \A s \in DOMAIN schedules \cap DOMAIN schedules' :
                      schedules'[s] # schedules[s] =>
                          schedules'[s].revision = schedules[s].revision + 1
  <1>1. TypeOK /\ [Next]_vars => A
    <2> SUFFICES ASSUME TypeOK, [Next]_vars PROVE A
      OBVIOUS
    <2>1. Shape
      BY StepShape
    <2>2. ASSUME NEW u \in Users, NEW in \in CreateInput, NEW k \in MaybeKey,
                 CreateSchedule(u, in, k)
          PROVE  A
      BY <2>2, CreateRows
    <2>3. ASSUME NEW T, NEW E, Wrote(T, E) PROVE A
      BY <2>3 DEF Wrote
    <2>4. ASSUME NEW u, NEW D, NEW X, Deleted(u, D, X) PROVE A
      BY <2>4 DEF Deleted, deleteRows, Without
    <2>5. ASSUME NEW u \in Users, CleanupDeletedAccount(u) PROVE A
      BY <2>5 DEF CleanupDeletedAccount, Without
    <2>6. CASE Quiet
      BY <2>6 DEF Quiet
    <2> QED BY <2>1, <2>2, <2>3, <2>4, <2>5, <2>6 DEF Shape
  <1>2. TypeOK /\ [Next]_vars => [A]_vars
    BY <1>1
  <1> QED BY <1>2, TypeCorrect, PTL DEF Spec, ETagSound

\* Every stored schedule ends after it starts.
THEOREM TimesStayValid == Spec => []TimesValid
  <1>1. Init => TimesValid
    BY DEF Init, TimesValid
  <1>2. TypeOK /\ TypeOK' /\ TimesValid /\ [Next]_vars => TimesValid'
    <2> SUFFICES ASSUME TypeOK, TypeOK', TimesValid, [Next]_vars PROVE TimesValid'
      OBVIOUS
    <2>1. Shape
      BY StepShape
    <2>2. ASSUME NEW u \in Users, NEW in \in CreateInput, NEW k \in MaybeKey,
                 CreateSchedule(u, in, k)
          PROVE  TimesValid'
      <3>1. in.fields \in Fields /\ validateScheduleFields(in.fields)
        BY <2>2, CreateRows, InputsAssumption DEF CreateInput
      <3>2. ASSUME NEW i \in Nat
            PROVE  LET f == newSchedule(u, in, nextID, i).fields
                   IN  f.endAt # NoEnd => f.endAt - f.startAt >= 1
        BY <3>1, NullsAssumption DEF newSchedule, occurrence, validateScheduleFields, Fields
      <3> QED
        BY <2>2, <3>2, CreateRows DEF TimesValid
    <2>3. ASSUME NEW T, NEW E, Wrote(T, E) PROVE TimesValid'
      <3>1. \A s \in DOMAIN schedules' : schedules'[s].fields \in Fields
        BY DEF TypeOK, ScheduleRows, Schedule
      <3>2. ASSUME NEW s \in DOMAIN schedules', validateScheduleFields(schedules'[s].fields)
            PROVE  schedules'[s].fields.endAt # NoEnd =>
                       schedules'[s].fields.endAt - schedules'[s].fields.startAt >= 1
        BY <3>1, <3>2, NullsAssumption DEF validateScheduleFields, Fields
      <3> QED BY <2>3, <3>2 DEF Wrote, TimesValid
    <2>4. ASSUME NEW u, NEW D, NEW X, Deleted(u, D, X) PROVE TimesValid'
      BY <2>4 DEF Deleted, deleteRows, Without, TimesValid
    <2>5. ASSUME NEW u \in Users, CleanupDeletedAccount(u) PROVE TimesValid'
      BY <2>5 DEF CleanupDeletedAccount, Without, TimesValid
    <2>6. CASE Quiet
      BY <2>6 DEF Quiet, TimesValid
    <2> QED BY <2>1, <2>2, <2>3, <2>4, <2>5, <2>6 DEF Shape
  <1> QED BY <1>1, <1>2, TypeCorrect, PTL DEF Spec

\* A series lives exactly as long as its occurrences, whatever mixture of
\* single, bulk, following and account deletions removes them.
THEOREM SeriesStayLive == Spec => []SeriesLive
  <1>1. Init => SeriesLive
    BY DEF Init, SeriesLive
  <1>2. TypeOK /\ SeriesLive /\ [Next]_vars => SeriesLive'
    <2> SUFFICES ASSUME TypeOK, SeriesLive, [Next]_vars PROVE SeriesLive'
      OBVIOUS
    <2>1. Shape
      BY StepShape
    <2>2. ASSUME NEW u \in Users, NEW in \in CreateInput, NEW k \in MaybeKey,
                 CreateSchedule(u, in, k)
          PROVE  SeriesLive'
      <3>1. \A s \in DOMAIN schedules' \ DOMAIN schedules :
                /\ schedules'[s].user = u
                /\ schedules'[s].series = IF in.count = 0 THEN 0 ELSE nextID
        BY <2>2, CreateRows DEF newSchedule
      <3>2. nextID \notin DOMAIN series
        BY DEF TypeOK, ScheduleRows
      <3> QED
        BY <2>2, <3>1, <3>2, CreateRows DEF SeriesLive, With
    <2>3. ASSUME NEW T, NEW E, Wrote(T, E) PROVE SeriesLive'
      BY <2>3 DEF Wrote, SeriesLive
    <2>4. ASSUME NEW u, NEW D, NEW X, Deleted(u, D, X) PROVE SeriesLive'
      <3>1. /\ DOMAIN schedules' = DOMAIN schedules \ D
            /\ \A s \in DOMAIN schedules \ D : schedules'[s] = schedules[s]
            /\ DOMAIN series' = DOMAIN series \ orphans(D, X)
            /\ \A x \in DOMAIN series \ orphans(D, X) : series'[x] = series[x]
        BY <2>4 DEF Deleted, deleteRows, Without
      <3>2. ASSUME NEW x \in DOMAIN series'
            PROVE  \E s \in DOMAIN schedules' : schedules'[s].series = x
        <4>1. PICK s \in DOMAIN schedules : schedules[s].series = x
          BY <3>1, <3>2 DEF SeriesLive
        <4>2. CASE x \in X
          BY <3>1, <3>2, <4>2 DEF orphans
        <4>3. CASE x \notin X
          <5>1. x # 0
            BY <3>1, <3>2 DEF TypeOK, ScheduleRows
          <5>2. s \notin D
            BY <2>4, <3>1, <3>2, <4>1, <4>3, <5>1 DEF Deleted, seriesOf, SeriesLive
          <5> QED BY <3>1, <4>1, <5>2
        <4> QED BY <4>2, <4>3
      <3>3. ASSUME NEW s \in DOMAIN schedules', schedules'[s].series # 0
            PROVE  /\ schedules'[s].series \in DOMAIN series'
                   /\ series'[schedules'[s].series] = schedules'[s].user
        BY <3>1, <3>3 DEF SeriesLive, orphans
      <3> QED BY <3>2, <3>3 DEF SeriesLive
    <2>5. ASSUME NEW u \in Users, CleanupDeletedAccount(u) PROVE SeriesLive'
      <3>1. /\ DOMAIN schedules' = DOMAIN schedules \ OwnedBy(u)
            /\ \A s \in DOMAIN schedules' : schedules'[s] = schedules[s]
            /\ DOMAIN series' = DOMAIN series \ seriesOf(u)
            /\ \A x \in DOMAIN series' : series'[x] = series[x]
        BY <2>5 DEF CleanupDeletedAccount, Without
      <3>2. \A x \in DOMAIN series : x # 0
        BY DEF TypeOK, ScheduleRows
      <3> QED BY <3>1, <3>2 DEF SeriesLive, OwnedBy, seriesOf
    <2>6. CASE Quiet
      BY <2>6 DEF Quiet, SeriesLive
    <2> QED BY <2>1, <2>2, <2>3, <2>4, <2>5, <2>6 DEF Shape
  <1> QED BY <1>1, <1>2, TypeCorrect, PTL DEF Spec

\* A request row is only ever added for the account that asks.
LEMMA RequestOwners ==
    ASSUME NEW u, NEW op, NEW k, NEW s, NEW request, NEW response,
           saveMutation(u, op, k, s, request, response)
    PROVE  \A q \in DOMAIN mutationRequests' : q \in DOMAIN mutationRequests \/ q[1] = u
  BY DEF saveMutation, With

\* A step adds request rows and open transactions only for accounts without
\* a tombstone, and no step but the cleanup adds a tombstone.
RequestsGuarded ==
    /\ \A q \in DOMAIN createRequests' :
           q \in DOMAIN createRequests \/ q[1] \notin tombstones
    /\ \A q \in DOMAIN mutationRequests' :
           q \in DOMAIN mutationRequests \/ q[1] \notin tombstones
    /\ \A t \in DOMAIN following' :
           \/ t \in DOMAIN following /\ following'[t] = following[t]
           \/ following'[t].user \notin tombstones

\* No step gives a tombstoned account anything, or lets one have a transaction.
LEMMA StepGuarded ==
    TypeOK /\ DeletedAccountOwnsNothing /\ [Next]_vars => RequestsGuarded
  <1> SUFFICES ASSUME TypeOK, DeletedAccountOwnsNothing, [Next]_vars
               PROVE  RequestsGuarded
    OBVIOUS
  <1>1. ASSUME NEW u, NEW in, NEW k, CreateSchedule(u, in, k)
        PROVE  RequestsGuarded
    BY <1>1 DEF CreateSchedule, ensureAccountNotDeleted, saveCreate, With, RequestsGuarded
  <1>2. ASSUME NEW u, NEW op, NEW k, NEW s, NEW request, NEW response, NEW s2, NEW request2,
               begins(u, op, k, s2, request2),
               saveMutation(u, op, k, s, request, response),
               UNCHANGED <<createRequests, following>>
        PROVE  RequestsGuarded
    BY <1>2, RequestOwners DEF begins, ensureAccountNotDeleted, RequestsGuarded
  <1>3. ASSUME NEW u, NEW k, NEW s,
               \/ \E patch \in Patches : UpdateSchedule(u, s, patch, k)
               \/ DeleteSchedule(u, s, k)
               \/ DeleteScheduleFollowing(u, s, k)
               \/ \E m \in Minutes : AddReminder(u, s, m, k)
               \/ \E r \in schedules[s].reminders : DeleteReminder(u, s, r, k)
               \/ \E ids : BulkDeleteSchedules(u, ids, k)
        PROVE  RequestsGuarded
    <2>1. ASSUME NEW patch \in Patches, UpdateSchedule(u, s, patch, k)
          PROVE  RequestsGuarded
      BY <1>2, <2>1 DEF UpdateSchedule
    <2>2. CASE DeleteSchedule(u, s, k)
      BY <1>2, <2>2 DEF DeleteSchedule
    <2>3. CASE DeleteScheduleFollowing(u, s, k)
      BY <1>2, <2>3 DEF DeleteScheduleFollowing
    <2>4. ASSUME NEW m \in Minutes, AddReminder(u, s, m, k)
          PROVE  RequestsGuarded
      BY <1>2, <2>4 DEF AddReminder
    <2>5. ASSUME NEW r, DeleteReminder(u, s, r, k)
          PROVE  RequestsGuarded
      BY <1>2, <2>5 DEF DeleteReminder
    <2>6. ASSUME NEW ids, BulkDeleteSchedules(u, ids, k)
          PROVE  RequestsGuarded
      BY <1>2, <2>6 DEF BulkDeleteSchedules
    <2> QED BY <1>3, <2>1, <2>2, <2>3, <2>4, <2>5, <2>6
  <1>4. ASSUME NEW t, NEW u, NEW s, NEW patch, NEW k, BeginFollowing(t, u, s, patch, k)
        PROVE  RequestsGuarded
    BY <1>4 DEF BeginFollowing, begins, ensureAccountNotDeleted, With, RequestsGuarded
  <1>5. ASSUME NEW t \in DOMAIN following, CommitFollowing(t)
        PROVE  RequestsGuarded
    <2>1. following[t].user \notin tombstones
      BY DEF DeletedAccountOwnsNothing
    <2>2. \A q \in DOMAIN mutationRequests' :
              q \in DOMAIN mutationRequests \/ q[1] = following[t].user
      BY <1>5, RequestOwners DEF CommitFollowing
    <2> QED BY <1>5, <2>1, <2>2 DEF CommitFollowing, Without, RequestsGuarded
  <1>6. ASSUME \/ \E t \in DOMAIN following : RollbackFollowing(t)
               \/ \E u \in Users : CleanupDeletedAccount(u)
               \/ \E q \in DOMAIN createRequests : ExpireCreateKey(q)
               \/ \E q \in DOMAIN mutationRequests : ExpireMutationKey(q)
               \/ UNCHANGED vars
        PROVE  RequestsGuarded
    <2>1. CASE \E t \in DOMAIN following : RollbackFollowing(t)
      BY <2>1 DEF RollbackFollowing, Without, RequestsGuarded
    <2>2. CASE \E u \in Users : CleanupDeletedAccount(u)
      BY <2>2 DEF CleanupDeletedAccount, Without, RequestsGuarded
    <2>3. CASE \E q \in DOMAIN createRequests : ExpireCreateKey(q)
      BY <2>3 DEF ExpireCreateKey, Without, RequestsGuarded
    <2>4. CASE \E q \in DOMAIN mutationRequests : ExpireMutationKey(q)
      BY <2>4 DEF ExpireMutationKey, Without, RequestsGuarded
    <2>5. CASE UNCHANGED vars
      BY <2>5 DEF vars, RequestsGuarded
    <2> QED BY <1>6, <2>1, <2>2, <2>3, <2>4, <2>5
  <1>7. ASSUME NEW u, NEW source, NEW patch, NEW k, CloneSchedule(u, source, patch, k)
        PROVE  RequestsGuarded
    BY <1>1, <1>7 DEF CloneSchedule
  <1> QED
    BY <1>1, <1>3, <1>4, <1>5, <1>6, <1>7 DEF Next, bulkRequests

\* Once the tombstone is there, nothing of the account is left in any table
\* and nothing can come back, open transactions included.
THEOREM DeletedAccountsStayEmpty == Spec => []DeletedAccountOwnsNothing
  <1>1. Init => DeletedAccountOwnsNothing
    BY DEF Init, DeletedAccountOwnsNothing
  <1>2. TypeOK /\ DeletedAccountOwnsNothing /\ [Next]_vars
            => DeletedAccountOwnsNothing'
    <2> SUFFICES ASSUME TypeOK, DeletedAccountOwnsNothing, [Next]_vars
                 PROVE  DeletedAccountOwnsNothing'
      OBVIOUS
    <2>1. Shape /\ RequestsGuarded
      BY StepShape, StepGuarded
    <2>2. ASSUME NEW u \in Users, CleanupDeletedAccount(u)
          PROVE  DeletedAccountOwnsNothing'
      BY <2>2 DEF CleanupDeletedAccount, tombstoneUnlocked, Without, OwnedBy, seriesOf,
                  DeletedAccountOwnsNothing
    <2>3. ASSUME /\ tombstones' = tombstones
                 /\ \A s \in DOMAIN schedules' : schedules'[s].user \notin tombstones
                 /\ \A x \in DOMAIN series' : series'[x] \notin tombstones
                 /\ \A e \in events' : e.user \notin tombstones
          PROVE  DeletedAccountOwnsNothing'
      BY <2>1, <2>3 DEF RequestsGuarded, DeletedAccountOwnsNothing
    <2>4. ASSUME NEW u \in Users, NEW in \in CreateInput, NEW k \in MaybeKey,
                 CreateSchedule(u, in, k)
          PROVE  DeletedAccountOwnsNothing'
      <3>1. \A s \in DOMAIN schedules' : schedules'[s].user \notin tombstones
        BY <2>4, CreateRows DEF newSchedule, DeletedAccountOwnsNothing
      <3>2. \A x \in DOMAIN series' : series'[x] \notin tombstones
        BY <2>4, CreateRows DEF With, DeletedAccountOwnsNothing
      <3>3. \A e \in events' : e.user \notin tombstones
        BY <2>4, CreateRows DEF DeletedAccountOwnsNothing
      <3> QED BY <2>3, <2>4, <3>1, <3>2, <3>3, CreateRows
    <2>5. ASSUME NEW T, NEW E, Wrote(T, E) PROVE DeletedAccountOwnsNothing'
      <3>1. \A s \in DOMAIN schedules' : schedules'[s].user \notin tombstones
        BY <2>5 DEF Wrote, DeletedAccountOwnsNothing
      <3> QED BY <2>3, <2>5, <3>1 DEF Wrote, DeletedAccountOwnsNothing
    <2>6. ASSUME NEW u, NEW D, NEW X, Deleted(u, D, X) PROVE DeletedAccountOwnsNothing'
      <3>1. /\ tombstones' = tombstones
            /\ \A s \in DOMAIN schedules' : schedules'[s].user \notin tombstones
            /\ \A x \in DOMAIN series' : series'[x] \notin tombstones
        BY <2>6 DEF Deleted, deleteRows, Without, DeletedAccountOwnsNothing
      <3>2. \A e \in events' : e.user \notin tombstones
        BY <2>6 DEF Deleted, deleteRows, deletedEvent, DeletedAccountOwnsNothing
      <3> QED BY <2>3, <3>1, <3>2
    <2>7. CASE Quiet
      BY <2>3, <2>7 DEF Quiet, DeletedAccountOwnsNothing
    <2> QED BY <2>1, <2>2, <2>4, <2>5, <2>6, <2>7 DEF Shape
  <1> QED BY <1>1, <1>2, TypeCorrect, PTL DEF Spec

=============================================================================
