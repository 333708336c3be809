---------------------------- MODULE ScheduleStore ----------------------------
(***************************************************************************)
(* The schedule tables of svc-core and the transactions that write them:   *)
(* internal/service/{schedules,reminders,account_deletion,events}.go, with *)
(* the request checks of the HTTP handlers in internal/api in front.       *)
(*                                                                         *)
(* A transaction is one action when every non-locking read it makes comes  *)
(* after its row locks; a failed one rolls back and leaves no trace, so    *)
(* only its guard is written.  PATCH scope=following is the exception: it  *)
(* reads the occurrence before it locks anything, which fixes the MySQL    *)
(* REPEATABLE READ snapshot all its later plain reads use.  It is split    *)
(* into Begin (the snapshot) and Commit (the locks and the writes).        *)
(*                                                                         *)
(* A v7 UUID is the next natural number; a series carries the number of    *)
(* its first occurrence; a reminder is identified, within its schedule, by *)
(* the revision that inserted it and its minutes.                          *)
(***************************************************************************)
EXTENDS Integers, FiniteSets

CONSTANTS
    Users,          \* account ids
    Keys,           \* Idempotency-Key header values
    NoKey,          \* the header is absent
    Titles,         \* stands for every text field and the status
    NoEnd,          \* end_at is null
    Keep,           \* the PATCH body does not name the field
    Creates,        \* bodies of POST /schedules
    Patches,        \* bodies of PATCH /schedules/{id}
    Minutes,        \* minutes_before values
    Txs,            \* connections that run scope=following transactions
    MaxReminders,   \* maxScheduleReminders (5)
    MaxSchedules,   \* bound of the model on ids handed out
    MaxRevision     \* bound of the model on revisions

-----------------------------------------------------------------------------
(* Rows, requests, responses and events.                                   *)

Fields == [title : Titles, startAt : Int, endAt : Int \cup {NoEnd}]

Reminder == [added : Nat, minutes : Minutes]

\* count = 0: one schedule; count > 0: a recurrence with count occurrences.
CreateInput == [fields : Fields, minutes : SUBSET Minutes, count : Nat]

Patch == [title   : Titles \cup {Keep},
          startAt : Int \cup {Keep},
          endAt   : Int \cup {NoEnd, Keep}]

\* schedules joined with schedule_reminders and schedule_occurrences.
\* series = 0: not an occurrence of a series.
Schedule == [user : Users, fields : Fields, revision : Nat,
             reminders : SUBSET Reminder, series : Nat, index : Nat]

\* The schedule as a response and as the payload of a created/updated event.
Snapshot == [schedule : Nat, revision : Nat, fields : Fields,
             reminders : SUBSET Reminder]

Event == [subject : {"created", "updated"}, user : Users, schedule : Nat,
          revision : Nat, fields : Fields, reminders : SUBSET Reminder]
         \cup
         [subject : {"deleted"}, user : Users, schedule : Nat, revision : Nat]

ASSUME BoundsAssumption ==
    /\ MaxReminders \in Nat
    /\ MaxSchedules \in Nat
    /\ MaxRevision \in Nat

\* minutes_before lies between 0 and 10080.
ASSUME MinutesAssumption == IsFiniteSet(Minutes)

ASSUME NullsAssumption ==
    /\ NoKey \notin Keys
    /\ NoEnd \notin Int
    /\ Keep \notin Int \cup Titles \cup {NoEnd}

ASSUME InputsAssumption ==
    /\ Creates \subseteq CreateInput
    /\ Patches \subseteq Patch

VARIABLES
    schedules,         \* schedules, reminders and occurrences, by id
    series,            \* schedule_series: series id -> owner
    createRequests,    \* schedule_create_requests by <<user, key>>
    mutationRequests,  \* schedule_mutation_requests by <<user, op, key>>
    tombstones,        \* account_deletion_tombstones
    events,            \* event_outbox: every event enqueued
    nextID,            \* the next UUID
    following          \* open scope=following transactions

vars == <<schedules, series, createRequests, mutationRequests, tombstones,
          events, nextID, following>>

Init ==
    /\ schedules = << >>
    /\ series = << >>
    /\ createRequests = << >>
    /\ mutationRequests = << >>
    /\ tombstones = {}
    /\ events = {}
    /\ nextID = 1
    /\ following = << >>

-----------------------------------------------------------------------------
(* Helpers: tables as partial functions.                                   *)

\* The table f with the rows of g inserted (or replaced).
With(f, g) == [x \in DOMAIN f \cup DOMAIN g |->
                  IF x \in DOMAIN g THEN g[x] ELSE f[x]]

\* The table f without the rows of D.
Without(f, D) == [x \in DOMAIN f \ D |-> f[x]]

\* What lockScheduleRevision finds: the row, owned by the caller.
Owned(u, s) == s \in DOMAIN schedules /\ schedules[s].user = u

OwnedBy(u) == {s \in DOMAIN schedules : schedules[s].user = u}

Pick(new, old) == IF new = Keep THEN old ELSE new

mergeSchedulePatchFields(before, patch) ==
    [title   |-> Pick(patch.title, before.title),
     startAt |-> Pick(patch.startAt, before.startAt),
     endAt   |-> Pick(patch.endAt, before.endAt)]

\* Mutant: an end at the very start is let through.
validateScheduleFields_weak(f) == f.endAt # NoEnd => f.endAt >= f.startAt

validateScheduleFields(f) == f.endAt # NoEnd => f.endAt > f.startAt

\* Another occurrence of the series moves by the shift of the selected one
\* and takes over its duration, unless the patch leaves the times alone.
shiftOccurrence(before, patch, oldSelected, newSelected) ==
    LET start == before.startAt + (newSelected.startAt - oldSelected.startAt)
    IN  IF patch.startAt = Keep /\ patch.endAt = Keep
        THEN mergeSchedulePatchFields(before, patch)
        ELSE [title   |-> Pick(patch.title, before.title),
              startAt |-> start,
              endAt   |-> IF newSelected.endAt = NoEnd THEN NoEnd
                          ELSE start + (newSelected.endAt - newSelected.startAt)]

\* Mutant: the response is built before the row is written.
toSnapshot_early(s, row) == [schedule  |-> s, revision |-> row.revision - 1,
                             fields |-> row.fields, reminders |-> row.reminders]

toSnapshot(s, row) == [schedule  |-> s, revision |-> row.revision,
                       fields |-> row.fields, reminders |-> row.reminders]

toScheduleEvent(subject, s, row) ==
    [subject |-> subject, user |-> row.user, schedule |-> s,
     revision |-> row.revision, fields |-> row.fields,
     reminders |-> row.reminders]

\* Mutant: the deletion is announced with the revision of the row.
deletedEvent_same(s, row) == [subject |-> "deleted", user |-> row.user,
                              schedule |-> s, revision |-> row.revision]

deletedEvent(s, row) == [subject |-> "deleted", user |-> row.user,
                         schedule |-> s, revision |-> row.revision + 1]

-----------------------------------------------------------------------------
(* Transactions: the checks and claims every one of them starts with.      *)

ensureAccountNotDeleted(u) == u \notin tombstones

\* The row of the key is inserted by this transaction ("claimed"), or was
\* committed by an earlier one: the saved response answers the same request
\* ("replay") while its schedule exists, and any other is refused.
claimScheduleCreate(u, k, request) ==
    LET saved == createRequests[<<u, k>>]
    IN  IF <<u, k>> \notin DOMAIN createRequests THEN "claimed"
        ELSE IF saved.request = request /\ Owned(u, saved.response.schedule)
             THEN "replay" ELSE "conflict"

claimScheduleMutation(u, op, k, s, request) ==
    LET saved == mutationRequests[<<u, op, k>>]
    IN  IF <<u, op, k>> \notin DOMAIN mutationRequests THEN "claimed"
        ELSE IF saved.schedule = s /\ saved.request = request
             THEN "replay" ELSE "conflict"

\* Mutant: the claim of a key takes no lock.
keyUnlocked_always(u, op, k) == TRUE

\* An open following transaction holds its uncommitted request row locked:
\* another INSERT of the same key waits.
keyUnlocked(u, op, k) ==
    k # NoKey => \A t \in DOMAIN following :
        <<following[t].user, "update", following[t].key>> # <<u, op, k>>

\* What a transaction that goes on to write has passed.
begins(u, op, k, s, request) ==
    /\ ensureAccountNotDeleted(u)
    /\ keyUnlocked(u, op, k)
    /\ claimScheduleMutation(u, op, k, s, request) = "claimed"

\* The claimed row as it commits; a request without a key leaves none.
saveCreate(u, k, request, response) ==
    createRequests' = IF k = NoKey THEN createRequests
        ELSE With(createRequests,
                  [q \in {<<u, k>>} |-> [request |-> request, response |-> response]])

saveMutation(u, op, k, s, request, response) ==
    mutationRequests' = IF k = NoKey THEN mutationRequests
        ELSE With(mutationRequests,
                  [q \in {<<u, op, k>>} |->
                      [schedule |-> s, request |-> request, response |-> response]])

\* response_json stays NULL; the replay answers 204.
NoResponse == 0

-----------------------------------------------------------------------------
(* Creation.                                                               *)

\* The i-th occurrence: one unit of time after the other.
occurrence(f, i) ==
    [title |-> f.title, startAt |-> f.startAt + i,
     endAt |-> IF f.endAt = NoEnd THEN NoEnd ELSE f.endAt + i]

newSchedule(u, in, id, i) ==
    [user |-> u,
     fields |-> occurrence(in.fields, i),
     revision |-> 1,
     reminders |-> [added : {1}, minutes : in.minutes],
     series |-> IF in.count = 0 THEN 0 ELSE id,
     index |-> i]

\* Reminders of one minute twice are refused: what passes is a set.
validateReminderSet(minutes) == Cardinality(minutes) <= MaxReminders

\* What the handler and the service let through.  The refusals that are of no
\* consequence here (malformed bodies, unknown time zones, no linked reminder
\* channel) leave every table as it is.
createAllowed(in) == validateScheduleFields(in.fields) /\ validateReminderSet(in.minutes)

\* POST /schedules, one schedule or every occurrence of a series at once.
CreateSchedule(u, in, k) ==
    LET n    == IF in.count = 0 THEN 1 ELSE in.count
        rows == [s \in nextID .. nextID + n - 1 |->
                    newSchedule(u, in, nextID, s - nextID)]
    IN  /\ createAllowed(in)
        /\ nextID + n - 1 <= MaxSchedules
        /\ ensureAccountNotDeleted(u)
        /\ claimScheduleCreate(u, k, in) = "claimed"
        /\ schedules' = With(schedules, rows)
        /\ series' = IF in.count = 0 THEN series
                     ELSE With(series, [x \in {nextID} |-> u])
        /\ events' = events \cup
               {toScheduleEvent("created", s, rows[s]) : s \in DOMAIN rows}
        /\ saveCreate(u, k, in, toSnapshot(nextID, rows[nextID]))
        /\ nextID' = nextID + n
        /\ UNCHANGED <<mutationRequests, tombstones, following>>

\* The reminders of a schedule are read by a statement of their own, after its
\* row: those of the row's revision, of a later one, or none once it is gone.
rereads(source) ==
    LET later == {e \in events : e.schedule = source.schedule /\ e.revision >= source.revision}
    IN  {e.reminders : e \in {x \in later : x.subject # "deleted"}}
            \cup {schedules[s].reminders : s \in {source.schedule} \cap DOMAIN schedules}
            \cup {{} : e \in {x \in later : x.subject = "deleted"}}

cloneInput(source, reminders, patch) ==
    [fields  |-> mergeSchedulePatchFields(source.fields, patch),
     minutes |-> {r.minutes : r \in reminders},
     count   |-> 0]

\* POST /schedules/{id}/clone: the handler reads the source before it creates the
\* copy in a transaction of its own, so that the row is what one of its events
\* says, perhaps no longer the last.
CloneSchedule(u, source, patch, k) ==
    /\ source.subject # "deleted" /\ source.user = u
    /\ \E reminders \in rereads(source) :
           CreateSchedule(u, cloneInput(source, reminders, patch), k)

-----------------------------------------------------------------------------
(* Updates.                                                                *)

updateRequest(scope, patch, exp) == [scope |-> scope, patch |-> patch, ifMatch |-> exp]

\* PATCH scope=this: the row is locked before it is read.  If-Match names the
\* revision the row must still have; any other value is a 412.
UpdateSchedule(u, s, patch, k) ==
    /\ begins(u, "update", k, s, updateRequest("this", patch, schedules[s].revision))
    /\ Owned(u, s)
    /\ schedules[s].revision < MaxRevision
    /\ LET fields == mergeSchedulePatchFields(schedules[s].fields, patch)
           row    == [schedules[s] EXCEPT !.fields = fields, !.revision = @ + 1]
       IN  /\ validateScheduleFields(fields)
           /\ schedules' = With(schedules, [x \in {s} |-> row])
           /\ events' = events \cup {toScheduleEvent("updated", s, row)}
           /\ saveMutation(u, "update", k, s,
                  updateRequest("this", patch, schedules[s].revision), toSnapshot(s, row))
    /\ UNCHANGED <<series, createRequests, tombstones, nextID, following>>

\* Mutant: the selected occurrence is left out.
followingOf_after(s) == {x \in DOMAIN schedules :
                            /\ schedules[x].series = schedules[s].series
                            /\ schedules[x].index > schedules[s].index}

\* The occurrences from s on, in the series of s.
followingOf(s) == {x \in DOMAIN schedules :
                      /\ schedules[x].series = schedules[s].series
                      /\ schedules[x].index >= schedules[s].index}

\* PATCH scope=following up to its first plain read, which opens the snapshot.
BeginFollowing(t, u, s, patch, k) ==
    /\ t \notin DOMAIN following
    /\ begins(u, "update", k, s, updateRequest("following", patch, schedules[s].revision))
    /\ Owned(u, s)
    /\ schedules[s].series # 0
    /\ following' = With(following, [x \in {t} |->
           [user |-> u, schedule |-> s, patch |-> patch, key |-> k,
            ifMatch |-> schedules[s].revision,
            before |-> [x2 \in followingOf(s) |-> schedules[x2]]]])
    /\ UNCHANGED <<schedules, series, createRequests, mutationRequests,
                   tombstones, events, nextID>>

\* The fields written to target x, merged into the snapshot's fields of x.
followingFields(f, x) ==
    LET oldSelected == f.before[f.schedule].fields
        newSelected == mergeSchedulePatchFields(oldSelected, f.patch)
    IN  IF x = f.schedule THEN newSelected
        ELSE shiftOccurrence(f.before[x].fields, f.patch, oldSelected, newSelected)

\* The row of target x after the transaction's UPDATE ...
followingRow(f, x) ==
    [schedules[x] EXCEPT !.fields = followingFields(f, x), !.revision = @ + 1]

\* Mutant: the event is built from the row as it was before the UPDATE.
followingRead_old(f, x) == [f.before[x] EXCEPT !.revision = schedules[x].revision + 1]

\* ... and as the transaction reads it back: its own row, but the reminders
\* of the snapshot.
followingRead(f, x) == [followingRow(f, x) EXCEPT !.reminders = f.before[x].reminders]

\* The rest of the transaction: lock every target, check If-Match against the
\* selected one, write every target, enqueue, save the response, commit.
CommitFollowing(t) ==
    LET f       == following[t]
        targets == DOMAIN f.before
        rows    == [x \in targets |-> followingRow(f, x)]
    IN  /\ \A x \in targets : Owned(f.user, x)
        /\ \A x \in targets : schedules[x].revision < MaxRevision
        /\ schedules[f.schedule].revision = f.ifMatch
        /\ \A x \in targets : validateScheduleFields(followingFields(f, x))
        /\ schedules' = With(schedules, rows)
        /\ events' = events \cup
               {toScheduleEvent("updated", x, followingRead(f, x)) : x \in targets}
        /\ saveMutation(f.user, "update", f.key, f.schedule,
               updateRequest("following", f.patch, f.ifMatch),
               toSnapshot(f.schedule, followingRead(f, f.schedule)))
        /\ following' = Without(following, {t})
        /\ UNCHANGED <<series, createRequests, tombstones, nextID>>

\* A target is gone, If-Match fails, the times are invalid, the connection or
\* the process dies: the transaction rolls back.
RollbackFollowing(t) ==
    /\ following' = Without(following, {t})
    /\ UNCHANGED <<schedules, series, createRequests, mutationRequests,
                   tombstones, events, nextID>>

-----------------------------------------------------------------------------
(* Deletion.                                                               *)

\* Mutant: the series are collected before the rows are deleted.
orphans_early(D, X) == {x \in X : \A s \in DOMAIN schedules : schedules[s].series # x}

\* The series of X left without an occurrence when the rows D are deleted.
orphans(D, X) ==
    {x \in X : \A s \in DOMAIN schedules \ D : schedules[s].series # x}

\* The rows D deleted, one event for each, and the orphans among X collected.
deleteRows(D, X) ==
    /\ schedules' = Without(schedules, D)
    /\ events' = events \cup {deletedEvent(s, schedules[s]) : s \in D}
    /\ series' = Without(series, orphans(D, X))

seriesOf(u) == {x \in DOMAIN series : series[x] = u}

DeleteSchedule(u, s, k) ==
    /\ begins(u, "delete", k, s, s)
    /\ Owned(u, s)
    /\ deleteRows({s}, seriesOf(u))
    /\ saveMutation(u, "delete", k, s, s, NoResponse)
    /\ UNCHANGED <<createRequests, tombstones, nextID, following>>

\* DELETE scope=following; If-Match must name the revision of s.
DeleteScheduleFollowing(u, s, k) ==
    /\ begins(u, "delete-following", k, s, schedules[s].revision)
    /\ Owned(u, s)
    /\ schedules[s].series # 0
    /\ \A x \in followingOf(s) : Owned(u, x)
    /\ deleteRows(followingOf(s), {schedules[s].series})
    /\ saveMutation(u, "delete-following", k, s, schedules[s].revision,
                    Cardinality(followingOf(s)))
    /\ UNCHANGED <<createRequests, tombstones, nextID, following>>

\* POST /schedules/bulk-delete: at least one id, and none of them twice.  An
\* id of no schedule is refused, and leaves no trace.
bulkRequests == (SUBSET DOMAIN schedules) \ {{}}

\* All or nothing: every id must be owned by the caller.
BulkDeleteSchedules(u, ids, k) ==
    /\ begins(u, "bulk-delete", k, 0, ids)
    /\ \A s \in ids : Owned(u, s)
    /\ deleteRows(ids, seriesOf(u))
    /\ saveMutation(u, "bulk-delete", k, 0, ids, Cardinality(ids))
    /\ UNCHANGED <<createRequests, tombstones, nextID, following>>

-----------------------------------------------------------------------------
(* Reminders.                                                              *)

\* Mutant: the revision stays.
setReminders_quiet(s, R) ==
    LET row == [schedules[s] EXCEPT !.reminders = R]
    IN  /\ schedules' = With(schedules, [x \in {s} |-> row])
        /\ events' = events \cup {toScheduleEvent("updated", s, row)}

\* Mutant: the event carries the reminders read before the write.
setReminders_stale(s, R) ==
    LET row == [schedules[s] EXCEPT !.revision = @ + 1]
    IN  /\ schedules' = With(schedules, [x \in {s} |-> [row EXCEPT !.reminders = R]])
        /\ events' = events \cup {toScheduleEvent("updated", s, row)}

\* The row of s with the reminders R: written, and announced as an update.
setReminders(s, R) ==
    LET row == [schedules[s] EXCEPT !.reminders = R, !.revision = @ + 1]
    IN  /\ schedules' = With(schedules, [x \in {s} |-> row])
        /\ events' = events \cup {toScheduleEvent("updated", s, row)}

\* Mutant: the limit is off by one.
reminderAllowed_more(s, m) ==
    /\ Cardinality(schedules[s].reminders) <= MaxReminders
    /\ \A r \in schedules[s].reminders : r.minutes # m

\* Under the row lock: below the limit, and no reminder for the same minute.
reminderAllowed(s, m) ==
    /\ Cardinality(schedules[s].reminders) < MaxReminders
    /\ \A r \in schedules[s].reminders : r.minutes # m

AddReminder(u, s, m, k) ==
    /\ begins(u, "reminder-add", k, s, m)
    /\ Owned(u, s)
    /\ schedules[s].revision < MaxRevision
    /\ reminderAllowed(s, m)
    /\ LET created == [added |-> schedules[s].revision + 1, minutes |-> m]
       IN  /\ setReminders(s, schedules[s].reminders \cup {created})
           /\ saveMutation(u, "reminder-add", k, s, m, created)
    /\ UNCHANGED <<series, createRequests, tombstones, nextID, following>>

DeleteReminder(u, s, r, k) ==
    /\ begins(u, "reminder-delete", k, s, r)
    /\ Owned(u, s)
    /\ schedules[s].revision < MaxRevision
    /\ r \in schedules[s].reminders
    /\ setReminders(s, schedules[s].reminders \ {r})
    /\ saveMutation(u, "reminder-delete", k, s, r, NoResponse)
    /\ UNCHANGED <<series, createRequests, tombstones, nextID, following>>

-----------------------------------------------------------------------------
(* Account deletion and the passage of time.                               *)

\* Mutant: the tombstone check takes no lock.
tombstoneUnlocked_always(u) == TRUE

\* The FOR UPDATE of ensureAccountNotDeleted keeps the missing row's gap
\* locked until its transaction ends; the INSERT of the tombstone waits.
tombstoneUnlocked(u) == \A t \in DOMAIN following : following[t].user # u

CleanupDeletedAccount(u) ==
    /\ tombstoneUnlocked(u)
    /\ tombstones' = tombstones \cup {u}
    /\ events' = {e \in events : e.user # u /\ e.schedule \notin OwnedBy(u)}
    /\ createRequests' = Without(createRequests,
           {q \in DOMAIN createRequests : q[1] = u})
    /\ mutationRequests' = Without(mutationRequests,
           {q \in DOMAIN mutationRequests : q[1] = u})
    /\ series' = Without(series, seriesOf(u))
    /\ schedules' = Without(schedules, OwnedBy(u))
    /\ UNCHANGED <<nextID, following>>

\* 24 hours pass: every reader of the row treats it as absent from then on.
ExpireCreateKey(q) ==
    /\ createRequests' = Without(createRequests, {q})
    /\ UNCHANGED <<schedules, series, mutationRequests, tombstones, events,
                   nextID, following>>

ExpireMutationKey(q) ==
    /\ mutationRequests' = Without(mutationRequests, {q})
    /\ UNCHANGED <<schedules, series, createRequests, tombstones, events,
                   nextID, following>>

-----------------------------------------------------------------------------
MaybeKey == Keys \cup {NoKey}

Next ==
    \/ \E u \in Users, k \in MaybeKey :
          \/ \E in \in Creates : CreateSchedule(u, in, k)
          \/ \E source \in events, patch \in Patches : CloneSchedule(u, source, patch, k)
          \/ \E s \in DOMAIN schedules :
                \/ \E patch \in Patches : UpdateSchedule(u, s, patch, k)
                \/ \E t \in Txs, patch \in Patches : BeginFollowing(t, u, s, patch, k)
                \/ DeleteSchedule(u, s, k)
                \/ DeleteScheduleFollowing(u, s, k)
                \/ \E m \in Minutes : AddReminder(u, s, m, k)
                \/ \E r \in schedules[s].reminders : DeleteReminder(u, s, r, k)
          \/ \E ids \in bulkRequests : BulkDeleteSchedules(u, ids, k)
    \/ \E t \in DOMAIN following : CommitFollowing(t) \/ RollbackFollowing(t)
    \/ \E u \in Users : CleanupDeletedAccount(u)
    \/ \E q \in DOMAIN createRequests : ExpireCreateKey(q)
    \/ \E q \in DOMAIN mutationRequests : ExpireMutationKey(q)

Spec == Init /\ [][Next]_vars

-----------------------------------------------------------------------------
(* Properties.                                                             *)

Operations == {"update", "delete", "delete-following", "bulk-delete",
               "reminder-add", "reminder-delete"}

ResponseOf(op) == IF op = "update" THEN Snapshot
                  ELSE IF op = "reminder-add" THEN Reminder ELSE Nat

ScheduleRows ==
    /\ nextID \in Nat \ {0}
    /\ \A s \in DOMAIN schedules : s \in 1 .. nextID - 1 /\ schedules[s] \in Schedule
    /\ \A x \in DOMAIN series : x \in 1 .. nextID - 1 /\ series[x] \in Users

RequestRows ==
    /\ \A q \in DOMAIN createRequests :
           /\ q \in Users \X Keys
           /\ createRequests[q].request \in CreateInput
           /\ createRequests[q].response \in Snapshot
    /\ \A q \in DOMAIN mutationRequests :
           /\ q \in Users \X Operations \X Keys
           /\ mutationRequests[q].schedule \in Nat
           /\ mutationRequests[q].response \in ResponseOf(q[2])

OpenTransactions ==
    /\ DOMAIN following \subseteq Txs
    /\ \A t \in DOMAIN following :
           /\ following[t].user \in Users
           /\ following[t].patch \in Patches
           /\ following[t].key \in MaybeKey
           /\ following[t].ifMatch \in Nat
           /\ following[t].schedule \in DOMAIN following[t].before
           /\ \A x \in DOMAIN following[t].before :
                  x \in 1 .. nextID - 1 /\ following[t].before[x] \in Schedule

\* Type invariant: the columns of the tables and of the open transactions.
TypeOK ==
    /\ ScheduleRows
    /\ RequestRows
    /\ OpenTransactions
    /\ tombstones \subseteq Users
    /\ events \subseteq Event

\* The revisions of the events of one schedule are 1, 2, 3, ... without a gap
\* and without two events that share one: the order a consumer relies on.
RevisionsOrdered ==
    /\ \A e, f \in events :
           e.schedule = f.schedule /\ e.revision = f.revision => e = f
    /\ \A e \in events : e.revision # 1 =>
           \E f \in events : f.schedule = e.schedule /\ f.revision = e.revision - 1

\* e is the event of its schedule a consumer ends up with, in whatever order
\* and however often the events reach it: it keeps the highest revision.
Latest(e) == \A f \in events : f.schedule = e.schedule => f.revision <= e.revision

\* Every schedule has an event, and the latest one tells what the table holds:
\* the row's revision and fields, or that the row is gone.
EventsConverge ==
    /\ \A s \in DOMAIN schedules : \E e \in events : e.schedule = s
    /\ \A e \in events : Latest(e) =>
           IF e.schedule \in DOMAIN schedules
           THEN /\ e.subject # "deleted"
                /\ e.revision = schedules[e.schedule].revision
                /\ e.fields = schedules[e.schedule].fields
                /\ e.user = schedules[e.schedule].user
           ELSE e.subject = "deleted"

\* The latest event carries the complete reminder set of the row, as the
\* comment on toScheduleEvent promises ("always the full snapshot at this
\* point in time"), of every schedule outside a series, whatever is open beside
\* it.  (An occurrence may have the reminders of a stale snapshot: NoLostUpdate.)
SingleRemindersConverge ==
    \A e \in events :
        Latest(e) /\ e.schedule \in DOMAIN schedules /\ schedules[e.schedule].series = 0 =>
            e.reminders = schedules[e.schedule].reminders

\* Once an account has its tombstone, no table holds anything of it, and no
\* transaction is open that could still write.
DeletedAccountOwnsNothing ==
    /\ \A s \in DOMAIN schedules : schedules[s].user \notin tombstones
    /\ \A x \in DOMAIN series : series[x] \notin tombstones
    /\ \A q \in DOMAIN createRequests : q[1] \notin tombstones
    /\ \A q \in DOMAIN mutationRequests : q[1] \notin tombstones
    /\ \A e \in events : e.user \notin tombstones
    /\ \A t \in DOMAIN following : following[t].user \notin tombstones

\* A series row lives exactly as long as its occurrences, and has their owner.
SeriesLive ==
    /\ \A x \in DOMAIN series : \E s \in DOMAIN schedules : schedules[s].series = x
    /\ \A s \in DOMAIN schedules : schedules[s].series # 0 =>
           /\ schedules[s].series \in DOMAIN series
           /\ series[schedules[s].series] = schedules[s].user

\* Every stored schedule ends after it starts, through every merge and shift.
TimesValid ==
    \A s \in DOMAIN schedules :
        schedules[s].fields.endAt # NoEnd =>
            schedules[s].fields.endAt - schedules[s].fields.startAt >= 1

\* No schedule has more reminders than allowed, or two for the same minute.
RemindersBounded ==
    \A s \in DOMAIN schedules :
        /\ Cardinality(schedules[s].reminders) <= MaxReminders
        /\ \A r, q \in schedules[s].reminders : r.minutes = q.minutes => r = q

\* A saved response is what the write it stands for announced: the event of
\* that schedule and revision is in the outbox with the same content, and no
\* two keys claim the same write.
RepliesTruthful ==
    LET Announced(r) == \E e \in events :
            /\ e.subject # "deleted"
            /\ e.schedule = r.schedule /\ e.revision = r.revision
            /\ e.fields = r.fields /\ e.reminders = r.reminders
        Updates == {q \in DOMAIN mutationRequests : q[2] = "update"}
    IN  /\ \A q \in DOMAIN createRequests : Announced(createRequests[q].response)
        /\ \A q \in Updates : Announced(mutationRequests[q].response)
        /\ \A q, p \in DOMAIN createRequests :
               createRequests[q].response = createRequests[p].response => q = p
        /\ \A q, p \in Updates :
               mutationRequests[q].response = mutationRequests[p].response => q = p

\* While a key lives, its saved response never changes: of the attempts that
\* come with one key, a scope=following update still open when the next one
\* arrives among them, one is applied and saves its answer.  (What a replay then
\* returns is another matter: a create whose schedule has since been deleted is
\* refused, claimScheduleCreate.)
RepliesStable ==
    [][/\ \A q \in DOMAIN createRequests \cap DOMAIN createRequests' :
              createRequests'[q] = createRequests[q]
       /\ \A q \in DOMAIN mutationRequests \cap DOMAIN mutationRequests' :
              mutationRequests'[q] = mutationRequests[q]]_vars

\* A revision names one content: whatever a step changes in a schedule, its
\* reminders included, it moves the ETag by one.
ETagSound ==
    [][\A s \in DOMAIN schedules \cap DOMAIN schedules' :
           schedules'[s] # schedules[s] =>
               schedules'[s].revision = schedules[s].revision + 1]_vars

\* What the patch of a scope=following update does not name keeps the value it
\* has when the rows are written, in the table and in the events: "concurrent
\* changes to different fields cannot overwrite each other" (schedules.go,
\* UpdateSchedule) and "reminders is always the full snapshot at this point in
\* time" (events.go).
NoLostUpdate ==
    [][\A t \in DOMAIN following : CommitFollowing(t) =>
           /\ following[t].patch.title = Keep =>
                  \A x \in DOMAIN following[t].before :
                      schedules'[x].fields.title = schedules[x].fields.title
           /\ \A e \in events' \ events : e.reminders = schedules[e.schedule].reminders]_vars
=============================================================================
