# TLA+ specifications of svc-core

svc-core is the schedule service of a calendar application: an HTTP API in Go
over MySQL, which announces every change of a schedule on a NATS JetStream
stream. This directory holds TLA+ models of the parts of it that are hard to
test, the TLC configurations that check them on small instances, and TLAPS
proofs of the main properties for every instance.

    tlc -workers 2 -config StoreSeries.cfg MCScheduleStore
    tlapm ScheduleStoreProofs.tla

`PROJECT.json` lists the components, the runs, the source lines every
definition models (`map`), the mutants that show that each property can fail,
the hazards the properties are aimed at, and the findings.

## The system

| part | state | operations | modelled by |
|---|---|---|---|
| schedule store (`internal/service`) | `schedules`, `schedule_reminders`, `schedule_series`, `schedule_occurrences`, `schedule_create_requests`, `schedule_mutation_requests`, `account_deletion_tombstones` | create (one or a series), update (`scope=this`, `scope=following`), delete (one, following, bulk), add and delete reminders, account clean-up | `ScheduleStore` |
| handlers (`internal/api`) | none | what a request must satisfy before it reaches the service | guards of `ScheduleStore` |
| outbox (`internal/outbox`, `internal/events`) | `event_outbox`; the stream | enqueue, claim under a lease, publish, mark, back off | `Outbox` |
| text extraction (`internal/service/extract.go`, `internal/ai`) | `ai_request_users`, `ai_request_admissions`, `ai_extractions` | admit, call Gemini with one retry, check duplicates, audit, release | `Extraction` |
| account-deletion consumer (`internal/accountdeletion`) | its durable consumer on the stream `ACCOUNT_LIFECYCLE` | clean up, report, acknowledge or ask for redelivery | `AccountDeletion` |
| authentication (`internal/middleware`) | a cached key set | verify, refresh, introspect | `JWTAuth` |
| local time (`internal/api/localtime.go`, `resolveScheduleTimes`) | none | wall times and dates to instants | `LocalTime` |
| recurrence (`internal/api/recurrence.go`) | none | the occurrences of a rule, the shift of later ones | `Recurrence` |
| listing, cursors and export | none; a listing lives in its cursor | first page, next page, one page for the export | `ListPaging` |
| clone (`internal/api/clone.go`) | none | read the source, create the copy | `CloneSchedule` of `ScheduleStore` |
| reminder validity (`internal/api/internal_services.go`) | none | read the schedule, ask Auth | `AccountDeletion` |
| routing, CORS, health, metrics, tracing, configuration, generated queries | none | | not modelled |

They interact through the database. A request's transaction writes the
schedule tables and, in the same commit, rows of `event_outbox`; the request
then tries to dispatch one row, and a background loop in every replica
dispatches the rest. The account-deletion consumer deletes the rows of an
account in one transaction and leaves a tombstone, which every writing
transaction looks up first. Extraction shares the tombstone and the database
but no schedule table (its duplicate check only reads them). Auth, another
service, issues the tokens, publishes its keys, answers introspections, and asks
for and waits for the deletion of an account.

What is hard about it: several replicas run the same transactions; MySQL's
REPEATABLE READ lets a transaction read rows older than the ones it has locked;
requests are retried under an `Idempotency-Key`; workers and requests die
between two steps; leases, windows and contexts end while somebody still relies
on them; the stream may store a message and lose its acknowledgement, or
deliver one again while its first delivery is still being handled; keys rotate
and accounts end in the middle of a request; the clocks of a zone skip or repeat
an hour.

What makes it correct: the events of a schedule, ordered by revision, tell a
consumer exactly what the table holds; a revision (the ETag) names one content;
a key's write happens once; nothing of a deleted account comes back; every
committed event is published; a user has one Gemini call at a time and no more
than the limit in a window; every call is audited; a deletion that is reported
is true and stays true, and every deletion is reported; a good credential is not
refused, and a withdrawn key not admitted once the service could know; a series has the days its rule says, at the
clock of its first day; a listing answers everything once.

## The modules

### ScheduleStore

One action per transaction. A transaction that locks its rows before its first
plain read is atomic: it commits as if it ran at the moment of its commit, and
one that fails has no effect, so that only its guard is written. `PATCH
scope=following` is different: `updateScheduleFollowing` makes a plain read
before it locks anything, and from then on reads that snapshot.
`BeginFollowing` records the snapshot (`following[t].before`), `CommitFollowing`
locks and writes, `RollbackFollowing` covers every way to fail. Between the two,
every other action may happen, except for those the open transaction's locks
stop: an insert of the same idempotency row (`keyUnlocked`) and of the user's
tombstone (`tombstoneUnlocked`, the gap lock of `SELECT ... FOR UPDATE` on a
missing row).

`schedules` joins the rows with their reminders and their place in a series.
`events` is the set of events ever enqueued: a consumer sees them in any order
and any number of times, so the set is all it can rely on. The claim of an
idempotency key is three-valued (`claimed`, `replay`, `conflict`); a replay and
a conflict change nothing. Expiry after 24 hours is a separate step because
every reader treats an expired row as absent.

Data is reduced to what the properties tell apart: one title for every text
field, integers for instants, a unit of time between two occurrences, a
reminder named by its minutes and the revision that added it. All-day dates,
time zones and daylight saving are in `LocalTime` and `Recurrence`.

`CloneSchedule` is two reads and a transaction. `getSchedule` reads the row and
then, by another statement and outside any transaction, the reminders; the copy
is created later. The row is what any event of the source said, the reminders
(`rereads`) those of that revision, of a later one or, once the source is gone,
none. A following commit may have announced reminders older than the row's, so
`rereads` admits a little more than the code can do.

### Outbox

Rows of `event_outbox` and the workers of all replicas. A worker claims a row
(`claim`), publishes (`PublishAcked`, `PublishTimedOut`: stored but the
acknowledgement lost, `PublishFailed`), and marks or reschedules; it may die at
any point (`Abandon`). The two UPDATEs carry `locked_by`, so `holds` decides
whether they do anything. Time is relative to now: `Tick` lowers what is left of
the back-off, the lease and the duplicate window. JetStream (`store`) is
external: a message whose id is known is dropped, and the id is known for
`Window`. The module is shown to implement `Delivery`, the promise to the
listening services without leases or retries: `phase` maps a row to what is
owed for it, and a worker that still holds a deleted row is the one way a
withdrawn event can reach the stream. Bounds of the model: `Horizon` (how far back `available_at` is told
apart; rows that are equally old are claimed in any order) and `MaxCopies`.

### Extraction

A handler is a slot for one request after the other. `admitExtraction` purges,
counts and inserts in one transaction under the user's row lock; then follow the
attempts, `markPossibleDuplicates`, `recordExtraction` and, deferred,
`finishExtraction`. `left` is what remains of the request's 15 seconds: a Gemini
call cannot outlast it, the statements after the call may find it over. A slot is
used again only when its last admission is older than the rate window; a row
that old counts for nothing and is deleted by the next admission of its user.
`admitted` is a history variable, so that the rate limit is checked against
what happened and not against the table that is purged on the way.

### AccountDeletion

The consumer in full, composed with the other parts reduced to what they do to
one account. `Deliver` takes a message from the durable consumer; `MaxAckPending`
is one, so a message that is out or due holds back every new one, but its own
redelivery (`AckWait`) may run on another replica beside the first. The
clean-up commits, fails, or commits without the replica learning it; the result
is stored, refused, or stored without the replica learning it; then `Ack`, or
`Nak` from the caller. A message that does not parse is acknowledged. Requests
are let in while the account is active (`active`), look for the tombstone in
their transaction and commit later; workers claim an event and hold it across
the clean-up; `reminderValidity` reads the schedule and then asks Auth. A
sequence number is used again once neither the stream nor a replica remembers
it, which keeps the instance finite without bounding the number of requests.

### JWTAuth

Requests against the cached key set. `Get` uses the set at hand or fetches one;
a kid that is missing is looked for in a fresh set once. A fetch is two steps,
the issuer's answer and its storage, so that an old answer may be stored over a
newer set. The issuer publishes a key before it signs with it and may withdraw
it at any time. Verification is local: `parse` looks at the token and at the
set in use, and the introspection (`active`) tells no more than whether the
account is active, so that a withdrawn key is good for as long as the cached
set has it. How long that can be is what `AdmissionJustified` bounds, with
history: `known` and the `known` of a fetch are the kids that were retired when
the issuer gave out the set, and `withdrawn` says of a request whether, when it
came, every set the instance held or was about to store was younger than the
withdrawal of its key. `wasActive` and `wasInvalid` remember whether there was a
moment of the request when its account was active, or its credential invalid.

### LocalTime and Recurrence

`LocalTime` holds the functions between wall times and instants for zones given
by their offset at each instant, with Go's `time.Date` and `AddDate` as the
standard library computes them (external): a wall time in a gap becomes one
before or after it. `Recurrence` holds `generateOccurrences` with its calendar,
the resolution of the first occurrence's times, and the shift of the later
occurrences by `updateScheduleFollowing` (`movedStart` and `movedEnd` are the
wall times it arrives at, which are then resolved). A request is answered in one step; the
intermediate results `times`, `anchor` and `days` are kept, so that the
properties can compare the answer with a reference computed on calendar days
alone (`dueDays`, `instants`). `keep` is what the loops of `generateOccurrences`
do with a slice: append the elements that pass, in order. A candidate is the
instant the code takes for the midnight of a day; the start of an occurrence is
resolved from the candidate's date, its end from what the clocks show at the
candidate (`shown`), as in the code, which differs where the day has no midnight.

### ListPaging

A user's rows, and one listing at a time of which only the cursor connects the
pages. `overlaps`, `matches`, `before` and `after` are the query; the page is
what it finds first, and there is a cursor when it finds more. The cursor is
refused with another filter, and when its start is not before the end of the
range: both are a 400 that gives no page and no other cursor, so that both
leave the listing open. An export of too many rows is the one that ends as
`refused`. `steady` is a history variable: the rows that have
not changed since the listing began.

## The runs

Passing runs:

| run | instance | shows |
|---|---|---|
| `store_series` | 2 users, singles, clones and series of 2, one open transaction, 2 minutes with a limit of 1, 3 revisions, no keys | `TypeOK`, `RevisionsOrdered`, `EventsConverge`, `SeriesLive`, `TimesValid`, `DeletedAccountOwnsNothing`, `SingleRemindersConverge`, `RemindersBounded`, `ETagSound` |
| `store_retries` | 1 user, 2 keys, singles, clones or a series of 2, one open transaction, 3 revisions, no reminders | `RepliesTruthful`, `RepliesStable` |
| `outbox` | 2 rows, 2 workers, lease 1, window 2, delays up to 2 | `TypeOK`, `PublishedIsStored`, `LeaseRespected`, `PublishedIsFinal`, the refinement `AtLeastOnce`, `EventuallyPublished` |
| `extraction` | 1 user, 3 slots, limit 2, timeout 1, active window 2, rate window 2 | `TypeOK`, `OneCallPerUser`, `RateLimited`, `DeletedUserLeavesNothing`, `AdmissionRecovers` |
| `account` | 1 account, 2 replicas, 2 messages, 1 request, 1 worker, 1 reminder check | `TypeOK`, `CompletedIsGone`, `ReminderGenuine`, `NothingAfterTombstone`, `DeletionCompletes` |
| `jwt` | 2 requests, 3 keys, 1 account | `TypeOK`, `RejectionJustified`, `AdmissionJustified` |
| `calendar` | about 1250 requests and moves around the changes of three zones, month ends and a leap day | `WallTimeKept`, `RuleHonoured`, `ClockKept`, `MonthsAccounted`, `RefusalJustified`, `MovesTogether` |
| `listing` | 3 ids, 4 contents (two that start together, two whole days), 2 filters, pages of 1 and 2, exports of 2 | `TypeOK`, `NothingMissed`, `PagesAdvance`, `ListingEnds` |

Runs that show a disagreement between the code and what the repository says
about it (the quotes are in `PROJECT.json`, `findings`):

| run | property | what happens |
|---|---|---|
| `store_lost_update` | `NoLostUpdate` | `scope=following` begins; another request changes the title or a reminder of a later occurrence; the commit writes the old title back, or announces the old reminders with the highest revision |
| `outbox_duplicate` | `RetriesAbsorbed` | an attempt fails; the next is stored and its acknowledgement lost (`PublishTimedOut`); `reschedule` puts the row off until after the duplicate window; the next attempt is stored again |
| `extraction_audit` | `EveryCallAudited` | the context is over when the audit row should be written in it |
| `calendar_until` | `UntilInclusive` | a daily series in Santiago that ends on the day the clocks go forward at midnight: the day before is generated twice, the last day not at all |

`outbox_duplicate` runs under `PromptSpec`: no worker dies, no account is
deleted, and time passes only while every row left is waiting for its
`available_at`. The duplicate is therefore the work of the back-off alone. With the
real numbers a message whose first publish was stored is tried again 4, 12, 28, 60
and 124 seconds later; the window is 120.

A fifth disagreement is a proviso of a passing run. `ListingEnds` says that a
listing comes to its last page as long as no client is given a cursor the server
refuses (`CursorUsable`). `api/openapi.yaml:457` has no such proviso, but it cannot
be left out: an all-day schedule of another zone may match the range by its dates
and start after its end; when it is the last entry of a page, its cursor is answered
400 (`api/schedules.go:263`) with the same filters, and the client can only ask
again. Without the proviso TLC finds this after one step.

`RepliesStable` says that no step changes a saved response, not that every retry
is given it: what a replay answers is the first item below. Its race needs an
attempt that is still open when the next comes, which only `scope=following` has;
a retry of the same request is stopped by `If-Match` as well, so that the lock
(`keyUnlocked`) decides when another request reuses the key.

Disagreements that need no run, because the code decides them in one place:
- A retried create is answered 409 once its schedule is deleted
  (`service/schedules.go:147`); `README.md:203-204` promises the original 201.
- A retry is refused while the reminder channel check fails, because the check
  comes before the saved response is looked up (`api/schedules.go:95`), against
  the same lines of `README.md`. A retried clone is answered 409 when the source
  changed in between (`api/clone.go:209`).
- A response that does not parse is recorded as `failed` (`extract.go:45`); the
  comment at `extract.go:22-23` says `partial`.
- When the duplicate check fails by itself, `ExtractSchedules` returns before it
  records (`extract.go:48-50`), against the same line as `extraction_audit`, whose
  property excuses failed queries.
- `all_day` with `local_start_at` creates an all-day schedule without dates, which
  no listing returns (`byWallTimes`; `api/openapi.yaml:1059`).
- `scope=following` with a new time zone moves the later occurrences by the
  difference of the offsets too (`service/schedules.go:668-722`), so that
  `MovesTogether` speaks of patches that keep the zone.
- The end of an occurrence is counted from the wall time of its candidate, the
  start from its date (`recurrence.go:161-169`). Where the clocks go forward at
  midnight and the candidate is 01:00 (Beirut), a series from 10:00 to 11:00 has an
  occurrence from 10:00 to 12:00 on that day; the test of daylight saving is
  called `TestOvernightRecurrencePreservesEndClockAcrossDST`
  (`recurrence_test.go:42`). `ClockKept` compares durations on the other days.
- A series that begins on such a day counts from 01:00, so that its candidate on
  the day `until`, at 01:00, comes after `until`, at midnight, and is left out
  (`recurrence.go:121`). Both have the cause of `calendar_until`.

Why the bounds are enough. Two occurrences are what a selected one and another
need; a series of two can lose either, or both. Three revisions allow two
writes of a schedule after its creation, one of them between the snapshot and
the commit of an open transaction, and a deletion afterwards. One open
transaction suffices because two of them on the same rows serialize at
the row locks, and each of them meets every other write as the environment; a
second one that wants the key of the first waits for it, as any request does. Two keys
allow the reuse of one and the confusion of both. A limit of one reminder is
reached by the creation and again after each deletion. Two workers allow one that
lost its lease and one that took over. Two replicas allow a redelivery beside
the first delivery, and two messages one that does not parse in front of a
request. Three keys allow a cached set, an older answer under way, and a newer
one that replaced both. The zones are chosen for what they do: none changes in
Seoul, the gap and the fold are in the night in New York and at midnight in
Beirut; the requests lie on both sides. Three rows and pages of one allow a row
before, at and after the cursor to change. The scaled times keep the order of
the real ones where the number of ticks allows it: in `outbox` the lease is
below the window and the delays reach it, `outbox_duplicate` has the delay
beyond the window; in `extraction` the timeout is below the active window, and
`extraction_audit` has all three apart. (As the active and the rate window are
equal in `extraction`, `AdmissionRecovers` does not tell the end of the one from
the purge after the other.) The safety properties with a theorem
below do not depend on the bounds at all.

Deadlock checking is on everywhere: account deletion, time, a message that does
not parse or another request can always go on.

Symmetry is used in `store_retries` (keys) and `jwt` (requests and keys), which
check no liveness.

## Fairness

`Outbox!Fairness`: time passes; `Run` wakes up every second and claims what can
be claimed (weak fairness of a claim by some worker); `PublishMsg` has a
deadline and the UPDATE after it ends one way or another (weak fairness of each
worker's next step, with dying among the ways). That alone would let JetStream
refuse forever, so two assumptions are on the environment, as strong fairness per
row: among infinitely many attempts to publish a row while its lease is held,
some is acknowledged, and among infinitely many attempts to mark it some
succeeds. The publish deadline is a third of the lease, which is why attempts
normally fall within it. `EventuallyPublished` fails under the mutant that does
not let an expired lease be claimed.

`Extraction!FairSpec`: time passes, and every call, query and pause of a request
comes to an end: the HTTP client, the context and the database driver guarantee
it. Nothing is assumed about success, and a request may die instead.

`AccountDeletion!Fairness`: JetStream delivers and redelivers; a handler and a
transaction come to an end, dying included (weak fairness). Auth asks again as
long as it has no `completed`, which the consumer relies on when it acknowledges
a failed clean-up ("auth will retry"). Strong fairness stands for the database
and JetStream not failing forever: of infinitely many clean-ups of an account,
reports of a success and acknowledgements of a message, some get through.
`DeletionCompletes` fails when a message that does not parse is asked for again
instead of acknowledged, because it then fills the one place there is.

`ListPaging!FairSpec`: the client asks for the next page as long as it has a
cursor the server takes; the writes between the pages are not restrained.
`ListingEnds` holds because the cursor moves forward in a finite set of positions.
A request whose cursor is refused has no effect however often it is sent.

## What is proved

Theorems hold for every value of the constants that satisfies the named
assumptions: any number of users, keys, inputs, transactions, rows, workers,
replicas and handlers, and any bounds. TLC evaluates the assumptions on every
run. Most only keep the null values apart from the others, the bounds in
`Nat` and the inputs typed. The ones that say something about the system:

- `ExtractionAssumption`: the timeout is below the active window, and that at
  most the rate window.
- `MinutesAssumption`: there are finitely many `minutes_before` (0 to 10080).
- `PowersAssumption`: `2^n` is a natural number; the prover has no theory of it.
- `ListingAssumption`: a table has finitely many ids, a page at least one row,
  and a missing cursor is not a cursor.
- `ZonesAssumption`: an offset lies within 14 hours and stays for at least 29.
- `RequestsAssumption`: the zones of a request are known, its wall times lie far
  enough inside the modelled stretch of time for all seven probes, and the
  all-day occurrences of a move have dates.
- `SeriesAssumption`: the fields of a rule are numbers, dates and weekdays, and the
  modelled stretch of time and calendar reaches from a month before the first day
  of a series to 400 days and one occurrence after it.
- `CalendarAssumption`: the base year and the number of months are natural numbers.

Four theorems on series speak of zones that satisfy `HasMidnights`: every day has a
midnight, and offsets differ by less than a day. That is a fact about a zone and
not about the code, and it cannot be left out. The service takes a day for its
midnight, and `calendar_until` shows what happens in a zone where one is missing.
Most zones have it (`MidnightsOf` in `MCRecurrence`: Seoul and New York do, Beirut
and Santiago do not); for the others TLC checks the requests of `calendar`.

`ScheduleStoreProofs`
- `TypeCorrect`: `[]TypeOK`. The open transactions' snapshots are part of the
  type: a commit writes fields computed from a snapshot, so the snapshot's rows
  must be typed for the written row to be.
- `EventsTellTheTable`: `[](RevisionsOrdered /\ EventsConverge)`. Neither is
  inductive. The argument first reduces every step to a shape: rows written
  with the next revision and an event that tells the new row, rows deleted with
  the event of the next revision, new rows with revision 1, or all rows of an
  account removed with its events. The strengthening relates each event to the
  table (no event of a live row is above the row's revision, the row's revision
  has its event, a gone schedule ends in its deletion, ids not yet handed out
  have no events), and each shape preserves it. The account clean-up is the one
  step that removes events; it needs that the events of a schedule belong to
  its owner.
- `RevisionsAreOrdered`: the part of it consumers order by, `[]RevisionsOrdered`.
- `ETagsAreSound`, `TimesStayValid`, `SeriesStayLive` from the same shapes. A
  clone is a creation whose input is typed whenever its reminders were read
  (`CloneInputType`).
- `DeletedAccountsStayEmpty`: `[]DeletedAccountOwnsNothing`. It is inductive
  only with its last conjunct, that no open transaction belongs to a deleted
  account, which is what the gap lock gives.

`ScheduleRepliesProofs`, on top of it
- `RepliesAreStable`: the saved response of a key is never replaced. An open
  following transaction saves its response long after it looked for one, so
  `KeyInv` says that the row of a key it claimed is not there yet, and that no
  two open transactions claimed one key; the lock on the row (`keyUnlocked`)
  keeps every other request from filling it. `store_retries` is an instance.
- `RepliesAreTruthful`: every saved response is the event of one write, and of
  no other key's. `ReplyInv` relates the two tables of responses to the set of
  events. Two responses differ because the later one has a higher revision than
  any event of its schedule so far, or a new id, which is the event invariant
  of `ScheduleStoreProofs`; the account clean-up takes responses and events
  away together.
- `RemindersStayBounded`: no schedule has more than `MaxReminders` or the same
  minutes twice. The counting needs that the reminders are a finite set, the
  second conjunct of `ReminderInv`.
- `RemindersAllConverge`: without `scope=following` transactions (`Txs = {}`)
  the event of the highest revision tells the reminders of the row. The
  hypothesis is needed: with such transactions the statement is false, because
  the commit announces the reminders of its snapshot (the finding of
  `store_lost_update`).
- `SinglesConverge`: with any number of following transactions it still holds of
  every schedule outside a series, which `store_series` checks
  (`SingleRemindersConverge`). `SeriesOnly` says that a snapshot in use
  covers no other rows.

`OutboxProofs`
- `NoEventLost` (`[]PublishedIsStored`), `LeasesAreRespected`,
  `PublishedRowsAreFinal`. The invariant adds that a published row is unlocked
  and that a message whose id is known is stored.
- `OutboxImplementsDelivery`: `Spec => AtLeastOnce`, the refinement of
  `Delivery`. Every step is matched with a step of `Delivery` for one row or
  leaves the phase of every row alone. The case that needs the invariant is a
  worker that publishes after its lease ended: its row may be locked by another,
  published or deleted by then, and each leads to a different step of `Delivery`.
- `OutboxTypes`: a row is put off by at most `MaxDelay`, however often it fails.

`ExtractionProofs`
- `ExtractionTypes`, `DeletedUsersLeaveNothing`.
- `OneCallAtATime`: a call in progress has an admission that is unfinished, and
  whose age plus what is left of the context is at most the timeout. As the
  timeout is below the active window, the admission is active and blocks another;
  account deletion removes it but also bars the user.
- `RateLimitHolds`: every admission in the history younger than the window is
  still in the table, unless the account is deleted, so that counting the table
  counts the history.

`AccountDeletionProofs`, from `DeletionInvariant`
- `ReportedIsGone` (`[]CompletedIsGone`) and `DeletionIsFinal`
  (`NothingAfterTombstone`). The report follows the commit by several steps, on
  a replica that another delivery may have overtaken, so the invariant speaks of
  every tombstone and not of the reported ones: nothing of its account is stored
  and no transaction of it is open (`TombstonesHold`), and a replica about to
  report a success has its tombstone behind it (`ReportsTrue`).
- `RemindersAreGenuine`: what the validity check read may be gone when Auth
  answers; the invariant keeps that the account, if still active then, was so
  when the schedule was read. `DeletionTypes`.

`JWTAuthProofs`, from `JWTInvariant`
- `RejectionsAreJustified`. The present always counts among the moments of a
  request (`PresentCounts`), and a kid that is missing from the answer to the
  request's own refresh was not published when the issuer answered
  (`MissesTrue`). Of the shared cache only the type is needed, so an older set
  stored over a newer one does no harm.
- `AdmissionsAreJustified`. Here the cache matters: no set, stored or under way,
  holds a kid that was retired when it was given out (`SetsAsOld`), so a request
  marked `withdrawn` does not find its key in any of them; and the mark stays true,
  whichever set is stored next, because every set given out later is younger still
  (`RequestsVerified`). A refresh that added keys instead of replacing the set
  (the mutant `Fetched_added`) would keep a withdrawn key for good. `JWTTypes`.

`ListPagingProofs`, from `PagingInvariant`
- `NothingIsMissed` (of a listing that comes to its last page), `PagesAlwaysAdvance`,
  `PagesAreBounded`. `before` is a
  strict total order and a finite set of entries has a last one, so that the
  page is a beginning of what the query finds. The invariant: what was answered
  lies up to the cursor (`Behind`), and a row that matches and has not changed
  was answered or lies after it (`Owed`).

`RecurrenceProofs`
- `ProbesSuffice`: the seven offsets looked at lead to every instant that shows a
  wall time and to no other. Such an instant lies within 14 hours of the wall
  time, and the period its offset is in force for reaches far enough to one
  side or the other to contain a probe; 29 hours is what that takes.
- `WallTimesAreKept` (a created schedule starts at an instant that shows the
  wall time asked for, the fold decides among two, and a refusal is true) and
  `OccurrencesMoveTogether` follow from it.
- `OccurrenceKeepsClock`: an occurrence of a timed series is on the day of its
  candidate, at the clock of the first occurrence, and, if the candidate is a
  midnight, as long by the clock.
- `DateShows`: `time.Date`, which guesses an offset and corrects the guess once,
  answers with an instant that shows the wall time whenever there is one: around
  a wall time the offset changes at most once (`OneChange`).
- `SeriesFollowRule`, `[](HasMidnights(z) => RuleHonoured)` for the zone `z` of the
  request: the days of a series are the days its rule is due on, in order, without
  a hole, up to the count or `until`.
- `SeriesKeepClock`, the same of `ClockKept`; all-day series need `OneMidnight` too,
  because a day that begins twice is begun by the code at either midnight.
- `MonthsAreAccounted`, the same of `MonthsAccounted`, and `RefusalsAreJustified`, of
  `RefusalJustified`.

How the series are proved. `Previewed` is the inductive invariant: while an answer
stands, the variables are what `generateOccurrences` computes from the request.
The rest is about that computation. By `DateShows` a day's candidate is its
midnight (`MidnightShows`), and midnights are in the order of their days
(`MidnightOrder`), so that every comparison of instants in the code is one of
dates. `Lists(s, D)` says that the sequence `s` has the elements of `D` in order;
`keep`, `upTo` and an increasing function preserve it (`KeepLists`, `PrefixLists`,
`MappedLists`), and each loop is followed with these from an interval of numbers to
the days of the rule (`DailyDays`, `MonthlyDays`, `SkippedDays`, together
`SeriesDays`). The weekly rule divides a number of days by seven, which is exact
because it counts between Mondays (`Weeks`). The recursive function `monthStart` is
treated without an induction theorem: of the numbers for which a statement about
it fails there would be a least one (`LeastNumber`), and the number before it
refutes that. From it follow the order of the months, that `monthOf` finds the
month of a day, and that twelve months have at most 366 days (`YearLength`), which
is why the loops over 367 days and 13 months reach far enough.

Only model-checked, and why: `EventuallyPublished`, `AdmissionRecovers`,
`DeletionCompletes` and `ListingEnds`. Liveness under fairness is beyond the prover.
Every other property of a passing run has a theorem; the four on series are
model-checked only in zones with a day that has no midnight.

## Plan

Nothing is left of the plan. Should the service represent the days of a series by
dates and not by instants, `HasMidnights` can be dropped from the theorems, and
`UntilInclusive` becomes an invariant.

## Not modelled

Routing, CORS, health probes, metrics, tracing, configuration and database
start-up change no state the properties speak of. The reminder channel check is
one call to the notification service that allows or refuses a request before its
transaction. The generated queries other than the listing are part of the
actions whose code calls them. The clean-up command for extractions is one
idempotent UPDATE on columns nothing else reads. What a Gemini candidate contains
and how it is parsed, the text of the calendar export and the encoding of
cursors are formatting. InnoDB's lock queues are modelled by what they exclude
(`keyUnlocked`, `tombstoneUnlocked`) and by transactions that may always fail;
which of them forms a deadlock is not.
