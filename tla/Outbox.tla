------------------------------- MODULE Outbox -------------------------------
(***************************************************************************)
(* The transactional outbox of svc-core (internal/outbox/outbox.go) and    *)
(* the publisher it drives (internal/events/publisher.go): rows of         *)
(* event_outbox are claimed under a lease, published to JetStream and      *)
(* marked, by the background loop of every replica and by the HTTP         *)
(* requests that call dispatchOutbox after their commit.                   *)
(*                                                                         *)
(* Instants are kept relative to now, so that the state space stays finite *)
(* while retries go on forever: available_at is how far ahead it lies (or, *)
(* when past, how far behind, down to -Horizon), locked_until what is left *)
(* of the lease, and dedup what is left of JetStream's duplicate window.   *)
(* A worker abandons a claim before it makes another, so the lock id of a  *)
(* claim is the name of the worker that holds it.                          *)
(***************************************************************************)
EXTENDS Integers, FiniteSets

CONSTANTS
    Rows,         \* ids of event_outbox
    Workers,      \* goroutines that run DispatchOnce, of every replica
    Nobody,       \* locked_by is NULL
    Nothing,      \* the worker has claimed no row
    Lease,        \* how long a claim is held (30 seconds)
    Window,       \* JetStream's duplicate window (2 minutes by default)
    MaxExponent,  \* largest exponent of the retry delay (8)
    MaxDelay,     \* largest retry delay (300 seconds)
    Horizon,      \* bound of the model: how far back available_at is told apart
    MaxCopies     \* bound of the model on the messages counted for a row

ASSUME OutboxAssumption ==
    /\ Nobody \notin Workers
    /\ Nothing \notin Rows
    /\ Lease \in Nat \ {0}
    /\ Window \in Nat
    /\ MaxExponent \in Nat
    /\ MaxDelay \in Nat
    /\ Horizon \in Nat
    /\ MaxCopies \in Nat \ {0}

\* Arithmetic the prover has no theory of.
ASSUME PowersAssumption == \A n \in 0 .. MaxExponent : 2 ^ n \in Nat

VARIABLES
    outbox,   \* event_outbox: the rows there are
    workers,  \* where each worker is in DispatchOnce
    copies,   \* messages the stream has ever stored for a row
    dedup     \* what is left of the window in which its message id is known

vars == <<outbox, workers, copies, dedup>>

Idle == [pc |-> "idle", event |-> Nothing]

Init ==
    /\ outbox = << >>
    /\ workers = [w \in Workers |-> Idle]
    /\ copies = [r \in Rows |-> 0]
    /\ dedup = [r \in Rows |-> 0]

-----------------------------------------------------------------------------
Lesser(a, b) == IF a < b THEN a ELSE b
Greater(a, b) == IF a > b THEN a ELSE b

Pending == {r \in DOMAIN outbox : ~ outbox[r].published}

\* Mutant: a row whose worker died stays locked.
claimable_unlocked ==
    {r \in Pending : outbox[r].available <= 0 /\ outbox[r].lockedBy = Nobody}

\* Mutant: published_at is not looked at.
claimable_published ==
    {r \in DOMAIN outbox : outbox[r].available <= 0 /\ outbox[r].lockedUntil < 0}

\* The rows the SELECT of claim may return.  locked_until must lie strictly in
\* the past; a row without a lock has lockedUntil = -1.
claimable ==
    {r \in Pending : outbox[r].available <= 0 /\ outbox[r].lockedUntil < 0}

\* Mutant: the exponent is not bounded.
retryDelay_unbounded(attempts) == 2 ^ (attempts + 1)

\* LEAST(300, POW(2, LEAST(attempts + 1, 8))), where the UPDATE has already
\* incremented attempts.
retryDelay(attempts) == Lesser(MaxDelay, 2 ^ Lesser(attempts + 1, MaxExponent))

\* Mutant: a worker releases a row without looking at its lock.
holds_any(w, r) == r \in DOMAIN outbox

\* WHERE id=? AND locked_by=?: the row is still the worker's.
holds(w, r) == r \in DOMAIN outbox /\ outbox[r].lockedBy = w

-----------------------------------------------------------------------------
\* Mutant: an id is used again while the stream knows it.
Enqueue_reused(r) ==
    /\ r \notin DOMAIN outbox
    /\ outbox' = [x \in DOMAIN outbox \cup {r} |->
                     IF x \in DOMAIN outbox THEN outbox[x]
                     ELSE [published |-> FALSE, available |-> 0, attempts |-> 0,
                           lockedBy |-> Nobody, lockedUntil |-> -1]]
    /\ UNCHANGED <<workers, copies, dedup>>

\* The row appears with the commit of the transaction that wrote it.  A new
\* id is one that nothing remembers.
Enqueue(r) ==
    /\ r \notin DOMAIN outbox
    /\ copies[r] = 0
    /\ \A w \in Workers : workers[w].event # r
    /\ outbox' = [x \in DOMAIN outbox \cup {r} |->
                     IF x \in DOMAIN outbox THEN outbox[x]
                     ELSE [published |-> FALSE, available |-> 0, attempts |-> 0,
                           lockedBy |-> Nobody, lockedUntil |-> -1]]
    /\ UNCHANGED <<workers, copies, dedup>>

\* ORDER BY available_at, created_at LIMIT 1 FOR UPDATE SKIP LOCKED.  Rows
\* equally far behind (or beyond Horizon) are taken in any order.
claim(w) ==
    /\ workers[w] = Idle
    /\ \E r \in claimable :
           /\ \A x \in claimable : outbox[r].available <= outbox[x].available
           /\ outbox' = [outbox EXCEPT ![r].lockedBy = w, ![r].lockedUntil = Lease]
           /\ workers' = [workers EXCEPT ![w] = [pc |-> "publish", event |-> r]]
    /\ UNCHANGED <<copies, dedup>>

\* JetStream takes the message: it is stored unless its id is still known.
\* The id is a digest of the row's subject, schedule, time and payload, which
\* no retry changes.
store(r) ==
    /\ copies' = [copies EXCEPT ![r] =
           IF dedup[r] > 0 THEN @ ELSE Lesser(@ + 1, MaxCopies)]
    /\ dedup' = [dedup EXCEPT ![r] = IF @ > 0 THEN @ ELSE Window]

\* PublishMsg returns without an error.
PublishAcked(w) ==
    /\ workers[w].pc = "publish"
    /\ store(workers[w].event)
    /\ workers' = [workers EXCEPT ![w].pc = "acked"]
    /\ UNCHANGED outbox

\* The message is stored, but its acknowledgement is lost or too late.
PublishTimedOut(w) ==
    /\ workers[w].pc = "publish"
    /\ store(workers[w].event)
    /\ workers' = [workers EXCEPT ![w].pc = "failed"]
    /\ UNCHANGED outbox

\* Mutant: the error of PublishMsg is dropped.
PublishFailed_ignored(w) ==
    /\ workers[w].pc = "publish"
    /\ workers' = [workers EXCEPT ![w].pc = "acked"]
    /\ UNCHANGED <<outbox, copies, dedup>>

\* Not connected, or refused: nothing is stored.
PublishFailed(w) ==
    /\ workers[w].pc = "publish"
    /\ workers' = [workers EXCEPT ![w].pc = "failed"]
    /\ UNCHANGED <<outbox, copies, dedup>>

\* The UPDATE that sets published_at, of no effect on a row lost to another.
MarkPublished(w) ==
    /\ workers[w].pc = "acked"
    /\ outbox' = IF holds(w, workers[w].event)
                 THEN [outbox EXCEPT ![workers[w].event] =
                          [@ EXCEPT !.published = TRUE, !.lockedBy = Nobody,
                                    !.lockedUntil = -1]]
                 ELSE outbox
    /\ workers' = [workers EXCEPT ![w] = Idle]
    /\ UNCHANGED <<copies, dedup>>

\* attempts is counted as far as retryDelay tells it apart.
reschedule(w) ==
    /\ workers[w].pc = "failed"
    /\ outbox' = IF holds(w, workers[w].event)
                 THEN [outbox EXCEPT ![workers[w].event] =
                          [published |-> @.published,
                           attempts |-> Lesser(@.attempts + 1, MaxExponent),
                           available |-> retryDelay(@.attempts + 1),
                           lockedBy |-> Nobody, lockedUntil |-> -1]]
                 ELSE outbox
    /\ workers' = [workers EXCEPT ![w] = Idle]
    /\ UNCHANGED <<copies, dedup>>

\* The process dies, the request's context is cancelled, or the UPDATE that
\* should follow fails: the claim is dropped as it stands.
Abandon(w) ==
    /\ workers[w] # Idle
    /\ workers' = [workers EXCEPT ![w] = Idle]
    /\ UNCHANGED <<outbox, copies, dedup>>

\* CleanupDeletedAccount deletes the rows of the account, published or not.
DeleteRow(r) ==
    /\ r \in DOMAIN outbox
    /\ outbox' = [x \in DOMAIN outbox \ {r} |-> outbox[x]]
    /\ UNCHANGED <<workers, copies, dedup>>

\* One unit of time passes.
Tick ==
    /\ outbox' = [r \in DOMAIN outbox |->
           [outbox[r] EXCEPT !.available = Greater(@ - 1, -Horizon),
                             !.lockedUntil = Greater(@ - 1, -1)]]
    /\ dedup' = [r \in Rows |-> Greater(dedup[r] - 1, 0)]
    /\ UNCHANGED <<workers, copies>>

Next ==
    \/ \E r \in Rows : Enqueue(r) \/ DeleteRow(r)
    \/ \E w \in Workers :
          \/ claim(w) \/ PublishAcked(w) \/ PublishTimedOut(w) \/ PublishFailed(w)
          \/ MarkPublished(w) \/ reschedule(w) \/ Abandon(w)
    \/ Tick

Spec == Init /\ [][Next]_vars

-----------------------------------------------------------------------------
(* Fairness.  Time passes; Run tries to claim once a second; PublishMsg has *)
(* a deadline, so that DispatchOnce always comes to an end.  JetStream and  *)
(* the database may fail for as long as they like, but not forever: of the  *)
(* attempts made while the lease lasts (the deadline is a third of it),     *)
(* infinitely many for one row, some is acknowledged and some is marked.    *)

Publishes(w) == PublishAcked(w) \/ PublishTimedOut(w) \/ PublishFailed(w)

InTime(r, w) == workers[w].event = r /\ holds(w, r)

Fairness ==
    /\ WF_vars(Tick)
    /\ WF_vars(\E w \in Workers : claim(w))
    /\ \A w \in Workers :
           /\ WF_vars(Publishes(w))
           /\ WF_vars(MarkPublished(w) \/ reschedule(w) \/ Abandon(w))
    /\ \A r \in Rows :
           /\ SF_vars(\E w \in Workers : InTime(r, w) /\ PublishAcked(w))
           /\ SF_vars(\E w \in Workers : InTime(r, w) /\ MarkPublished(w))

FairSpec == Spec /\ Fairness

-----------------------------------------------------------------------------
(* Properties.                                                             *)

\* Type invariant: the columns of the table and the state of the workers.
TypeOK ==
    /\ DOMAIN outbox \subseteq Rows
    /\ \A r \in DOMAIN outbox : outbox[r] \in
           [published : BOOLEAN, available : -Horizon .. MaxDelay, attempts : 0 .. MaxExponent,
            lockedBy : Workers \cup {Nobody}, lockedUntil : -1 .. Lease]
    /\ workers \in [Workers -> {Idle} \cup
           [pc : {"publish", "acked", "failed"}, event : Rows]]
    /\ copies \in [Rows -> 0 .. MaxCopies]
    /\ dedup \in [Rows -> 0 .. Window]

\* No event is lost: a row marked published is in the stream, whatever became
\* of the worker that published it, and so is one about to be marked.
PublishedIsStored ==
    /\ \A r \in DOMAIN outbox : outbox[r].published => copies[r] > 0
    /\ \A w \in Workers : workers[w].pc = "acked" => copies[workers[w].event] > 0

\* While a lease lasts, the row is released by the worker that took it or not
\* at all: a worker that lost the row to another cannot let it go.
LeaseRespected ==
    [][\A r \in DOMAIN outbox \cap DOMAIN outbox' :
           LET w == outbox[r].lockedBy
           IN  w # Nobody /\ outbox[r].lockedUntil >= 0 /\ outbox'[r].lockedBy # w
               => workers[w].event = r /\ workers'[w] = Idle]_vars

\* A published row is never claimed, published or rescheduled again.
PublishedIsFinal ==
    [][\A r \in DOMAIN outbox \cap DOMAIN outbox' : outbox[r].published =>
           /\ outbox'[r].published
           /\ outbox'[r].lockedBy = outbox[r].lockedBy
           /\ outbox'[r].attempts = outbox[r].attempts]_vars

\* "safely retried until JetStream accepts": every committed event is published
\* in the end, through crashes, lost acknowledgements and back-off, unless the
\* account is deleted first.
EventuallyPublished == \A r \in Rows : r \in Pending ~> r \notin Pending

\* What the outbox owes for a row, as module Delivery sees it.
phase ==
    [r \in Rows |->
        IF r \in DOMAIN outbox
        THEN IF outbox[r].published THEN "settled" ELSE "pending"
        ELSE IF \E w \in Workers : workers[w].event = r THEN "withdrawn" ELSE "absent"]

D == INSTANCE Delivery WITH Events <- Rows, stream <- {r \in Rows : copies[r] > 0}

\* The outbox delivers at least once: under leases, lost acknowledgements,
\* crashes and back-off, every step of the workers is one that Delivery allows.
\* An event is settled only when the stream has it, the stream only ever holds
\* committed events, and what was withdrawn or settled is never owed again.
AtLeastOnce == D!Spec

\* The comment on DispatchOnce: a later retry is absorbed by JetStream "through
\* the existing Nats-Msg-Id contract".
RetriesAbsorbed == \A r \in Rows : copies[r] <= 1
=============================================================================
