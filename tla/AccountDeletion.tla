--------------------------- MODULE AccountDeletion ---------------------------
(***************************************************************************)
(* The end of an account: Auth deactivates it and asks every service to    *)
(* delete what it holds (stream ACCOUNT_LIFECYCLE); the durable consumer   *)
(* of svc-core (internal/accountdeletion/consumer.go) cleans up and        *)
(* reports.  Meanwhile requests that passed the introspection before go on *)
(* to their transactions, workers of the outbox publish what they claimed  *)
(* before, and the notification service asks whether a reminder it is      *)
(* about to send is still valid (internal/api/internal_services.go).       *)
(*                                                                         *)
(* The module composes four parts, each reduced to what it does to one     *)
(* account: the middleware (module JWTAuth) to its last check, the         *)
(* transactions (ScheduleStore) to their tombstone check and their commit, *)
(* the outbox (Outbox) to a claim and its end, and the consumer, which is  *)
(* modelled in full here.                                                  *)
(***************************************************************************)
EXTENDS FiniteSets

CONSTANTS
    Users,      \* account ids
    Malformed,  \* a message that names no account
    Messages,   \* sequence numbers of the stream
    Replicas,   \* processes that run the consumer, one message at a time
    Requests,   \* HTTP requests in progress
    Nothing     \* the replica handles no message, the request is over

ASSUME DeletionAssumption ==
    /\ Malformed \notin Users
    /\ Nothing \notin Messages \cup Users

VARIABLES
    accounts,    \* accounts that are active at Auth                 (external)
    stream,      \* the deletion requests, and their delivery state  (external)
    consumers,   \* where each replica is in handleMessage
    results,     \* the <<user, status>> reported to Auth
    tombstones,  \* account_deletion_tombstones
    data,        \* accounts with rows in any of the other tables
    owed,        \* accounts with a row in event_outbox
    claims,      \* accounts of which a worker holds an event
    requests,    \* requests behind the middleware
    check        \* the validity request in progress

vars == <<accounts, stream, consumers, results, tombstones, data, owed, claims, requests, check>>

Waiting == [pc |-> "idle", message |-> Nothing, user |-> Nothing, status |-> "none"]
Over == [pc |-> "over", user |-> Nothing]
\* genuine is history: when the schedule was read, was the account active?
Unasked == [pc |-> "over", user |-> Nothing, genuine |-> FALSE]
Empty == [state |-> "none", user |-> Nothing]

Init ==
    /\ accounts = Users
    /\ stream = [m \in Messages |-> Empty]
    /\ consumers = [r \in Replicas |-> Waiting]
    /\ results = {}
    /\ tombstones = {}
    /\ data = {}
    /\ owed = {}
    /\ claims = {}
    /\ requests = [q \in Requests |-> Over]
    /\ check = Unasked

database == <<tombstones, data, owed>>

-----------------------------------------------------------------------------
(* Auth and JetStream (external).  A message is "out" once delivered and    *)
(* "due" when it is to be delivered again; in both it fills the one place   *)
(* MaxAckPending leaves, so that no later message passes it.                *)

Deactivate(u) ==
    /\ u \in accounts
    /\ accounts' = accounts \ {u}
    /\ UNCHANGED <<stream, consumers, results, database, claims, requests, check>>

\* A sequence number nothing remembers.
fresh(m) == stream[m] = Empty /\ \A r \in Replicas : consumers[r].message # m

Send(m, u) ==
    /\ fresh(m)
    /\ \A x \in Messages : stream[x].user # u
    /\ stream' = [stream EXCEPT ![m] = [state |-> "new", user |-> u]]
    /\ UNCHANGED <<accounts, consumers, results, database, claims, requests, check>>

\* Auth asks, and asks again when its last request ended without a success.
RequestDeletion(u, m) ==
    /\ u \notin accounts
    /\ <<u, "completed">> \notin results
    /\ Send(m, u)

outstanding == {m \in Messages : stream[m].state \in {"out", "due"}}

\* Mutant: a message that does not parse is an error like any other.
parsed_strict(u) == IF u = Malformed THEN "nak" ELSE "cleanup"

\* A message that does not parse, or names no event, request or account, is
\* acknowledged and dropped.
parsed(u) == IF u = Malformed THEN "ack" ELSE "cleanup"

\* The consumer is durable: any replica may get the message.
Deliver(r, m) ==
    /\ consumers[r] = Waiting
    /\ \/ stream[m].state = "due"
       \/ stream[m].state = "new" /\ outstanding = {}
    /\ stream' = [stream EXCEPT ![m].state = "out"]
    /\ consumers' = [consumers EXCEPT ![r] =
           [pc |-> parsed(stream[m].user), message |-> m, user |-> stream[m].user,
            status |-> "none"]]
    /\ UNCHANGED <<accounts, results, database, claims, requests, check>>

\* 30 seconds without an acknowledgement: the replica died, is slow, or its
\* acknowledgement was lost.
AckWait(m) ==
    /\ stream[m].state = "out"
    /\ stream' = [stream EXCEPT ![m].state = "due"]
    /\ UNCHANGED <<accounts, consumers, results, database, claims, requests, check>>

-----------------------------------------------------------------------------
(* handleMessage.                                                           *)

\* The INSERT of the tombstone waits for every transaction that found none.
tombstoneUnlocked(u) ==
    \A q \in Requests : requests[q].pc = "tx" => requests[q].user # u

\* Mutant: the events are left to the outbox.
cleanup_keeps(u) ==
    /\ tombstoneUnlocked(u)
    /\ tombstones' = tombstones \cup {u}
    /\ data' = data \ {u}
    /\ UNCHANGED owed

\* The transaction of CleanupDeletedAccount.
cleanup(u) ==
    /\ tombstoneUnlocked(u)
    /\ tombstones' = tombstones \cup {u}
    /\ data' = data \ {u}
    /\ owed' = owed \ {u}

\* The outcome of the clean-up is what the result will say.
ends(r, status) ==
    /\ consumers[r].pc = "cleanup"
    /\ consumers' = [consumers EXCEPT ![r].pc = "publish", ![r].status = status]
    /\ UNCHANGED <<accounts, stream, results, claims, requests, check>>

CleanupDeletedAccount(r) == ends(r, "completed") /\ cleanup(consumers[r].user)

\* Committed, but the answer of the database is lost.
CleanupUncertain(r) == ends(r, "retry") /\ cleanup(consumers[r].user)

\* Mutant: the error of the clean-up is dropped.
CleanupFails_ignored(r) == ends(r, "completed") /\ UNCHANGED database

\* Rolled back: the database is away, or a lock was not granted in time.
CleanupFails(r) == ends(r, "retry") /\ UNCHANGED database

\* js.Publish, then Ack or, in the caller of handleMessage, NakWithDelay.
publishes(r, pc, reported) ==
    /\ consumers[r].pc = "publish"
    /\ results' = results \cup reported
    /\ consumers' = [consumers EXCEPT ![r].pc = pc, ![r].status = "none"]
    /\ UNCHANGED <<accounts, stream, database, claims, requests, check>>

result(r) == {<<consumers[r].user, consumers[r].status>>}

PublishResult(r) == publishes(r, "ack", result(r))

\* The result is stored, but its acknowledgement is lost.
PublishUncertain(r) == publishes(r, "nak", result(r))

PublishFails(r) == publishes(r, "nak", {})

\* Mutant: the place of the message is not given back.
Ack_kept(r) ==
    /\ consumers[r].pc = "ack"
    /\ stream' = [stream EXCEPT ![consumers[r].message].state = "none"]
    /\ consumers' = [consumers EXCEPT ![r] = Waiting]
    /\ UNCHANGED <<accounts, results, database, claims, requests, check>>

\* The message is settled by its sequence number, whichever delivery of it is
\* acknowledged.
Ack(r) ==
    /\ consumers[r].pc = "ack"
    /\ stream' = [stream EXCEPT ![consumers[r].message] = Empty]
    /\ consumers' = [consumers EXCEPT ![r] = Waiting]
    /\ UNCHANGED <<accounts, results, database, claims, requests, check>>

Nak(r) ==
    /\ consumers[r].pc = "nak"
    /\ stream' = [stream EXCEPT ![consumers[r].message].state =
                     IF @ = "out" THEN "due" ELSE @]
    /\ consumers' = [consumers EXCEPT ![r] = Waiting]
    /\ UNCHANGED <<accounts, results, database, claims, requests, check>>

\* The process dies, or what it sends JetStream is lost; Run connects again.
Abandon(r) ==
    /\ consumers[r] # Waiting
    /\ consumers' = [consumers EXCEPT ![r] = Waiting]
    /\ UNCHANGED <<accounts, stream, results, database, claims, requests, check>>

handleMessage(r) ==
    \/ CleanupDeletedAccount(r) \/ CleanupUncertain(r) \/ CleanupFails(r)
    \/ PublishResult(r) \/ PublishUncertain(r) \/ PublishFails(r)
    \/ Ack(r) \/ Nak(r) \/ Abandon(r)

-----------------------------------------------------------------------------
(* Requests and the outbox.                                                 *)

\* The introspection finds the account active: the handler starts.
active(q, u) ==
    /\ requests[q] = Over
    /\ u \in accounts
    /\ requests' = [requests EXCEPT ![q] = [pc |-> "handler", user |-> u]]
    /\ UNCHANGED <<accounts, stream, consumers, results, database, claims, check>>

allowed(u) == u \notin tombstones

\* The first statement of every writing transaction; 410 if there is one.
ensureAccountNotDeleted(q) ==
    /\ requests[q].pc = "handler"
    /\ requests' = [requests EXCEPT ![q] =
           IF allowed(@.user) THEN [@ EXCEPT !.pc = "tx"] ELSE Over]
    /\ UNCHANGED <<accounts, stream, consumers, results, database, claims, check>>

\* Rows of the account, and an event of the change.
Commit(q) ==
    /\ requests[q].pc = "tx"
    /\ data' = data \cup {requests[q].user}
    /\ owed' = owed \cup {requests[q].user}
    /\ requests' = [requests EXCEPT ![q] = Over]
    /\ UNCHANGED <<accounts, stream, consumers, results, tombstones, claims, check>>

Rollback(q) ==
    /\ requests[q].pc = "tx"
    /\ requests' = [requests EXCEPT ![q] = Over]
    /\ UNCHANGED <<accounts, stream, consumers, results, database, claims, check>>

\* A worker claims an event of the account; it publishes what it has read.
claim(u) ==
    /\ u \in owed \ claims
    /\ claims' = claims \cup {u}
    /\ UNCHANGED <<accounts, stream, consumers, results, database, requests, check>>

\* The claim ends: the row is marked, the last one of the account or not, or
\* rescheduled, or it is no longer there.
Released(u) ==
    /\ u \in claims
    /\ claims' = claims \ {u}
    /\ owed' \in {owed, owed \ {u}}
    /\ UNCHANGED <<accounts, stream, consumers, results, tombstones, data, requests, check>>

-----------------------------------------------------------------------------
(* reminderValidity, for the notification service.                          *)

\* The schedule is read; whether its status, channel, reminder and instant
\* are still the ones asked for is left open.  If not, the answer is no.
reminderValidity(u) ==
    /\ check = Unasked
    /\ u \in data
    /\ check' = [pc |-> "account", user |-> u, genuine |-> u \in accounts]
    /\ UNCHANGED <<accounts, stream, consumers, results, database, claims, requests>>

answers(pc) ==
    /\ check.pc = "account"
    /\ check' = IF pc = "valid" THEN [check EXCEPT !.pc = pc] ELSE Unasked
    /\ UNCHANGED <<accounts, stream, consumers, results, database, claims, requests>>

\* Auth's answer decides.
accountActive == answers(IF check.user \in accounts THEN "valid" ELSE "invalid")

\* Mutant: without an answer the reminder is sent.
accountActiveFails_open == answers("valid")

\* No answer, or not a 200: 503, and the notification service asks again.
accountActiveFails == answers("503")

ValidityAnswered ==
    /\ check.pc = "valid"
    /\ check' = Unasked
    /\ UNCHANGED <<accounts, stream, consumers, results, database, claims, requests>>

-----------------------------------------------------------------------------
Next ==
    \/ accountActive \/ accountActiveFails \/ ValidityAnswered
    \/ \E u \in Users :
          \/ reminderValidity(u)
          \/ Deactivate(u) \/ claim(u) \/ Released(u)
          \/ \E m \in Messages : RequestDeletion(u, m)
          \/ \E q \in Requests : active(q, u)
    \/ \E m \in Messages : Send(m, Malformed) \/ AckWait(m)
    \/ \E r \in Replicas :
          \/ \E m \in Messages : Deliver(r, m)
          \/ handleMessage(r)
    \/ \E q \in Requests : ensureAccountNotDeleted(q) \/ Commit(q) \/ Rollback(q)

Spec == Init /\ [][Next]_vars

(* Fairness.  JetStream delivers in order and again after AckWait; a        *)
(* handler and a transaction come to an end; Auth keeps asking, as the log  *)
(* line "auth will retry" relies on; and of infinitely many clean-ups,      *)
(* reports of a success or acknowledgements, some get through.              *)
Fairness ==
    /\ \A m \in Messages :
           /\ SF_vars(\E r \in Replicas : Deliver(r, m))
           /\ WF_vars(AckWait(m))
           /\ SF_vars(\E r \in Replicas : consumers[r].message = m /\ Ack(r))
    /\ \A r \in Replicas : WF_vars(handleMessage(r))
    /\ \A q \in Requests : WF_vars(ensureAccountNotDeleted(q) \/ Commit(q) \/ Rollback(q))
    /\ \A u \in Users :
           /\ SF_vars(\E m \in Messages : RequestDeletion(u, m))
           /\ SF_vars(\E r \in Replicas : consumers[r].user = u /\ CleanupDeletedAccount(r))
           /\ SF_vars(\E r \in Replicas : /\ consumers[r].user = u
                                          /\ consumers[r].status = "completed"
                                          /\ PublishResult(r))

FairSpec == Spec /\ Fairness

-----------------------------------------------------------------------------
(* Properties.                                                             *)

\* Type invariant: the stream, the handlers and the tables.
TypeOK ==
    /\ accounts \subseteq Users
    /\ stream \in [Messages -> {Empty} \cup
           [state : {"new", "out", "due"}, user : Users \cup {Malformed}]]
    /\ consumers \in [Replicas -> {Waiting} \cup
           [pc : {"cleanup", "publish", "ack", "nak"}, message : Messages,
            user : Users \cup {Malformed}, status : {"none", "completed", "retry"}]]
    /\ results \subseteq Users \X {"completed", "retry"}
    /\ tombstones \subseteq Users
    /\ data \subseteq Users
    /\ owed \subseteq Users
    /\ claims \subseteq Users
    /\ requests \in [Requests -> {Over} \cup [pc : {"handler", "tx"}, user : Users]]
    /\ check \in {Unasked} \cup [pc : {"account", "valid"}, user : Users, genuine : BOOLEAN]

\* What Auth is told is true and stays true: once "completed" is reported for
\* an account, it has its tombstone, nothing of it is stored, and no request
\* that was let in before its deactivation can store anything any more, through
\* redeliveries to other replicas, lost commits and lost acknowledgements.
CompletedIsGone ==
    \A u \in Users : <<u, "completed">> \in results =>
        /\ u \in tombstones
        /\ u \notin data \cup owed
        /\ \A q \in Requests : requests[q].pc = "tx" => requests[q].user # u

\* The deletion is not taken back by anyone: from the tombstone on, no row and
\* no event of the account appears, and no worker claims one.  An event claimed
\* before may still be published, by the worker that holds it and by no other.
NothingAfterTombstone ==
    [][\A u \in tombstones :
           /\ u \in tombstones'
           /\ u \in data' => u \in data
           /\ u \in owed' => u \in owed
           /\ u \in claims' => u \in claims]_vars

\* A reminder is confirmed only if at one moment of the request its schedule was
\* stored and its account active, although the two are asked one after the
\* other, in the database and at Auth, while the account is being deleted.
ReminderGenuine == check.pc = "valid" => check.genuine

\* Every deactivated account is reported as deleted in the end: failed
\* clean-ups, redeliveries, crashes and messages that do not parse only delay it.
DeletionCompletes ==
    \A u \in Users : u \notin accounts ~> <<u, "completed">> \in results
=============================================================================
