------------------------ MODULE AccountDeletionProofs ------------------------
(***************************************************************************)
(* Proofs about AccountDeletion, for any accounts, messages, replicas and  *)
(* requests: what is reported as deleted is deleted and stays deleted, and *)
(* a reminder is confirmed only for an account that was active when its    *)
(* schedule was read.                                                      *)
(*                                                                         *)
(* The inductive invariant says of every account with a tombstone, and not *)
(* only of the reported ones, that nothing of it is stored and that no     *)
(* transaction is open for it: the report comes several steps after the    *)
(* commit, on a replica that may have been overtaken by another delivery.  *)
(***************************************************************************)
EXTENDS AccountDeletion, TLAPS

Pcs == {"cleanup", "publish", "ack", "nak"}
Handling == [pc : Pcs, message : Messages, user : Users \cup {Malformed},
             status : {"none", "completed", "retry"}]

\* A clean-up has an account to clean up, and a report has an outcome.
HandlersKnow ==
    \A r \in Replicas :
        /\ consumers[r].pc \in {"cleanup", "publish"} => consumers[r].user \in Users
        /\ consumers[r].pc = "publish" => consumers[r].status \in {"completed", "retry"}

\* Nothing of an account with a tombstone is stored or about to be.
TombstonesHold ==
    \A u \in tombstones :
        /\ u \notin data /\ u \notin owed
        /\ \A q \in Requests : requests[q].pc = "tx" => requests[q].user # u

\* A success is reported, or about to be, only after the tombstone.
ReportsTrue ==
    /\ \A u \in Users : <<u, "completed">> \in results => u \in tombstones
    /\ \A r \in Replicas :
           consumers[r].pc = "publish" /\ consumers[r].status = "completed"
               => consumers[r].user \in tombstones

\* The account of a check that may still be confirmed was active when it began.
CheckGenuine ==
    /\ check.pc = "account" /\ check.user \in accounts => check.genuine
    /\ ReminderGenuine

DeletionInv ==
    /\ TypeOK
    /\ HandlersKnow
    /\ TombstonesHold
    /\ ReportsTrue
    /\ CheckGenuine

-----------------------------------------------------------------------------
\* The initial state satisfies the invariant.
LEMMA DeletionInit == Init => DeletionInv
  <1> SUFFICES ASSUME Init PROVE DeletionInv
    OBVIOUS
  <1>1. TypeOK
    BY DEF Init, TypeOK
  <1>2. HandlersKnow /\ TombstonesHold /\ ReportsTrue /\ CheckGenuine
    BY DEF Init, HandlersKnow, TombstonesHold, ReportsTrue, CheckGenuine, ReminderGenuine,
           Waiting, Over, Unasked
  <1> QED BY <1>1, <1>2 DEF DeletionInv

\* A replica that is not waiting is in handleMessage.
LEMMA HandlingType ==
    ASSUME TypeOK, NEW r \in Replicas, consumers[r].pc # "idle"
    PROVE  consumers[r] \in Handling
  <1>1. consumers[r] \in {Waiting} \cup Handling
    BY DEF TypeOK, Handling, Pcs
  <1>2. consumers[r] # Waiting
    BY DEF Waiting
  <1> QED BY <1>1, <1>2 DEF Handling

\* It goes on to another place with the same message.
LEMMA HandlingMoves ==
    ASSUME NEW c \in Handling, NEW p \in Pcs, NEW s \in {"none", "completed", "retry"}
    PROVE  LET d == [c EXCEPT !.pc = p, !.status = s]
           IN  d \in Handling /\ d.pc = p /\ d.status = s /\ d.user = c.user
  BY DEF Handling

\* Moving one replica to a well-typed place keeps the replicas typed.
LEMMA ReplicaMoves ==
    ASSUME TypeOK, NEW r \in Replicas, NEW c \in {Waiting} \cup Handling,
           consumers' = [consumers EXCEPT ![r] = c]
    PROVE  /\ consumers' \in [Replicas -> {Waiting} \cup Handling]
           /\ consumers'[r] = c
           /\ \A x \in Replicas : x # r => consumers'[x] = consumers[x]
  BY DEF TypeOK, Handling, Pcs

\* Auth and the stream: an account only ever stops being active.
LEMMA OutsideInv ==
    ASSUME DeletionInv,
           \/ \E u \in Users : Deactivate(u)
           \/ \E m \in Messages, u \in Users \cup {Malformed} : Send(m, u)
           \/ \E m \in Messages : AckWait(m)
    PROVE  DeletionInv'
  <1>1. /\ accounts' \subseteq accounts
        /\ UNCHANGED <<consumers, results, database, claims, requests, check>>
    BY DEF Deactivate, Send, AckWait
  <1>2. stream' \in [Messages -> {Empty} \cup
            [state : {"new", "out", "due"}, user : Users \cup {Malformed}]]
    <2>1. ASSUME NEW u \in Users, Deactivate(u) PROVE stream' = stream
      BY <2>1 DEF Deactivate
    <2>2. ASSUME NEW m \in Messages, NEW u \in Users \cup {Malformed}, Send(m, u)
          PROVE  stream' = [stream EXCEPT ![m] = [state |-> "new", user |-> u]]
      BY <2>2 DEF Send
    <2>3. ASSUME NEW m \in Messages, AckWait(m)
          PROVE  /\ stream[m] # Empty
                 /\ stream' = [stream EXCEPT ![m] = [state |-> "due", user |-> stream[m].user]]
      <3>1. stream[m].state = "out" /\ stream' = [stream EXCEPT ![m].state = "due"]
        BY <2>3 DEF AckWait
      <3>2. stream[m] # Empty
        BY <3>1 DEF Empty
      <3>3. stream[m] \in [state : {"new", "out", "due"}, user : Users \cup {Malformed}]
        BY <3>2 DEF DeletionInv, TypeOK
      <3>4. [stream[m] EXCEPT !.state = "due"] = [state |-> "due", user |-> stream[m].user]
        BY <3>3
      <3> QED BY <3>1, <3>2, <3>4
    <2> QED BY <2>1, <2>2, <2>3 DEF DeletionInv, TypeOK
  <1>3. TypeOK'
    BY <1>1, <1>2 DEF DeletionInv, TypeOK, database
  <1>4. HandlersKnow' /\ TombstonesHold' /\ ReportsTrue'
    BY <1>1 DEF DeletionInv, database, HandlersKnow, TombstonesHold, ReportsTrue
  <1>5. CheckGenuine'
    BY <1>1 DEF DeletionInv, CheckGenuine, ReminderGenuine
  <1> QED BY <1>3, <1>4, <1>5 DEF DeletionInv

\* A delivery starts a clean-up only for a message that names an account.
LEMMA DeliverInv ==
    ASSUME DeletionInv, NEW r \in Replicas, NEW m \in Messages, Deliver(r, m)
    PROVE  DeletionInv'
  <1> DEFINE c == [pc |-> parsed(stream[m].user), message |-> m, user |-> stream[m].user,
                   status |-> "none"]
  <1>1. /\ stream[m].state \in {"due", "new"}
        /\ stream' = [stream EXCEPT ![m].state = "out"]
        /\ consumers' = [consumers EXCEPT ![r] = c]
        /\ UNCHANGED <<accounts, results, database, claims, requests, check>>
    BY DEF Deliver
  <1>2. stream[m] \in [state : {"new", "out", "due"}, user : Users \cup {Malformed}]
    BY <1>1 DEF DeletionInv, TypeOK, Empty
  <1>3. stream' \in [Messages -> {Empty} \cup
            [state : {"new", "out", "due"}, user : Users \cup {Malformed}]]
    BY <1>1, <1>2 DEF DeletionInv, TypeOK
  <1>4. c \in Handling /\ c.pc \in {"ack", "cleanup"} /\ (c.pc = "cleanup" => c.user \in Users)
    BY <1>2 DEF Handling, Pcs, parsed
  <1> HIDE DEF c
  <1>5. /\ consumers' \in [Replicas -> {Waiting} \cup Handling] /\ consumers'[r] = c
        /\ \A x \in Replicas : x # r => consumers'[x] = consumers[x]
    BY <1>1, <1>4, ReplicaMoves DEF DeletionInv
  <1>6. TypeOK'
    BY <1>1, <1>3, <1>5 DEF DeletionInv, TypeOK, database, Handling, Pcs
  <1>7. HandlersKnow' /\ ReportsTrue'
    BY <1>1, <1>4, <1>5 DEF DeletionInv, HandlersKnow, ReportsTrue, database
  <1>8. TombstonesHold' /\ CheckGenuine'
    BY <1>1 DEF DeletionInv, TombstonesHold, CheckGenuine, ReminderGenuine, database
  <1> QED BY <1>6, <1>7, <1>8 DEF DeletionInv

\* The clean-up: with the tombstone, everything goes; and because its INSERT
\* waits for the transactions that found none, none of them is open.
LEMMA CleanupInv ==
    ASSUME DeletionInv, NEW r \in Replicas,
           CleanupDeletedAccount(r) \/ CleanupUncertain(r) \/ CleanupFails(r)
    PROVE  DeletionInv'
  <1> DEFINE u == consumers[r].user
  <1>1. PICK s \in {"completed", "retry"} :
            ends(r, s) /\ (cleanup(u) \/ (s = "retry" /\ UNCHANGED database))
    <2>1. CASE CleanupDeletedAccount(r)
      BY <2>1 DEF CleanupDeletedAccount
    <2>2. CASE CleanupUncertain(r)
      BY <2>2 DEF CleanupUncertain
    <2>3. CASE CleanupFails(r)
      BY <2>3 DEF CleanupFails
    <2> QED BY <2>1, <2>2, <2>3
  <1>2. /\ consumers[r].pc = "cleanup" /\ u \in Users
        /\ UNCHANGED <<accounts, stream, results, claims, requests, check>>
    BY <1>1 DEF ends, DeletionInv, HandlersKnow
  <1> DEFINE c == [consumers[r] EXCEPT !.pc = "publish", !.status = s]
  <1>3. c \in Handling /\ c.pc = "publish" /\ c.status = s /\ c.user = u
    <2>1. /\ consumers[r] \in Handling /\ "publish" \in Pcs
          /\ s \in {"none", "completed", "retry"}
      BY <1>2, HandlingType DEF DeletionInv, Pcs
    <2> QED BY <2>1 DEF Handling
  <1>4. consumers' = [consumers EXCEPT ![r] = c]
    BY <1>1 DEF ends
  <1> HIDE DEF c
  <1>5. /\ consumers' \in [Replicas -> {Waiting} \cup Handling] /\ consumers'[r] = c
        /\ \A x \in Replicas : x # r => consumers'[x] = consumers[x]
    BY <1>3, <1>4, ReplicaMoves DEF DeletionInv
  <1>6. /\ tombstones \subseteq tombstones' /\ tombstones' \subseteq tombstones \cup {u}
        /\ data' \subseteq data /\ owed' \subseteq owed
        /\ s = "completed" => u \in tombstones'
        /\ u \in tombstones' => u \in tombstones \/ cleanup(u)
    BY <1>1 DEF cleanup, database
  <1>7. TypeOK'
    BY <1>2, <1>5, <1>6 DEF DeletionInv, TypeOK, Handling, Pcs
  <1>8. HandlersKnow' /\ ReportsTrue'
    BY <1>2, <1>3, <1>5, <1>6 DEF DeletionInv, HandlersKnow, ReportsTrue
  <1>9. TombstonesHold'
    BY <1>2, <1>6 DEF DeletionInv, TombstonesHold, cleanup, tombstoneUnlocked
  <1>10. CheckGenuine'
    BY <1>2 DEF DeletionInv, CheckGenuine, ReminderGenuine
  <1> QED BY <1>7, <1>8, <1>9, <1>10 DEF DeletionInv

\* A report, whether it is stored or not, says what the clean-up did.
LEMMA PublishInv ==
    ASSUME DeletionInv, NEW r \in Replicas,
           PublishResult(r) \/ PublishUncertain(r) \/ PublishFails(r)
    PROVE  DeletionInv'
  <1>1. PICK p \in {"ack", "nak"}, R \in {result(r), {}} : publishes(r, p, R)
    BY DEF PublishResult, PublishUncertain, PublishFails
  <1>2. /\ consumers[r].pc = "publish"
        /\ results' = results \cup R
        /\ UNCHANGED <<accounts, stream, database, claims, requests, check>>
    BY <1>1 DEF publishes
  <1> DEFINE c == [consumers[r] EXCEPT !.pc = p, !.status = "none"]
  <1>3. c \in Handling /\ c.pc \in {"ack", "nak"}
    <2>1. consumers[r] \in Handling /\ p \in Pcs
      BY <1>2, HandlingType DEF DeletionInv, Pcs
    <2> QED BY <2>1, HandlingMoves
  <1>4. consumers' = [consumers EXCEPT ![r] = c]
    BY <1>1 DEF publishes
  <1> HIDE DEF c
  <1>5. /\ consumers' \in [Replicas -> {Waiting} \cup Handling] /\ consumers'[r] = c
        /\ \A x \in Replicas : x # r => consumers'[x] = consumers[x]
    BY <1>3, <1>4, ReplicaMoves DEF DeletionInv
  <1>6. /\ consumers[r].user \in Users /\ consumers[r].status \in {"completed", "retry"}
        /\ consumers[r].status = "completed" => consumers[r].user \in tombstones
    BY <1>2 DEF DeletionInv, HandlersKnow, ReportsTrue
  <1>7. results' \subseteq Users \X {"completed", "retry"}
    BY <1>2, <1>6 DEF DeletionInv, TypeOK, result
  <1>8. TypeOK'
    BY <1>2, <1>5, <1>7 DEF DeletionInv, TypeOK, database, Handling, Pcs
  <1>9. \A u \in Users : <<u, "completed">> \in results' => u \in tombstones
    BY <1>2, <1>6 DEF DeletionInv, ReportsTrue, result
  <1>10. HandlersKnow' /\ ReportsTrue'
    BY <1>2, <1>3, <1>5, <1>9 DEF DeletionInv, HandlersKnow, ReportsTrue, database
  <1>11. TombstonesHold' /\ CheckGenuine'
    BY <1>2 DEF DeletionInv, TombstonesHold, CheckGenuine, ReminderGenuine, database
  <1> QED BY <1>8, <1>10, <1>11 DEF DeletionInv

\* The replica is done with its message, one way or another.
LEMMA SettleInv ==
    ASSUME DeletionInv, NEW r \in Replicas, Ack(r) \/ Nak(r) \/ Abandon(r)
    PROVE  DeletionInv'
  <1>1. /\ consumers' = [consumers EXCEPT ![r] = Waiting]
        /\ UNCHANGED <<accounts, results, database, claims, requests, check>>
    BY DEF Ack, Nak, Abandon
  <1>2. /\ consumers' \in [Replicas -> {Waiting} \cup Handling] /\ consumers'[r].pc = "idle"
        /\ \A x \in Replicas : x # r => consumers'[x] = consumers[x]
    BY <1>1, ReplicaMoves DEF DeletionInv, Waiting
  <1>3. stream' \in [Messages -> {Empty} \cup
            [state : {"new", "out", "due"}, user : Users \cup {Malformed}]]
    <2>1. CASE Ack(r)
      BY <2>1 DEF Ack, DeletionInv, TypeOK
    <2>2. CASE Nak(r)
      <3> DEFINE m == consumers[r].message
      <3>1. m \in Messages
        BY <2>2, HandlingType DEF DeletionInv, Nak, Handling
      <3>2. /\ DOMAIN stream' = Messages
            /\ \A x \in Messages : x # m => stream'[x] = stream[x]
            /\ stream[m].state # "out" => stream'[m] = [stream[m] EXCEPT !.state = stream[m].state]
            /\ stream[m].state = "out" => stream'[m] = [stream[m] EXCEPT !.state = "due"]
        BY <2>2, <3>1 DEF Nak, DeletionInv, TypeOK
      <3>3. stream[m].state = "out" =>
                stream[m] \in [state : {"new", "out", "due"}, user : Users \cup {Malformed}]
        BY <3>1 DEF DeletionInv, TypeOK, Empty
      <3>4. [stream[m] EXCEPT !.state = stream[m].state] = stream[m]
        BY <3>1 DEF DeletionInv, TypeOK, Empty
      <3> QED BY <2>2, <3>1, <3>2, <3>3, <3>4 DEF DeletionInv, TypeOK, Nak
    <2>3. CASE Abandon(r)
      BY <2>3 DEF Abandon, DeletionInv, TypeOK
    <2> QED BY <2>1, <2>2, <2>3
  <1>4. TypeOK'
    BY <1>1, <1>2, <1>3 DEF DeletionInv, TypeOK, database, Handling, Pcs
  <1>5. HandlersKnow' /\ ReportsTrue'
    BY <1>1, <1>2 DEF DeletionInv, HandlersKnow, ReportsTrue, database
  <1>6. TombstonesHold' /\ CheckGenuine'
    BY <1>1 DEF DeletionInv, TombstonesHold, CheckGenuine, ReminderGenuine, database
  <1> QED BY <1>4, <1>5, <1>6 DEF DeletionInv

\* The requests: a transaction is open only for an account that had no
\* tombstone at its first statement, and has none at its commit.
LEMMA RequestInv ==
    ASSUME DeletionInv, NEW q \in Requests,
           \/ \E u \in Users : active(q, u)
           \/ ensureAccountNotDeleted(q) \/ Commit(q) \/ Rollback(q)
    PROVE  DeletionInv'
  <1> DEFINE Behind == [pc : {"handler", "tx"}, user : Users]
  <1>1. /\ requests \in [Requests -> {Over} \cup Behind]
        /\ requests[q].pc \in {"handler", "tx"} => requests[q] \in Behind
    BY DEF DeletionInv, TypeOK, Over
  <1>2. PICK x \in {Over} \cup Behind :
            /\ requests' = [requests EXCEPT ![q] = x]
            /\ x.pc = "tx" => x.user \notin tombstones
    <2>1. ASSUME NEW u \in Users, active(q, u)
          PROVE  \E x \in {Over} \cup Behind :
                     requests' = [requests EXCEPT ![q] = x] /\ x.pc # "tx"
      <3> DEFINE x == [pc |-> "handler", user |-> u]
      <3>1. x \in {Over} \cup Behind /\ x.pc # "tx"
        OBVIOUS
      <3>2. requests' = [requests EXCEPT ![q] = x]
        BY <2>1 DEF active
      <3> HIDE DEF x
      <3> QED BY <3>1, <3>2
    <2>2. CASE ensureAccountNotDeleted(q)
      <3>1. requests[q] \in Behind
        BY <1>1, <2>2 DEF ensureAccountNotDeleted
      <3> DEFINE x == IF allowed(requests[q].user) THEN [requests[q] EXCEPT !.pc = "tx"] ELSE Over
      <3>2. x \in {Over} \cup Behind /\ (x.pc = "tx" => x.user \notin tombstones)
        BY <3>1 DEF allowed, Over
      <3>3. requests' = [requests EXCEPT ![q] = x]
        BY <2>2 DEF ensureAccountNotDeleted
      <3> HIDE DEF x
      <3> QED BY <3>2, <3>3
    <2>3. CASE Commit(q) \/ Rollback(q)
      <3>1. requests' = [requests EXCEPT ![q] = Over]
        BY <2>3 DEF Commit, Rollback
      <3>2. Over \in {Over} \cup Behind /\ Over.pc # "tx"
        BY DEF Over
      <3> QED BY <3>1, <3>2
    <2> QED BY <2>1, <2>2, <2>3
  <1>3. /\ requests' \in [Requests -> {Over} \cup Behind]
        /\ requests'[q] = x
        /\ \A y \in Requests : y # q => requests'[y] = requests[y]
    BY <1>1, <1>2
  <1>4. UNCHANGED <<accounts, stream, consumers, results, tombstones, claims, check>>
    BY DEF active, ensureAccountNotDeleted, Commit, Rollback, database
  <1>5. PICK W \in SUBSET Users : /\ W \cap tombstones = {}
                                  /\ data' = data \cup W /\ owed' = owed \cup W
    <2>1. CASE Commit(q)
      <3>1. requests[q].user \in Users /\ requests[q].user \notin tombstones
        BY <1>1, <2>1 DEF Commit, DeletionInv, TombstonesHold
      <3>2. {requests[q].user} \in SUBSET Users /\ {requests[q].user} \cap tombstones = {}
        BY <3>1
      <3> QED BY <2>1, <3>2 DEF Commit
    <2>2. CASE ~Commit(q)
      <3>1. UNCHANGED database
        BY <2>2 DEF active, ensureAccountNotDeleted, Rollback
      <3>2. {} \in SUBSET Users /\ {} \cap tombstones = {} /\ data' = data \cup {} /\ owed' = owed \cup {}
        BY <3>1 DEF database
      <3> QED BY <3>2
    <2> QED BY <2>1, <2>2
  <1>6. TypeOK'
    BY <1>3, <1>4, <1>5 DEF DeletionInv, TypeOK
  <1>7. TombstonesHold'
    BY <1>2, <1>3, <1>4, <1>5 DEF DeletionInv, TombstonesHold
  <1>8. HandlersKnow' /\ ReportsTrue' /\ CheckGenuine'
    BY <1>4 DEF DeletionInv, HandlersKnow, ReportsTrue, CheckGenuine, ReminderGenuine
  <1> QED BY <1>6, <1>7, <1>8 DEF DeletionInv

\* The workers of the outbox only take away.
LEMMA ClaimInv ==
    ASSUME DeletionInv, NEW u \in Users, claim(u) \/ Released(u)
    PROVE  DeletionInv'
  <1>1. /\ claims' \subseteq claims \cup {u} /\ owed' \subseteq owed
        /\ UNCHANGED <<accounts, stream, consumers, results, tombstones, data, requests, check>>
    BY DEF claim, Released, database
  <1>2. TypeOK'
    BY <1>1 DEF DeletionInv, TypeOK
  <1>3. HandlersKnow' /\ TombstonesHold' /\ ReportsTrue' /\ CheckGenuine'
    BY <1>1 DEF DeletionInv, HandlersKnow, TombstonesHold, ReportsTrue, CheckGenuine, ReminderGenuine
  <1> QED BY <1>2, <1>3 DEF DeletionInv

\* The check of a reminder: Auth says yes after the schedule was read, so the
\* account, which never becomes active again, was active then.
LEMMA CheckInv ==
    ASSUME DeletionInv,
           \/ \E u \in Users : reminderValidity(u)
           \/ accountActive \/ accountActiveFails \/ ValidityAnswered
    PROVE  DeletionInv'
  <1> DEFINE Asked == [pc : {"account", "valid"}, user : Users, genuine : BOOLEAN]
  <1>1. UNCHANGED <<accounts, stream, consumers, results, tombstones, data, owed, claims, requests>>
    BY DEF reminderValidity, accountActive, accountActiveFails, ValidityAnswered, answers, database
  <1>2. check' \in {Unasked} \cup Asked /\ CheckGenuine'
    <2>1. ASSUME NEW u \in Users, reminderValidity(u)
          PROVE  check' \in {Unasked} \cup Asked /\ CheckGenuine'
      <3>1. check' = [pc |-> "account", user |-> u, genuine |-> u \in accounts]
        BY <2>1 DEF reminderValidity
      <3>2. check'.pc = "account" /\ check'.user = u /\ check'.genuine = (u \in accounts)
        BY <3>1
      <3>3. check' \in Asked
        BY <3>1
      <3> QED BY <1>1, <3>2, <3>3 DEF CheckGenuine, ReminderGenuine
    <2>2. ASSUME check' = Unasked
          PROVE  check' \in {Unasked} \cup Asked /\ CheckGenuine'
      BY <2>2 DEF Unasked, CheckGenuine, ReminderGenuine
    <2>3. ASSUME check.pc = "account", check.user \in accounts, check' = [check EXCEPT !.pc = "valid"]
          PROVE  check' \in {Unasked} \cup Asked /\ CheckGenuine'
      <3>1. check \in Asked
        BY <2>3 DEF DeletionInv, TypeOK, Unasked
      <3>2. check' \in Asked /\ check'.pc = "valid" /\ check'.genuine = check.genuine
        BY <2>3, <3>1
      <3>3. check.genuine
        BY <2>3 DEF DeletionInv, CheckGenuine
      <3> QED BY <3>2, <3>3 DEF CheckGenuine, ReminderGenuine
    <2>4. CASE accountActive
      BY <2>2, <2>3, <2>4 DEF accountActive, answers
    <2>5. CASE accountActiveFails \/ ValidityAnswered
      BY <2>2, <2>5 DEF accountActiveFails, answers, ValidityAnswered
    <2> QED BY <2>1, <2>4, <2>5
  <1>3. TypeOK'
    BY <1>1, <1>2 DEF DeletionInv, TypeOK
  <1>4. HandlersKnow' /\ TombstonesHold' /\ ReportsTrue'
    BY <1>1 DEF DeletionInv, HandlersKnow, TombstonesHold, ReportsTrue
  <1> QED BY <1>2, <1>3, <1>4 DEF DeletionInv

\* Every step of the system keeps the invariant.
LEMMA DeletionStep == DeletionInv /\ [Next]_vars => DeletionInv'
  <1> SUFFICES ASSUME DeletionInv, [Next]_vars PROVE DeletionInv'
    OBVIOUS
  <1>1. CASE \/ \E u \in Users : Deactivate(u) \/ \E m \in Messages : RequestDeletion(u, m)
             \/ \E m \in Messages : Send(m, Malformed) \/ AckWait(m)
    BY <1>1, OutsideInv DEF RequestDeletion
  <1>2. CASE \E r \in Replicas : (\E m \in Messages : Deliver(r, m)) \/ handleMessage(r)
    BY <1>2, DeliverInv, CleanupInv, PublishInv, SettleInv DEF handleMessage
  <1>3. CASE \E q \in Requests : \/ \E u \in Users : active(q, u)
                                 \/ ensureAccountNotDeleted(q) \/ Commit(q) \/ Rollback(q)
    BY <1>3, RequestInv
  <1>4. CASE \E u \in Users : claim(u) \/ Released(u)
    BY <1>4, ClaimInv
  <1>5. CASE \/ \E u \in Users : reminderValidity(u)
             \/ accountActive \/ accountActiveFails \/ ValidityAnswered
    BY <1>5, CheckInv
  <1>6. CASE UNCHANGED vars
    BY <1>6 DEF vars, DeletionInv, TypeOK, HandlersKnow, TombstonesHold, ReportsTrue,
                CheckGenuine, ReminderGenuine
  <1> QED BY <1>1, <1>2, <1>3, <1>4, <1>5, <1>6 DEF Next

\* The invariant holds in every behaviour of the consumer, the requests and
\* the outbox.
THEOREM DeletionInvariant == Spec => []DeletionInv
  <1>1. Init => DeletionInv
    BY DeletionInit
  <1>2. DeletionInv /\ [Next]_vars => DeletionInv'
    BY DeletionStep
  <1> QED BY <1>1, <1>2, PTL DEF Spec

-----------------------------------------------------------------------------
\* The stream, the handlers and the tables stay well-formed.
THEOREM DeletionTypes == Spec => []TypeOK
  <1>1. DeletionInv => TypeOK
    BY DEF DeletionInv
  <1> QED BY <1>1, DeletionInvariant, PTL

\* What consumer.go reports to Auth as completed is deleted, and nobody writes
\* for the account any more.
THEOREM ReportedIsGone == Spec => []CompletedIsGone
  <1>1. DeletionInv => CompletedIsGone
    BY DEF DeletionInv, CompletedIsGone, TombstonesHold, ReportsTrue
  <1> QED BY <1>1, DeletionInvariant, PTL

\* reminderValidity confirms a reminder only for an account that was
\* active when the schedule was read.
THEOREM RemindersAreGenuine == Spec => []ReminderGenuine
  <1>1. DeletionInv => ReminderGenuine
    BY DEF DeletionInv, CheckGenuine
  <1> QED BY <1>1, DeletionInvariant, PTL

\* From the tombstone on, no row, event or claim of the account appears.
THEOREM DeletionIsFinal == Spec => NothingAfterTombstone
  <1> DEFINE Kept == \A u \in tombstones :
                        /\ u \in tombstones'
                        /\ u \in data' => u \in data
                        /\ u \in owed' => u \in owed
                        /\ u \in claims' => u \in claims
  <1>1. DeletionInv /\ [Next]_vars => [Kept]_vars
    <2> SUFFICES ASSUME DeletionInv, Next PROVE Kept
      BY DEF vars
    <2>1. DeletionInv'
      BY DeletionStep
    <2>2. tombstones \subseteq tombstones'
      BY DEF Next, accountActive, accountActiveFails, answers, ValidityAnswered, reminderValidity,
             Deactivate, claim, Released, RequestDeletion, Send, active, AckWait, Deliver,
             handleMessage, CleanupDeletedAccount, CleanupUncertain, CleanupFails, ends, cleanup,
             PublishResult, PublishUncertain, PublishFails, publishes, Ack, Nak, Abandon,
             ensureAccountNotDeleted, Commit, Rollback, database
    <2>3. claims' \subseteq claims \cup owed
      BY DEF Next, accountActive, accountActiveFails, answers, ValidityAnswered, reminderValidity,
             Deactivate, claim, Released, RequestDeletion, Send, active, AckWait, Deliver,
             handleMessage, CleanupDeletedAccount, CleanupUncertain, CleanupFails, ends,
             PublishResult, PublishUncertain, PublishFails, publishes, Ack, Nak, Abandon,
             ensureAccountNotDeleted, Commit, Rollback
    <2> QED BY <2>1, <2>2, <2>3 DEF DeletionInv, TombstonesHold
  <1> HIDE DEF Kept
  <1>2. Spec => [][Kept]_vars
    BY <1>1, DeletionInvariant, PTL DEF Spec
  <1> QED BY <1>2 DEF NothingAfterTombstone, Kept
=============================================================================
