---------------------------- MODULE OutboxProofs ----------------------------
(***************************************************************************)
(* Proofs about Outbox, for any rows, workers, lease, window and delays: a *)
(* row marked published is in the stream and stays as it is, and a lease   *)
(* is released by the worker that took it or not at all.                   *)
(*                                                                         *)
(* The inductive invariant adds to the types that a published row is       *)
(* unlocked: no worker can hold it any more, so no late UPDATE finds it;   *)
(* and that JetStream takes only what it has stored for a duplicate.       *)
(* The ranges of the columns are an invariant of their own: of the delay a *)
(* failure asks for it is enough to know that a power of two is a number.  *)
(***************************************************************************)
EXTENDS Outbox, TLAPS

\* r is a record with the columns of event_outbox.
IsRow(r) == r = [published |-> r.published, available |-> r.available,
                 attempts |-> r.attempts, lockedBy |-> r.lockedBy,
                 lockedUntil |-> r.lockedUntil]

RowsTyped ==
    /\ DOMAIN outbox \subseteq Rows
    /\ \A r \in DOMAIN outbox :
           /\ IsRow(outbox[r])
           /\ outbox[r].published \in BOOLEAN
           /\ outbox[r].lockedBy \in Workers \cup {Nobody}
           /\ outbox[r].lockedUntil \in Int

Claim == [pc : {"publish", "acked", "failed"}, event : Rows]

WorkersTyped == workers \in [Workers -> {Idle} \cup Claim]

PublishedUnlocked == \A r \in DOMAIN outbox : outbox[r].published => outbox[r].lockedBy = Nobody

DuplicatesStored ==
    /\ dedup \in [Rows -> Nat]
    /\ \A r \in Rows : dedup[r] > 0 => copies[r] > 0

OutboxInv ==
    /\ RowsTyped
    /\ WorkersTyped
    /\ copies \in [Rows -> Nat]
    /\ DuplicatesStored
    /\ PublishedUnlocked
    /\ PublishedIsStored

-----------------------------------------------------------------------------
\* The initial state satisfies the invariant.
LEMMA OutboxInit == Init => OutboxInv
BY DEF Init, OutboxInv, RowsTyped, WorkersTyped, DuplicatesStored, PublishedUnlocked, PublishedIsStored, Idle

\* An idle worker is not about to mark a row.
LEMMA IdlePc == Idle.pc = "idle"
BY DEF Idle

\* Moving one worker to a well-typed place keeps the workers typed.
LEMMA WorkerMoves ==
    ASSUME WorkersTyped, NEW w \in Workers, NEW c \in {Idle} \cup Claim,
           workers' = [workers EXCEPT ![w] = c]
    PROVE  WorkersTyped' /\ workers'[w] = c
           /\ \A v \in Workers : v # w => workers'[v] = workers[v]
BY DEF WorkersTyped

\* A worker in the middle of DispatchOnce has claimed a row.
LEMMA WorkerHasRow ==
    ASSUME WorkersTyped, NEW w \in Workers, workers[w].pc \in {"publish", "acked", "failed"}
    PROVE  /\ workers[w] \in Claim /\ workers[w].event \in Rows
           /\ \A p \in {"publish", "acked", "failed"} :
                 /\ [workers[w] EXCEPT !.pc = p] \in Claim
                 /\ [workers[w] EXCEPT !.pc = p].event = workers[w].event
                 /\ [workers[w] EXCEPT !.pc = p].pc = p
<1>1. workers[w] \in {Idle} \cup Claim
  BY DEF WorkersTyped
<1>2. workers[w] # Idle
  BY DEF Idle
<1> QED BY <1>1, <1>2 DEF Claim

\* A claim keeps the invariant.
LEMMA ClaimInv ==
    ASSUME OutboxInv, NEW w \in Workers, claim(w)
    PROVE  OutboxInv'
<1>1. PICK r \in claimable :
          /\ outbox' = [outbox EXCEPT ![r].lockedBy = w, ![r].lockedUntil = Lease]
          /\ workers' = [workers EXCEPT ![w] = [pc |-> "publish", event |-> r]]
  BY DEF claim
<1>2. r \in DOMAIN outbox /\ ~ outbox[r].published /\ r \in Rows
  BY DEF claimable, Pending, OutboxInv, RowsTyped
<1>3. [pc |-> "publish", event |-> r] \in Claim
  BY <1>2 DEF Claim
<1>4. /\ WorkersTyped' /\ workers'[w].pc = "publish"
      /\ \A v \in Workers : v # w => workers'[v] = workers[v]
  <2> DEFINE c == [pc |-> "publish", event |-> r]
  <2>1. c \in {Idle} \cup Claim /\ c.pc = "publish"
    BY <1>3
  <2>2. workers' = [workers EXCEPT ![w] = c]
    BY <1>1
  <2> HIDE DEF c
  <2> QED BY <2>1, <2>2, WorkerMoves DEF OutboxInv
<1>5. DOMAIN outbox' = DOMAIN outbox
  BY <1>1
<1>6. \A x \in DOMAIN outbox : x # r => outbox'[x] = outbox[x]
  BY <1>1
<1>7. outbox'[r] = [published |-> outbox[r].published, available |-> outbox[r].available,
                    attempts |-> outbox[r].attempts, lockedBy |-> w, lockedUntil |-> Lease]
  <2>1. IsRow(outbox[r])
    BY <1>2 DEF OutboxInv, RowsTyped
  <2>2. outbox'[r] = [outbox[r] EXCEPT !.lockedBy = w, !.lockedUntil = Lease]
    BY <1>1, <1>2
  <2> QED BY <2>1, <2>2 DEF IsRow
<1>8. RowsTyped'
  BY <1>2, <1>5, <1>6, <1>7, OutboxAssumption DEF OutboxInv, RowsTyped, IsRow
<1>9. PublishedUnlocked'
  BY <1>2, <1>5, <1>6, <1>7 DEF OutboxInv, PublishedUnlocked
<1>10. copies' = copies /\ dedup' = dedup
  BY DEF claim
<1>11. PublishedIsStored'
  BY <1>2, <1>4, <1>5, <1>6, <1>7, <1>10 DEF OutboxInv, PublishedIsStored
<1> QED BY <1>4, <1>8, <1>9, <1>10, <1>11 DEF OutboxInv, DuplicatesStored

\* store only adds to copies, and leaves at least one of its row.
LEMMA StoreCounts ==
    ASSUME OutboxInv, NEW r \in Rows, store(r)
    PROVE  /\ copies' \in [Rows -> Nat] /\ copies'[r] > 0
           /\ \A x \in Rows : copies[x] > 0 => copies'[x] > 0
           /\ DuplicatesStored'
<1>1. copies \in [Rows -> Nat] /\ dedup \in [Rows -> Nat] /\ (dedup[r] > 0 => copies[r] > 0)
  BY DEF OutboxInv, DuplicatesStored
<1> DEFINE n == IF dedup[r] > 0 THEN copies[r] ELSE Lesser(copies[r] + 1, MaxCopies)
           d == IF dedup[r] > 0 THEN dedup[r] ELSE Window
<1>2. n \in Nat /\ n > 0 /\ d \in Nat
  BY <1>1, OutboxAssumption DEF Lesser
<1>3. copies' = [copies EXCEPT ![r] = n] /\ dedup' = [dedup EXCEPT ![r] = d]
  BY DEF store
<1> HIDE DEF n, d
<1>4. copies' \in [Rows -> Nat] /\ copies'[r] = n /\ dedup' \in [Rows -> Nat]
      /\ \A x \in Rows : x # r => copies'[x] = copies[x] /\ dedup'[x] = dedup[x]
  BY <1>1, <1>2, <1>3
<1> QED BY <1>2, <1>4 DEF OutboxInv, DuplicatesStored

\* Publishing, with whatever result, keeps the invariant.
LEMMA PublishInv ==
    ASSUME OutboxInv, NEW w \in Workers, Publishes(w)
    PROVE  OutboxInv'
<1>1. workers[w].pc = "publish" /\ outbox' = outbox
  BY DEF Publishes, PublishAcked, PublishTimedOut, PublishFailed
<1> DEFINE r == workers[w].event
<1>2. r \in Rows
  BY <1>1, WorkerHasRow DEF OutboxInv
<1>3. PICK p \in {"acked", "failed"} : workers' = [workers EXCEPT ![w].pc = p]
          /\ (p = "acked" => store(r))
  BY DEF Publishes, PublishAcked, PublishTimedOut, PublishFailed
<1>4. /\ WorkersTyped' /\ workers'[w].pc = p /\ workers'[w].event = r
      /\ \A v \in Workers : v # w => workers'[v] = workers[v]
  <2> DEFINE c == [workers[w] EXCEPT !.pc = p]
  <2>1. c \in {Idle} \cup Claim /\ c.pc = p /\ c.event = r
    BY <1>1, <1>3, WorkerHasRow DEF OutboxInv
  <2>2. workers' = [workers EXCEPT ![w] = c]
    BY <1>3
  <2> HIDE DEF c
  <2> QED BY <2>1, <2>2, WorkerMoves DEF OutboxInv
<1>5. /\ copies' \in [Rows -> Nat] /\ DuplicatesStored'
      /\ \A x \in Rows : copies[x] > 0 => copies'[x] > 0
      /\ p = "acked" => copies'[r] > 0
  <2>1. CASE store(r)
    BY <1>2, <2>1, StoreCounts
  <2>2. CASE copies' = copies /\ dedup' = dedup /\ p = "failed"
    BY <2>2 DEF OutboxInv, DuplicatesStored
  <2>3. store(r) \/ (copies' = copies /\ dedup' = dedup)
    BY DEF Publishes, PublishAcked, PublishTimedOut, PublishFailed
  <2> QED BY <1>3, <2>1, <2>2, <2>3
<1>6. ASSUME NEW v \in Workers, workers[v].pc = "acked" PROVE workers[v].event \in Rows
  BY <1>6, WorkerHasRow DEF OutboxInv
<1>7. PublishedIsStored'
  BY <1>1, <1>4, <1>5, <1>6 DEF OutboxInv, RowsTyped, PublishedIsStored
<1> QED BY <1>1, <1>4, <1>5, <1>7 DEF OutboxInv, RowsTyped, PublishedUnlocked

\* What the two fenced UPDATEs have in common: the worker goes idle, and the
\* row is rewritten, unlocked, if the worker still holds it.
LEMMA ReleaseInv ==
    ASSUME OutboxInv, NEW w \in Workers, MarkPublished(w) \/ reschedule(w)
    PROVE  OutboxInv'
<1> DEFINE r == workers[w].event
<1>1. r \in Rows /\ (MarkPublished(w) => copies[r] > 0)
  BY WorkerHasRow DEF OutboxInv, PublishedIsStored, MarkPublished, reschedule
<1>2. workers' = [workers EXCEPT ![w] = Idle] /\ copies' = copies /\ dedup' = dedup
  BY DEF MarkPublished, reschedule
<1>3. /\ WorkersTyped' /\ workers'[w].pc = "idle"
      /\ \A v \in Workers : v # w => workers'[v] = workers[v]
  BY <1>2, WorkerMoves, IdlePc DEF OutboxInv
<1>4. DOMAIN outbox' = DOMAIN outbox
  BY DEF MarkPublished, reschedule
<1>5. \A x \in DOMAIN outbox : x # r => outbox'[x] = outbox[x]
  BY DEF MarkPublished, reschedule
<1>6. ASSUME r \in DOMAIN outbox
      PROVE  \/ outbox'[r] = outbox[r]
             \/ /\ IsRow(outbox'[r]) /\ outbox'[r].lockedBy = Nobody
                /\ outbox'[r].lockedUntil = -1 /\ outbox'[r].published \in BOOLEAN
                /\ outbox'[r].published => outbox[r].published \/ copies[r] > 0
  <2>1. IsRow(outbox[r]) /\ outbox[r].published \in BOOLEAN
    BY <1>6 DEF OutboxInv, RowsTyped
  <2>2. CASE ~ holds(w, r)
    BY <2>2 DEF MarkPublished, reschedule
  <2>3. CASE holds(w, r) /\ MarkPublished(w)
    <3>1. outbox'[r] = [outbox[r] EXCEPT !.published = TRUE, !.lockedBy = Nobody,
                                         !.lockedUntil = -1]
      BY <1>6, <2>3 DEF MarkPublished
    <3>2. outbox'[r] = [published |-> TRUE, available |-> outbox[r].available,
                        attempts |-> outbox[r].attempts, lockedBy |-> Nobody,
                        lockedUntil |-> -1]
      BY <2>1, <3>1 DEF IsRow
    <3> QED BY <1>1, <2>3, <3>2 DEF IsRow
  <2>4. CASE holds(w, r) /\ reschedule(w)
    <3>1. PICK a, n : outbox'[r] = [published |-> outbox[r].published, attempts |-> a,
                        available |-> n, lockedBy |-> Nobody, lockedUntil |-> -1]
      BY <1>6, <2>4 DEF reschedule
    <3> QED BY <2>1, <3>1 DEF IsRow
  <2> QED BY <2>2, <2>3, <2>4
<1>7. RowsTyped'
  BY <1>4, <1>5, <1>6 DEF OutboxInv, RowsTyped
<1>8. PublishedUnlocked'
  BY <1>4, <1>5, <1>6 DEF OutboxInv, PublishedUnlocked
<1>9. PublishedIsStored'
  BY <1>2, <1>3, <1>4, <1>5, <1>6 DEF OutboxInv, PublishedIsStored
<1> QED BY <1>2, <1>3, <1>7, <1>8, <1>9 DEF OutboxInv, DuplicatesStored

\* The passage of time keeps the invariant.
LEMMA TickInv ==
    ASSUME OutboxInv, Tick
    PROVE  OutboxInv'
<1>1. /\ DOMAIN outbox' = DOMAIN outbox
      /\ workers' = workers /\ copies' = copies
  BY DEF Tick
<1>2. ASSUME NEW r \in DOMAIN outbox
      PROVE  /\ IsRow(outbox'[r])
             /\ outbox'[r].published = outbox[r].published
             /\ outbox'[r].lockedBy = outbox[r].lockedBy
             /\ outbox'[r].lockedUntil = Greater(outbox[r].lockedUntil - 1, -1)
  <2> DEFINE a == Greater(outbox[r].available - 1, -Horizon)
             l == Greater(outbox[r].lockedUntil - 1, -1)
  <2>1. outbox'[r] = [outbox[r] EXCEPT !.available = a, !.lockedUntil = l]
    BY <1>2 DEF Tick
  <2>2. IsRow(outbox[r])
    BY <1>2 DEF OutboxInv, RowsTyped
  <2> HIDE DEF a, l
  <2>3. outbox'[r] = [published |-> outbox[r].published, available |-> a,
                      attempts |-> outbox[r].attempts, lockedBy |-> outbox[r].lockedBy,
                      lockedUntil |-> l]
    BY <2>1, <2>2 DEF IsRow
  <2> USE DEF l
  <2> QED BY <2>3 DEF IsRow
<1>3. \A r \in DOMAIN outbox : outbox'[r].lockedUntil \in Int
  BY <1>2 DEF OutboxInv, RowsTyped, Greater
<1>4. RowsTyped'
  BY <1>1, <1>2, <1>3 DEF OutboxInv, RowsTyped
<1>5. PublishedUnlocked' /\ PublishedIsStored'
  BY <1>1, <1>2 DEF OutboxInv, PublishedUnlocked, PublishedIsStored
<1>6. DuplicatesStored'
  <2>1. \A r \in Rows : dedup[r] \in Nat /\ dedup'[r] = Greater(dedup[r] - 1, 0)
    BY DEF Tick, OutboxInv, DuplicatesStored
  <2>2. \A r \in Rows : dedup'[r] \in Nat /\ (dedup'[r] > 0 => dedup[r] > 0)
    BY <2>1 DEF Greater
  <2>3. dedup' \in [Rows -> Nat]
    BY <2>2 DEF Tick
  <2> QED BY <1>1, <2>2, <2>3 DEF OutboxInv, DuplicatesStored
<1> QED BY <1>1, <1>4, <1>5, <1>6 DEF OutboxInv, WorkersTyped

\* The invariant is inductive.
LEMMA OutboxStep == OutboxInv /\ [Next]_vars => OutboxInv'
<1> SUFFICES ASSUME OutboxInv, [Next]_vars PROVE OutboxInv'
  OBVIOUS
<1>1. CASE UNCHANGED vars
  BY <1>1 DEF vars, OutboxInv, RowsTyped, WorkersTyped, DuplicatesStored, PublishedUnlocked,
     PublishedIsStored
<1>2. ASSUME NEW r \in Rows, Enqueue(r) PROVE OutboxInv'
  <2> DEFINE new == [published |-> FALSE, available |-> 0, attempts |-> 0,
                     lockedBy |-> Nobody, lockedUntil |-> -1]
  <2>1. /\ DOMAIN outbox' = DOMAIN outbox \cup {r}
        /\ r \notin DOMAIN outbox /\ outbox'[r] = new
        /\ \A x \in DOMAIN outbox : outbox'[x] = outbox[x]
        /\ workers' = workers /\ copies' = copies /\ dedup' = dedup
    BY <1>2 DEF Enqueue
  <2>2. IsRow(new) /\ new.published = FALSE /\ new.lockedBy = Nobody /\ new.lockedUntil \in Int
    BY DEF IsRow
  <2> HIDE DEF new
  <2>3. RowsTyped'
    BY <2>1, <2>2 DEF OutboxInv, RowsTyped
  <2>4. PublishedUnlocked' /\ PublishedIsStored'
    BY <2>1, <2>2 DEF OutboxInv, PublishedUnlocked, PublishedIsStored
  <2> QED BY <2>1, <2>3, <2>4 DEF OutboxInv, WorkersTyped, DuplicatesStored
<1>3. ASSUME NEW r \in Rows, DeleteRow(r) PROVE OutboxInv'
  BY <1>3 DEF DeleteRow, OutboxInv, RowsTyped, WorkersTyped, DuplicatesStored,
     PublishedUnlocked, PublishedIsStored
<1>4. ASSUME NEW w \in Workers, Abandon(w) PROVE OutboxInv'
  <2>1. /\ WorkersTyped' /\ workers'[w].pc = "idle"
        /\ \A v \in Workers : v # w => workers'[v] = workers[v]
    BY <1>4, WorkerMoves, IdlePc DEF Abandon, OutboxInv
  <2> QED BY <1>4, <2>1 DEF Abandon, OutboxInv, RowsTyped, DuplicatesStored,
             PublishedUnlocked, PublishedIsStored
<1>5. CASE \E w \in Workers : claim(w)
  BY <1>5, ClaimInv
<1>6. CASE \E w \in Workers : Publishes(w)
  BY <1>6, PublishInv
<1>7. CASE \E w \in Workers : MarkPublished(w) \/ reschedule(w)
  BY <1>7, ReleaseInv
<1>8. CASE Tick
  BY <1>8, TickInv
<1> QED BY <1>1, <1>2, <1>3, <1>4, <1>5, <1>6, <1>7, <1>8 DEF Next, Publishes

\* No event is lost: whatever crashes, delays and lost acknowledgements there
\* are, a row marked published is in the stream.
THEOREM NoEventLost == Spec => []PublishedIsStored
<1>1. OutboxInv => PublishedIsStored
  BY DEF OutboxInv
<1> QED BY <1>1, OutboxInit, OutboxStep, PTL DEF Spec

-----------------------------------------------------------------------------
\* Every step that keeps the row r: it moves r in time, or is a claim of r, or
\* an UPDATE of r by the worker that holds it, or does not touch it.
LEMMA RowSteps ==
    ASSUME OutboxInv, [Next]_vars, NEW r \in DOMAIN outbox \cap DOMAIN outbox'
    PROVE  \/ outbox'[r] = outbox[r]
           \/ /\ outbox'[r].published = outbox[r].published
              /\ outbox'[r].lockedBy = outbox[r].lockedBy
              /\ outbox'[r].attempts = outbox[r].attempts
           \/ ~ outbox[r].published /\ outbox[r].lockedUntil < 0
           \/ \E w \in Workers :
                 holds(w, r) /\ workers[w].event = r /\ workers'[w] = Idle
<1>1. CASE UNCHANGED vars
  BY <1>1 DEF vars
<1>2. ASSUME NEW x \in Rows, Enqueue(x) \/ DeleteRow(x) PROVE outbox'[r] = outbox[r]
  BY <1>2 DEF Enqueue, DeleteRow
<1>3. ASSUME NEW w \in Workers, Publishes(w) \/ Abandon(w) PROVE outbox'[r] = outbox[r]
  BY <1>3 DEF Publishes, PublishAcked, PublishTimedOut, PublishFailed, Abandon
<1>4. ASSUME NEW w \in Workers, claim(w)
      PROVE  outbox'[r] = outbox[r] \/ (~ outbox[r].published /\ outbox[r].lockedUntil < 0)
  BY <1>4 DEF claim, claimable, Pending
<1>5. ASSUME NEW w \in Workers, MarkPublished(w) \/ reschedule(w)
      PROVE  \/ outbox'[r] = outbox[r]
             \/ holds(w, r) /\ workers[w].event = r /\ workers'[w] = Idle
  <2>1. workers'[w] = Idle
    BY <1>5 DEF MarkPublished, reschedule, OutboxInv, WorkersTyped
  <2>2. (holds(w, workers[w].event) /\ workers[w].event = r) \/ outbox'[r] = outbox[r]
    BY <1>5 DEF MarkPublished, reschedule
  <2> QED BY <2>1, <2>2
<1>6. CASE Tick
  <2>1. outbox'[r] = [outbox[r] EXCEPT !.available = Greater(outbox[r].available - 1, -Horizon),
                          !.lockedUntil = Greater(outbox[r].lockedUntil - 1, -1)]
    BY <1>6 DEF Tick
  <2>2. IsRow(outbox[r])
    BY DEF OutboxInv, RowsTyped
  <2> QED BY <2>1, <2>2 DEF IsRow
<1> QED BY <1>1, <1>2, <1>3, <1>4, <1>5, <1>6 DEF Next, Publishes

\* A lease that has not run out is released by its worker or not at all: the
\* locked_by of both UPDATEs fences off every worker that has lost the row.
THEOREM LeasesAreRespected == Spec => LeaseRespected
<1> DEFINE A == \A r \in DOMAIN outbox \cap DOMAIN outbox' :
           LET w == outbox[r].lockedBy
           IN  w # Nobody /\ outbox[r].lockedUntil >= 0 /\ outbox'[r].lockedBy # w
               => workers[w].event = r /\ workers'[w] = Idle
<1>1. OutboxInv /\ [Next]_vars => A
  <2> SUFFICES ASSUME OutboxInv, [Next]_vars, NEW r \in DOMAIN outbox \cap DOMAIN outbox',
                      outbox[r].lockedUntil >= 0, outbox'[r].lockedBy # outbox[r].lockedBy
               PROVE  workers[outbox[r].lockedBy].event = r /\ workers'[outbox[r].lockedBy] = Idle
    OBVIOUS
  <2>1. outbox[r].lockedUntil \in Int
    BY DEF OutboxInv, RowsTyped
  <2>2. PICK w \in Workers : holds(w, r) /\ workers[w].event = r /\ workers'[w] = Idle
    BY <2>1, RowSteps
  <2> QED BY <2>2 DEF holds
<1>2. OutboxInv /\ [Next]_vars => [A]_vars
  BY <1>1
<1> HIDE DEF A
<1>3. [][A]_vars => LeaseRespected
  BY DEF A, LeaseRespected
<1> QED BY <1>2, <1>3, OutboxInit, OutboxStep, PTL DEF Spec

\* A published row is never claimed, locked, marked or rescheduled again.
THEOREM PublishedRowsAreFinal == Spec => PublishedIsFinal
<1> DEFINE A == \A r \in DOMAIN outbox \cap DOMAIN outbox' : outbox[r].published =>
           /\ outbox'[r].published
           /\ outbox'[r].lockedBy = outbox[r].lockedBy
           /\ outbox'[r].attempts = outbox[r].attempts
<1>1. OutboxInv /\ [Next]_vars => A
  <2> SUFFICES ASSUME OutboxInv, [Next]_vars, NEW r \in DOMAIN outbox \cap DOMAIN outbox',
                      outbox[r].published
               PROVE  /\ outbox'[r].published
                      /\ outbox'[r].lockedBy = outbox[r].lockedBy
                      /\ outbox'[r].attempts = outbox[r].attempts
    OBVIOUS
  <2>1. ~ \E w \in Workers : holds(w, r)
    BY OutboxAssumption DEF OutboxInv, PublishedUnlocked, holds
  <2> QED BY <2>1, RowSteps
<1>2. OutboxInv /\ [Next]_vars => [A]_vars
  BY <1>1
<1> HIDE DEF A
<1>3. [][A]_vars => PublishedIsFinal
  BY DEF A, PublishedIsFinal
<1> QED BY <1>2, <1>3, OutboxInit, OutboxStep, PTL DEF Spec

-----------------------------------------------------------------------------
(* The refinement of Delivery, one lemma for each way phase and the stream  *)
(* can change.                                                              *)

stored == {r \in Rows : copies[r] > 0}

held(r) == \E w \in Workers : workers[w].event = r

\* What phase is for one row.
LEMMA PhaseOf ==
    ASSUME NEW r \in Rows
    PROVE  /\ r \in DOMAIN outbox /\ outbox[r].published => phase[r] = "settled"
           /\ r \in DOMAIN outbox /\ ~ outbox[r].published => phase[r] = "pending"
           /\ r \notin DOMAIN outbox /\ held(r) => phase[r] = "withdrawn"
           /\ r \notin DOMAIN outbox /\ ~ held(r) => phase[r] = "absent"
BY DEF phase, held

LEMMA PhaseOfNext ==
    ASSUME NEW r \in Rows
    PROVE  /\ r \in DOMAIN outbox' /\ outbox'[r].published => phase'[r] = "settled"
           /\ r \in DOMAIN outbox' /\ ~ outbox'[r].published => phase'[r] = "pending"
           /\ r \notin DOMAIN outbox' /\ held(r)' => phase'[r] = "withdrawn"
           /\ r \notin DOMAIN outbox' /\ ~ held(r)' => phase'[r] = "absent"
BY DEF phase, held

\* A step that leaves the phase of the other rows alone is an assignment to one.
LEMMA PhaseMoves ==
    ASSUME NEW r \in Rows, \A x \in Rows : x # r => phase'[x] = phase[x]
    PROVE  phase' = [phase EXCEPT ![r] = phase'[r]]
<1>1. phase = [x \in Rows |-> phase[x]] /\ phase' = [x \in Rows |-> phase'[x]]
  BY DEF phase
<1> QED BY <1>1

\* The rows are there as before, published or not as before, and held or not
\* as before unless they are there: nothing happened.
LEMMA PhaseStays ==
    ASSUME DOMAIN outbox' = DOMAIN outbox,
           NEW S \in SUBSET Rows,
           \A x \in S \cap DOMAIN outbox : outbox'[x].published = outbox[x].published,
           \A x \in S \ DOMAIN outbox : held(x)' = held(x)
    PROVE  \A x \in S : phase'[x] = phase[x]
BY DEF phase, held

\* With every phase as it was and the same messages, Delivery does not move.
LEMMA Stutters ==
    ASSUME \A x \in Rows : phase'[x] = phase[x], copies' = copies
    PROVE  UNCHANGED D!vars
<1>1. phase = [x \in Rows |-> phase[x]] /\ phase' = [x \in Rows |-> phase'[x]]
  BY DEF phase
<1> QED BY <1>1 DEF D!vars

\* A worker that lets go of its row, and changes no more than its lock and its
\* delay, makes Delivery forget the event or does nothing to it.
LEMMA LetGo ==
    ASSUME OutboxInv, NEW w \in Workers, workers[w].event \in Rows,
           workers' = [workers EXCEPT ![w] = Idle],
           DOMAIN outbox' = DOMAIN outbox,
           \A x \in DOMAIN outbox : outbox'[x].published = outbox[x].published,
           copies' = copies
    PROVE  D!Next \/ UNCHANGED D!vars
<1> DEFINE r == workers[w].event
<1>1. /\ workers'[w].event = Nothing
      /\ \A v \in Workers : v # w => workers'[v] = workers[v]
  BY DEF OutboxInv, WorkersTyped, Idle
<1>2. \A x \in Rows : x # r => held(x)' = held(x)
  BY <1>1, OutboxAssumption DEF held
<1>3. \A x \in Rows : x # r => phase'[x] = phase[x]
  <2>1. Rows \ {r} \in SUBSET Rows
    OBVIOUS
  <2> HIDE DEF r
  <2> QED BY <1>2, <2>1, PhaseStays
<1>4. CASE phase'[r] = phase[r]
  BY <1>3, <1>4, Stutters
<1>5. CASE phase'[r] # phase[r]
  <2>1. r \notin DOMAIN outbox
    BY <1>5, PhaseOf, PhaseOfNext
  <2>2. phase[r] = "withdrawn" /\ phase'[r] = "absent"
    BY <1>5, <2>1, PhaseOf, PhaseOfNext DEF held
  <2>3. phase' = [phase EXCEPT ![r] = "absent"]
    BY <1>3, <2>2, PhaseMoves
  <2>4. D!Forget(r)
    BY <2>2, <2>3 DEF D!Forget
  <2> QED BY <2>4 DEF D!Next
<1> QED BY <1>4, <1>5

\* Enqueue commits an event.
LEMMA EnqueueCommits ==
    ASSUME OutboxInv, NEW r \in Rows, Enqueue(r)
    PROVE  D!Commit(r)
<1>1. /\ DOMAIN outbox' = DOMAIN outbox \cup {r} /\ r \notin DOMAIN outbox
      /\ outbox'[r].published = FALSE
      /\ \A x \in DOMAIN outbox : outbox'[x] = outbox[x]
      /\ ~ held(r) /\ copies[r] = 0 /\ workers' = workers /\ copies' = copies
  BY DEF Enqueue, held
<1>2. phase[r] = "absent" /\ phase'[r] = "pending"
  BY <1>1, PhaseOf, PhaseOfNext
<1>3. \A x \in Rows : x # r => phase'[x] = phase[x]
  BY <1>1 DEF phase
<1>4. phase' = [phase EXCEPT ![r] = "pending"]
  BY <1>2, <1>3, PhaseMoves
<1> QED BY <1>1, <1>2, <1>4 DEF D!Commit

\* CleanupDeletedAccount withdraws one.
LEMMA DeleteWithdraws ==
    ASSUME OutboxInv, NEW r \in Rows, DeleteRow(r)
    PROVE  D!Withdraw(r)
<1>1. /\ DOMAIN outbox' = DOMAIN outbox \ {r} /\ r \in DOMAIN outbox
      /\ \A x \in DOMAIN outbox' : outbox'[x] = outbox[x]
      /\ workers' = workers /\ copies' = copies
  BY DEF DeleteRow
<1>2. phase[r] \in {"pending", "settled"} /\ phase'[r] \in {"withdrawn", "absent"}
  BY <1>1, PhaseOf, PhaseOfNext
<1>3. \A x \in Rows : x # r => phase'[x] = phase[x]
  BY <1>1 DEF phase
<1>4. phase' = [phase EXCEPT ![r] = phase'[r]]
  BY <1>3, PhaseMoves
<1> QED BY <1>1, <1>2, <1>4 DEF D!Withdraw

\* A claim takes a row that is there: nothing Delivery knows of.
LEMMA ClaimStutters ==
    ASSUME OutboxInv, NEW w \in Workers, claim(w)
    PROVE  UNCHANGED D!vars
<1>1. PICK r \in DOMAIN outbox :
          /\ outbox' = [outbox EXCEPT ![r].lockedBy = w, ![r].lockedUntil = Lease]
          /\ workers' = [workers EXCEPT ![w] = [pc |-> "publish", event |-> r]]
  BY DEF claim, claimable, Pending
<1>2. /\ DOMAIN outbox' = DOMAIN outbox
      /\ \A x \in DOMAIN outbox : outbox'[x].published = outbox[x].published
  <2>1. [[outbox[r] EXCEPT !.lockedBy = w] EXCEPT !.lockedUntil = Lease].published
            = outbox[r].published
    <3>1. IsRow(outbox[r])
      BY DEF OutboxInv, RowsTyped
    <3> QED BY <3>1 DEF IsRow
  <2> QED BY <1>1, <2>1
<1>3. \A x \in Rows \ DOMAIN outbox : held(x)' = held(x)
  <2>1. /\ workers[w].event = Nothing /\ workers'[w].event = r
        /\ \A v \in Workers : v # w => workers'[v] = workers[v]
    BY <1>1 DEF claim, Idle, OutboxInv, WorkersTyped
  <2> QED BY <2>1, OutboxAssumption DEF held
<1>4. \A x \in Rows : phase'[x] = phase[x]
  BY <1>2, <1>3, PhaseStays
<1>5. copies' = copies
  BY DEF claim
<1> QED BY <1>4, <1>5, Stutters

\* A worker delivers its event, once more or not at all; it holds the event,
\* so Delivery has not forgotten it even when the row is gone.
LEMMA PublishDelivers ==
    ASSUME OutboxInv, NEW w \in Workers, Publishes(w)
    PROVE  D!Next \/ UNCHANGED D!vars
<1> DEFINE r == workers[w].event
<1>1. /\ workers[w].pc = "publish" /\ outbox' = outbox
      /\ \E p \in {"acked", "failed"} : workers' = [workers EXCEPT ![w].pc = p]
      /\ store(r) \/ copies' = copies
  BY DEF Publishes, PublishAcked, PublishTimedOut, PublishFailed
<1>2. r \in Rows
  BY <1>1, WorkerHasRow DEF OutboxInv
<1>3. \A v \in Workers : workers'[v].event = workers[v].event
  <2>1. PICK p \in {"publish", "acked", "failed"} : workers' = [workers EXCEPT ![w].pc = p]
    BY <1>1
  <2>2. [workers[w] EXCEPT !.pc = p].event = workers[w].event
    BY <1>1, WorkerHasRow DEF OutboxInv
  <2>3. workers'[w] = [workers[w] EXCEPT !.pc = p] /\ \A v \in Workers : v # w => workers'[v] = workers[v]
    BY <2>1 DEF OutboxInv, WorkersTyped
  <2> QED BY <2>2, <2>3
<1>4. \A x \in Rows : phase'[x] = phase[x]
  BY <1>1, <1>3 DEF phase
<1>5. CASE copies' = copies
  BY <1>4, <1>5, Stutters
<1>6. CASE store(r)
  <2>1. phase[r] # "absent"
    BY <1>2, PhaseOf DEF held
  <2>2. stored' = stored \cup {r}
    <3>1. /\ copies' \in [Rows -> Nat] /\ copies \in [Rows -> Nat] /\ copies'[r] > 0
          /\ \A x \in Rows : x # r => copies'[x] = copies[x]
      BY <1>2, <1>6, StoreCounts DEF OutboxInv, store
    <3> QED BY <1>2, <3>1 DEF stored
  <2>3. phase' = phase
    <3>1. phase = [x \in Rows |-> phase[x]] /\ phase' = [x \in Rows |-> phase'[x]]
      BY DEF phase
    <3> QED BY <1>4, <3>1
  <2>4. PICK e \in Rows : e = r
    BY <1>2
  <2>5. D!Deliver(e)
    BY <2>1, <2>2, <2>3, <2>4 DEF D!Deliver, stored
  <2> QED BY <2>5 DEF D!Next
<1> QED BY <1>1, <1>5, <1>6

\* Marking a row that is still the worker's settles its event; every other end
\* of a claim only lets go of it.
LEMMA ReleaseSettles ==
    ASSUME OutboxInv, NEW w \in Workers, MarkPublished(w) \/ reschedule(w) \/ Abandon(w)
    PROVE  D!Next \/ UNCHANGED D!vars
<1> DEFINE r == workers[w].event
<1>1. /\ workers' = [workers EXCEPT ![w] = Idle] /\ workers[w] # Idle
      /\ copies' = copies
  BY IdlePc DEF MarkPublished, reschedule, Abandon
<1>2. r \in Rows
  BY <1>1 DEF OutboxInv, WorkersTyped, Claim
<1>3. CASE MarkPublished(w) /\ holds(w, r)
  <2>1. /\ DOMAIN outbox' = DOMAIN outbox /\ r \in DOMAIN outbox
        /\ \A x \in DOMAIN outbox : x # r => outbox'[x] = outbox[x]
        /\ outbox'[r] = [outbox[r] EXCEPT !.published = TRUE, !.lockedBy = Nobody,
                                          !.lockedUntil = -1]
        /\ outbox[r].lockedBy = w
    BY <1>3 DEF MarkPublished, holds
  <2>2. outbox'[r].published = TRUE
    <3>1. IsRow(outbox[r])
      BY <2>1 DEF OutboxInv, RowsTyped
    <3> QED BY <2>1, <3>1 DEF IsRow
  <2>3. ~ outbox[r].published
    BY <2>1, OutboxAssumption DEF OutboxInv, PublishedUnlocked
  <2>4. copies[r] > 0
    BY <1>3 DEF MarkPublished, OutboxInv, PublishedIsStored
  <2>5. phase[r] = "pending" /\ phase'[r] = "settled"
    BY <1>2, <2>1, <2>2, <2>3, PhaseOf, PhaseOfNext
  <2>6. \A x \in Rows : x # r => phase'[x] = phase[x]
    <3>1. /\ workers'[w].event = Nothing
          /\ \A v \in Workers : v # w => workers'[v] = workers[v]
      BY <1>1 DEF OutboxInv, WorkersTyped, Idle
    <3>2. \A x \in Rows : x # r => held(x)' = held(x)
      BY <3>1, OutboxAssumption DEF held
    <3>3. Rows \ {r} \in SUBSET Rows
      OBVIOUS
    <3> HIDE DEF r
    <3> QED BY <2>1, <3>2, <3>3, PhaseStays
  <2>7. phase' = [phase EXCEPT ![r] = "settled"]
    BY <1>2, <2>5, <2>6, PhaseMoves
  <2>8. D!Settle(r)
    BY <1>1, <1>2, <2>4, <2>5, <2>7 DEF D!Settle
  <2> QED BY <1>2, <2>8 DEF D!Next
<1>4. CASE ~ (MarkPublished(w) /\ holds(w, r))
  <2>1. /\ DOMAIN outbox' = DOMAIN outbox
        /\ \A x \in DOMAIN outbox : outbox'[x].published = outbox[x].published
    BY <1>4 DEF MarkPublished, reschedule, Abandon
  <2> QED BY <1>1, <1>2, <2>1, LetGo
<1> QED BY <1>3, <1>4

\* Time passing changes no row, no claim and no message.
LEMMA TickStutters ==
    ASSUME OutboxInv, Tick
    PROVE  UNCHANGED D!vars
<1>1. DOMAIN outbox' = DOMAIN outbox /\ workers' = workers /\ copies' = copies
  BY DEF Tick
<1>2. ASSUME NEW r \in DOMAIN outbox PROVE outbox'[r].published = outbox[r].published
  <2>1. outbox'[r] = [outbox[r] EXCEPT !.available = Greater(outbox[r].available - 1, -Horizon),
                          !.lockedUntil = Greater(outbox[r].lockedUntil - 1, -1)]
    BY DEF Tick
  <2>2. IsRow(outbox[r])
    BY DEF OutboxInv, RowsTyped
  <2> QED BY <2>1, <2>2 DEF IsRow
<1>3. \A x \in Rows : held(x)' = held(x)
  BY <1>1 DEF held
<1>4. \A x \in Rows : phase'[x] = phase[x]
  BY <1>1, <1>2, <1>3, PhaseStays
<1> QED BY <1>1, <1>4, Stutters

\* The outbox implements Delivery: what outbox.go does under leases, crashes,
\* lost acknowledgements and back-off is at-least-once delivery.
THEOREM OutboxImplementsDelivery == Spec => AtLeastOnce
<1>1. Init => D!Init
  <2> SUFFICES ASSUME Init PROVE D!Init
    OBVIOUS
  <2>1. \A r \in Rows : r \notin DOMAIN outbox /\ ~ held(r)
    BY OutboxAssumption DEF Init, Idle, held
  <2>2. phase = [r \in Rows |-> "absent"]
    BY <2>1 DEF phase, held
  <2>3. {r \in Rows : copies[r] > 0} = {}
    BY DEF Init
  <2> QED BY <2>2, <2>3 DEF D!Init
<1>2. OutboxInv /\ [Next]_vars => [D!Next]_(D!vars)
  <2> SUFFICES ASSUME OutboxInv, [Next]_vars PROVE D!Next \/ UNCHANGED D!vars
    OBVIOUS
  <2>1. CASE UNCHANGED vars
    BY <2>1 DEF vars, D!vars, phase
  <2>2. ASSUME NEW r \in Rows, Enqueue(r) \/ DeleteRow(r) PROVE D!Next
    BY <2>2, EnqueueCommits, DeleteWithdraws DEF D!Next
  <2>3. CASE \E w \in Workers : claim(w)
    BY <2>3, ClaimStutters
  <2>4. CASE \E w \in Workers : Publishes(w)
    BY <2>4, PublishDelivers
  <2>5. CASE \E w \in Workers : MarkPublished(w) \/ reschedule(w) \/ Abandon(w)
    BY <2>5, ReleaseSettles
  <2>6. CASE Tick
    BY <2>6, TickStutters
  <2> QED BY <2>1, <2>2, <2>3, <2>4, <2>5, <2>6 DEF Next, Publishes
<1> QED BY <1>1, <1>2, OutboxInit, OutboxStep, PTL DEF Spec, AtLeastOnce, D!Spec

-----------------------------------------------------------------------------
(* The ranges of the columns.                                               *)

Column == [published : BOOLEAN, available : -Horizon .. MaxDelay, attempts : 0 .. MaxExponent,
           lockedBy : Workers \cup {Nobody}, lockedUntil : -1 .. Lease]

TableTyped ==
    /\ DOMAIN outbox \subseteq Rows
    /\ \A r \in DOMAIN outbox : outbox[r] \in Column

\* A row that changes keeps the table typed when it is a row of the table.
LEMMA RowMoves ==
    ASSUME TypeOK, NEW r \in DOMAIN outbox, NEW x \in Column,
           outbox' = [outbox EXCEPT ![r] = x]
    PROVE  TableTyped'
BY DEF TypeOK, Column, TableTyped

\* Locking, unlocking or marking a row leaves the other columns alone.
LEMMA LockTyped ==
    ASSUME NEW x \in Column, NEW w \in Workers \cup {Nobody}, NEW l \in -1 .. Lease
    PROVE  /\ [x EXCEPT !.lockedBy = w, !.lockedUntil = l] \in Column
           /\ [x EXCEPT !.published = TRUE, !.lockedBy = w, !.lockedUntil = l] \in Column
BY DEF Column

\* LEAST(300, POW(2, LEAST(attempts + 1, 8))) is a delay of at most 300.
LEMMA DelayBounded ==
    ASSUME NEW n \in Nat
    PROVE  retryDelay(n) \in 0 .. MaxDelay
<1>1. Lesser(n + 1, MaxExponent) \in 0 .. MaxExponent
  BY OutboxAssumption DEF Lesser
<1>2. 2 ^ Lesser(n + 1, MaxExponent) \in Nat
  BY <1>1, PowersAssumption
<1> QED BY <1>2, OutboxAssumption DEF retryDelay, Lesser

\* The table after each step is one of rows within their ranges.
LEMMA RowsStayTyped ==
    ASSUME TypeOK, Next
    PROVE  TableTyped'
<1> USE DEF TableTyped
<1>1. TableTyped
  BY DEF TypeOK, Column
<1>2. ASSUME NEW r \in Rows, Enqueue(r) PROVE TableTyped'
  <2> DEFINE new == [published |-> FALSE, available |-> 0, attempts |-> 0,
                     lockedBy |-> Nobody, lockedUntil |-> -1]
  <2>1. new \in Column
    BY OutboxAssumption DEF Column
  <2>2. outbox' = [x \in DOMAIN outbox \cup {r} |-> IF x \in DOMAIN outbox THEN outbox[x] ELSE new]
    BY <1>2 DEF Enqueue
  <2> HIDE DEF new
  <2> QED BY <1>1, <2>1, <2>2
<1>3. ASSUME NEW r \in Rows, DeleteRow(r) PROVE TableTyped'
  BY <1>1, <1>3 DEF DeleteRow
<1>4. ASSUME NEW w \in Workers, claim(w) PROVE TableTyped'
  <2>1. PICK r \in DOMAIN outbox :
            outbox' = [outbox EXCEPT ![r] = [outbox[r] EXCEPT !.lockedBy = w, !.lockedUntil = Lease]]
    BY <1>4 DEF claim, claimable, Pending
  <2>2. [outbox[r] EXCEPT !.lockedBy = w, !.lockedUntil = Lease] \in Column
    <3>1. Lease \in -1 .. Lease
      BY OutboxAssumption
    <3> QED BY <1>1, <3>1, LockTyped
  <2> QED BY <2>1, <2>2, RowMoves
<1>5. ASSUME NEW w \in Workers, Publishes(w) \/ Abandon(w) PROVE outbox' = outbox
  BY <1>5 DEF Publishes, PublishAcked, PublishTimedOut, PublishFailed, Abandon
<1>6. ASSUME NEW w \in Workers, MarkPublished(w) PROVE TableTyped'
  <2> DEFINE r == workers[w].event
             x == [outbox[r] EXCEPT !.published = TRUE, !.lockedBy = Nobody, !.lockedUntil = -1]
  <2>1. CASE holds(w, r)
    <3>1. r \in DOMAIN outbox /\ outbox' = [outbox EXCEPT ![r] = x]
      BY <1>6, <2>1 DEF MarkPublished, holds
    <3>2. x \in Column
      <4>1. -1 \in -1 .. Lease
        BY OutboxAssumption
      <4> QED BY <1>1, <3>1, <4>1, LockTyped
    <3> HIDE DEF x
    <3> QED BY <3>1, <3>2, RowMoves
  <2>2. CASE ~ holds(w, r)
    BY <1>1, <1>6, <2>2 DEF MarkPublished
  <2> QED BY <2>1, <2>2
<1>7. ASSUME NEW w \in Workers, reschedule(w) PROVE TableTyped'
  <2> DEFINE r == workers[w].event
             x == [published |-> outbox[r].published,
                   attempts |-> Lesser(outbox[r].attempts + 1, MaxExponent),
                   available |-> retryDelay(outbox[r].attempts + 1),
                   lockedBy |-> Nobody, lockedUntil |-> -1]
  <2>1. CASE holds(w, r)
    <3>1. r \in DOMAIN outbox /\ outbox' = [outbox EXCEPT ![r] = x]
      BY <1>7, <2>1 DEF reschedule, holds
    <3>2. outbox[r].published \in BOOLEAN /\ outbox[r].attempts \in 0 .. MaxExponent
      BY <1>1, <3>1 DEF Column
    <3>3. /\ Lesser(outbox[r].attempts + 1, MaxExponent) \in 0 .. MaxExponent
          /\ outbox[r].attempts + 1 \in Nat
      BY <3>2, OutboxAssumption DEF Lesser
    <3>4. retryDelay(outbox[r].attempts + 1) \in -Horizon .. MaxDelay
      <4>1. retryDelay(outbox[r].attempts + 1) \in 0 .. MaxDelay
        BY <3>3, DelayBounded
      <4> QED BY <4>1, OutboxAssumption
    <3>5. x \in Column
      BY <3>2, <3>3, <3>4, OutboxAssumption DEF Column
    <3> HIDE DEF x
    <3> QED BY <3>1, <3>5, RowMoves
  <2>2. CASE ~ holds(w, r)
    BY <1>1, <1>7, <2>2 DEF reschedule
  <2> QED BY <2>1, <2>2
<1>8. CASE Tick
  <2>1. DOMAIN outbox' = DOMAIN outbox
    BY <1>8 DEF Tick
  <2>2. ASSUME NEW r \in DOMAIN outbox PROVE outbox'[r] \in Column
    <3> DEFINE a == Greater(outbox[r].available - 1, -Horizon)
               l == Greater(outbox[r].lockedUntil - 1, -1)
    <3>1. a \in -Horizon .. MaxDelay /\ l \in -1 .. Lease
      BY <1>1, OutboxAssumption DEF Greater, Column
    <3>2. outbox'[r] = [outbox[r] EXCEPT !.available = a, !.lockedUntil = l]
      BY <1>8 DEF Tick
    <3> HIDE DEF a, l
    <3> QED BY <1>1, <3>1, <3>2 DEF Column
  <2> QED BY <1>1, <2>1, <2>2
<1> QED BY <1>1, <1>2, <1>3, <1>4, <1>5, <1>6, <1>7, <1>8 DEF Next, Publishes

\* The workers hold rows, and the counts of the stream keep their bounds.
LEMMA CountsStayTyped ==
    ASSUME TypeOK, Next
    PROVE  WorkersTyped' /\ (copies \in [Rows -> 0 .. MaxCopies])' /\ (dedup \in [Rows -> 0 .. Window])'
<1>1. WorkersTyped /\ copies \in [Rows -> 0 .. MaxCopies] /\ dedup \in [Rows -> 0 .. Window]
  BY DEF TypeOK, WorkersTyped, Claim
<1>2. CASE \E r \in Rows : Enqueue(r) \/ DeleteRow(r)
  BY <1>1, <1>2 DEF Enqueue, DeleteRow, WorkersTyped
<1>3. ASSUME NEW w \in Workers, claim(w) PROVE WorkersTyped'
  <2>1. PICK r \in DOMAIN outbox : workers' = [workers EXCEPT ![w] = [pc |-> "publish", event |-> r]]
    BY <1>3 DEF claim, claimable, Pending
  <2>2. [pc |-> "publish", event |-> r] \in {Idle} \cup Claim
    BY DEF TypeOK, Claim
  <2> QED BY <1>1, <2>1, <2>2, WorkerMoves
<1>4. ASSUME NEW w \in Workers, Publishes(w)
      PROVE  WorkersTyped' /\ copies' \in [Rows -> 0 .. MaxCopies] /\ dedup' \in [Rows -> 0 .. Window]
  <2> DEFINE r == workers[w].event
  <2>1. /\ workers[w].pc = "publish"
        /\ \E p \in {"acked", "failed"} : workers' = [workers EXCEPT ![w].pc = p]
        /\ store(r) \/ (copies' = copies /\ dedup' = dedup)
    BY <1>4 DEF Publishes, PublishAcked, PublishTimedOut, PublishFailed
  <2>2. r \in Rows
    BY <1>1, <2>1, WorkerHasRow
  <2>3. WorkersTyped'
    <3>1. PICK p \in {"publish", "acked", "failed"} : workers' = [workers EXCEPT ![w].pc = p]
      BY <2>1
    <3>2. [workers[w] EXCEPT !.pc = p] \in {Idle} \cup Claim
      BY <1>1, <2>1, WorkerHasRow
    <3>3. workers' = [workers EXCEPT ![w] = [workers[w] EXCEPT !.pc = p]]
      BY <3>1
    <3> QED BY <1>1, <3>2, <3>3, WorkerMoves
  <2>4. CASE store(r)
    <3> DEFINE n == IF dedup[r] > 0 THEN copies[r] ELSE Lesser(copies[r] + 1, MaxCopies)
               d == IF dedup[r] > 0 THEN dedup[r] ELSE Window
    <3>1. n \in 0 .. MaxCopies /\ d \in 0 .. Window
      BY <1>1, <2>2, OutboxAssumption DEF Lesser
    <3>2. copies' = [copies EXCEPT ![r] = n] /\ dedup' = [dedup EXCEPT ![r] = d]
      BY <2>4 DEF store
    <3> HIDE DEF n, d
    <3> QED BY <1>1, <2>3, <3>1, <3>2
  <2> QED BY <1>1, <2>1, <2>3, <2>4
<1>5. ASSUME NEW w \in Workers, MarkPublished(w) \/ reschedule(w) \/ Abandon(w)
      PROVE  WorkersTyped' /\ UNCHANGED <<copies, dedup>>
  <2>1. workers' = [workers EXCEPT ![w] = Idle] /\ UNCHANGED <<copies, dedup>>
    BY <1>5 DEF MarkPublished, reschedule, Abandon
  <2> QED BY <1>1, <2>1, WorkerMoves
<1>6. CASE Tick
  <2>1. ASSUME NEW r \in Rows PROVE Greater(dedup[r] - 1, 0) \in 0 .. Window
    BY <1>1, OutboxAssumption DEF Greater
  <2> QED BY <1>1, <1>6, <2>1 DEF Tick, WorkersTyped
<1>7. ASSUME NEW w \in Workers, claim(w) PROVE UNCHANGED <<copies, dedup>>
  BY <1>7 DEF claim
<1> QED BY <1>1, <1>2, <1>3, <1>4, <1>5, <1>6, <1>7 DEF Next, Publishes

\* The columns of event_outbox keep their ranges: in particular a row is never
\* put off for longer than MaxDelay, however often its publication fails.
THEOREM OutboxTypes == Spec => []TypeOK
<1>1. Init => TypeOK
  BY OutboxAssumption DEF Init, TypeOK
<1>2. TypeOK /\ [Next]_vars => TypeOK'
  <2> SUFFICES ASSUME TypeOK, [Next]_vars PROVE TypeOK'
    OBVIOUS
  <2>1. CASE UNCHANGED vars
    BY <2>1 DEF vars, TypeOK
  <2>2. CASE Next
    BY <2>2, RowsStayTyped, CountsStayTyped DEF TypeOK, TableTyped, Column, WorkersTyped, Claim
  <2> QED BY <2>1, <2>2
<1> QED BY <1>1, <1>2, PTL DEF Spec
=============================================================================
