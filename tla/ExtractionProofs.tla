-------------------------- MODULE ExtractionProofs --------------------------
(***************************************************************************)
(* Proofs about Extraction, for any users, slots, limit and windows that   *)
(* satisfy ExtractionAssumption: types, and at most one Gemini call of a   *)
(* user at a time.  The second needs more than itself: a request in its    *)
(* call is still covered by its admission row, whose age and the time left *)
(* in the request's context never add up to more than the timeout.  As the *)
(* timeout is shorter than the active window, the row blocks the next one. *)
(***************************************************************************)
EXTENDS Extraction, FiniteSetTheorems, TLAPS

Pcs == {"free", "call", "backoff", "check", "record", "finish"}
Upstreams == {"none", "failed", "parsed", "unparsed"}

Handler == [pc : Pcs, user : Users \cup {Nobody}, left : 0 .. Timeout, tries : 0 .. 1,
            upstream : Upstreams, recorded : {"none", "success", "failed"},
            fault : BOOLEAN]

Admission == [user : Users, age : 0 .. RateWindow, finished : BOOLEAN]

\* A request that is on its way, or has been on its way, has a user; a second
\* attempt is made only after a first.
Busy == \A h \in Handlers :
    /\ handlers[h].pc # "free" => handlers[h].user \in Users
    /\ handlers[h].pc = "backoff" => handlers[h].tries = 0

\* TypeOK is inductive with Busy.
TypeInv == TypeOK /\ Busy

\* A call in progress is covered by its admission row, unless the account is
\* deleted (and then nobody is admitted for it).
CallsAdmitted == \A h \in Handlers : Calling(h) =>
    \/ handlers[h].user \in tombstones
    \/ /\ h \in DOMAIN admissions
       /\ admissions[h].user = handlers[h].user
       /\ ~ admissions[h].finished
       /\ admissions[h].age + handlers[h].left <= Timeout

CallInv == TypeInv /\ CallsAdmitted /\ OneCallPerUser

-----------------------------------------------------------------------------
\* Free is a handler's record.
LEMMA FreeType == Free \in Handler
BY ExtractionAssumption DEF Free, Handler, Pcs, Upstreams

\* The type of handlers in TypeOK, by its short name.
LEMMA HandlersType == TypeOK => handlers \in [Handlers -> Handler]
BY DEF TypeOK, Handler, Pcs, Upstreams

\* The initial state has the types.
LEMMA TypeInit == Init => TypeInv
BY FreeType, ExtractionAssumption DEF Init, TypeInv, TypeOK, Busy, Free, Handler, Pcs, Upstreams

\* A step that only rewrites one handler, to a well-typed record.
LEMMA HandlerStepType ==
    ASSUME TypeInv, NEW h \in Handlers, NEW r \in Handler,
           handlers' = [handlers EXCEPT ![h] = r],
           r.pc # "free" => r.user \in Users,
           r.pc = "backoff" => r.tries = 0,
           UNCHANGED <<admissions, extractions, tombstones, admitted>>
    PROVE  TypeInv'
<1>1. handlers \in [Handlers -> Handler]
  BY HandlersType DEF TypeInv
<1>2. handlers' \in [Handlers -> Handler]
  BY <1>1
<1>3. TypeOK'
  BY <1>2 DEF TypeInv, TypeOK, Handler, Pcs, Upstreams
<1>4. Busy'
  BY <1>1 DEF TypeInv, Busy
<1> QED BY <1>3, <1>4 DEF TypeInv

\* An admission keeps the types.
LEMMA AdmitType ==
    ASSUME TypeInv, NEW h \in Handlers, NEW u \in Users, admitExtraction(h, u)
    PROVE  TypeInv'
<1>1. handlers \in [Handlers -> Handler]
  BY HandlersType DEF TypeInv
<1>2. PICK left \in 1 .. Timeout :
        handlers' = [handlers EXCEPT ![h] = [Free EXCEPT !.pc = "call", !.user = u, !.left = left]]
  BY DEF admitExtraction
<1> DEFINE r == [Free EXCEPT !.pc = "call", !.user = u, !.left = left]
<1>3. r \in Handler /\ r.pc = "call" /\ r.user = u
  <2>1. "call" \in Pcs
    BY DEF Pcs
  <2>2. left \in 0 .. Timeout
    BY ExtractionAssumption
  <2>3. Free \in Handler
    BY FreeType
  <2>4. r \in Handler
    BY <2>1, <2>2, <2>3 DEF Handler
  <2>5. r.pc = "call" /\ r.user = u
    BY <2>3 DEF Handler
  <2> QED BY <2>4, <2>5
<1>4. handlers' = [handlers EXCEPT ![h] = r]
  BY <1>2
<1> HIDE DEF r
<1>5. handlers' \in [Handlers -> Handler]
  BY <1>1, <1>3, <1>4
<1>6. Busy'
  BY <1>1, <1>3, <1>4 DEF TypeInv, Busy
<1>7. DOMAIN admissions' \subseteq Handlers
  BY DEF admitExtraction, TypeInv, TypeOK
<1>8. ASSUME NEW x \in DOMAIN admissions' PROVE admissions'[x] \in Admission
  <2>1. x \in (DOMAIN admissions \ (AdmissionsOf(u) \ counted(u))) \cup {h}
    BY <1>8 DEF admitExtraction
  <2>2. admissions'[x] = IF x = h THEN [user |-> u, age |-> 0, finished |-> FALSE]
                         ELSE admissions[x]
    BY <2>1 DEF admitExtraction
  <2>3. [user |-> u, age |-> 0, finished |-> FALSE] \in Admission
    BY ExtractionAssumption DEF Admission
  <2> QED BY <2>1, <2>2, <2>3 DEF TypeInv, TypeOK, Admission
<1>9. admitted' \in [Handlers -> [user : Users \cup {Nobody}, age : 0 .. RateWindow]]
  BY ExtractionAssumption DEF admitExtraction, TypeInv, TypeOK
<1>10. extractions' = extractions /\ tombstones' = tombstones
  BY DEF admitExtraction
<1> QED BY <1>5, <1>6, <1>7, <1>8, <1>9, <1>10
        DEF TypeInv, TypeOK, Handler, Admission, Pcs, Upstreams

\* The steps of an admitted request keep the types.
LEMMA RequestType ==
    ASSUME TypeInv, NEW h \in Handlers, ExtractSchedules(h) \/ ClientGone(h)
    PROVE  TypeInv'
<1>1. handlers \in [Handlers -> Handler] /\ handlers[h] \in Handler
  BY HandlersType DEF TypeInv
<1>2. handlers[h].pc # "free" => handlers[h].user \in Users
  BY DEF TypeInv, Busy
<1>3. handlers[h].pc = "backoff" => handlers[h].tries = 0
  BY DEF TypeInv, Busy
<1>4. status(h) \in {"success", "failed"}
  BY DEF status
<1>5. ASSUME NEW to \in Pcs, NEW up \in Upstreams, moves(h, to, up),
             handlers[h].pc # "free", to = "backoff" => handlers[h].tries = 0
      PROVE  TypeInv'
  <2> DEFINE n == IF to = "backoff" THEN handlers[h].tries ELSE 0
             r == [handlers[h] EXCEPT !.pc = to, !.upstream = up, !.tries = n]
  <2>1. handlers' = [handlers EXCEPT ![h] = r]
    BY <1>1, <1>5 DEF moves
  <2>2. n \in 0 .. 1 /\ n = 0
    BY <1>5
  <2> HIDE DEF n
  <2>3. r \in Handler
    BY <1>1, <2>2 DEF Handler
  <2>4. r.user = handlers[h].user /\ r.pc = to /\ r.tries = 0
    BY <1>1, <2>2 DEF Handler
  <2> HIDE DEF r
  <2> QED BY <1>2, <1>5, <2>1, <2>3, <2>4, HandlerStepType DEF moves
<1>6. ASSUME MissingKey(h) \/ AttemptSucceeds(h) \/ AttemptUnparsed(h) \/ AttemptRefused(h)
             \/ AttemptRetryable(h) \/ markPossibleDuplicates(h)
      PROVE  TypeInv'
  <2>1. handlers[h].upstream \in Upstreams /\ handlers[h].tries \in 0 .. 1
    BY <1>1 DEF Handler
  <2> QED BY <1>5, <1>6, <2>1 DEF MissingKey, AttemptSucceeds, AttemptUnparsed,
             AttemptRefused, AttemptRetryable, markPossibleDuplicates, Pcs, Upstreams
<1>7. CASE SecondAttempt(h)
  <2> DEFINE r == [handlers[h] EXCEPT !.pc = "call", !.tries = @ + 1]
  <2>1. handlers' = [handlers EXCEPT ![h] = r]
    BY <1>1, <1>7 DEF SecondAttempt
  <2>2. r \in Handler /\ r.user = handlers[h].user /\ r.pc = "call"
    BY <1>1, <1>3, <1>7 DEF Handler, Pcs, SecondAttempt
  <2> HIDE DEF r
  <2> QED BY <1>2, <1>7, <2>1, <2>2, HandlerStepType DEF SecondAttempt
<1>8. CASE DuplicateCheckFails(h)
  <2> DEFINE r == [handlers[h] EXCEPT !.pc = "finish", !.fault = @ \/ handlers[h].left > 0]
  <2>1. handlers' = [handlers EXCEPT ![h] = r]
    BY <1>1, <1>8 DEF DuplicateCheckFails
  <2>2. r \in Handler /\ r.user = handlers[h].user /\ r.pc = "finish"
    BY <1>1 DEF Handler, Pcs
  <2> HIDE DEF r
  <2> QED BY <1>2, <1>8, <2>1, <2>2, HandlerStepType DEF DuplicateCheckFails
<1>9. CASE RecordFails(h)
  <2> DEFINE r == [handlers[h] EXCEPT !.pc = "finish", !.fault = TRUE]
  <2>1. handlers' = [handlers EXCEPT ![h] = r]
    BY <1>1, <1>9 DEF RecordFails
  <2>2. r \in Handler /\ r.user = handlers[h].user /\ r.pc = "finish"
    BY <1>1 DEF Handler, Pcs
  <2> HIDE DEF r
  <2> QED BY <1>2, <1>9, <2>1, <2>2, HandlerStepType DEF RecordFails
<1>10. CASE ClientGone(h)
  <2> DEFINE r == [handlers[h] EXCEPT !.left = 0, !.fault = TRUE]
  <2>1. handlers' = [handlers EXCEPT ![h] = r]
    BY <1>1, <1>10 DEF ClientGone
  <2>2. 0 \in 0 .. Timeout
    BY ExtractionAssumption
  <2>3. r \in Handler
    BY <1>1, <2>2 DEF Handler
  <2>4. r.user = handlers[h].user /\ r.pc = handlers[h].pc /\ r.tries = handlers[h].tries
    BY <1>1 DEF Handler
  <2> HIDE DEF r
  <2> QED BY <1>2, <1>3, <1>10, <2>1, <2>3, <2>4, HandlerStepType DEF ClientGone
<1>11. CASE Abandon(h)
  <2>1. Free.pc = "free"
    BY DEF Free
  <2> QED BY <1>11, <2>1, FreeType, HandlerStepType DEF Abandon
<1>12. CASE recordExtraction(h)
  <2>1. PICK rec \in {"none", "success", "failed"} :
          handlers' = [handlers EXCEPT ![h] =
                          [handlers[h] EXCEPT !.pc = "finish", !.recorded = rec]]
    <3>1. CASE recordable(h)
      BY <1>1, <1>4, <1>12, <3>1 DEF recordExtraction
    <3>2. CASE ~ recordable(h)
      <4>1. handlers' = [handlers EXCEPT ![h].pc = "finish"]
        BY <1>12, <3>2 DEF recordExtraction
      <4>2. handlers[h].recorded \in {"none", "success", "failed"}
        BY <1>1 DEF Handler
      <4>3. [handlers[h] EXCEPT !.pc = "finish"]
              = [handlers[h] EXCEPT !.pc = "finish", !.recorded = handlers[h].recorded]
        BY <1>1 DEF Handler
      <4> QED BY <1>1, <4>1, <4>2, <4>3
    <3> QED BY <3>1, <3>2
  <2> DEFINE r == [handlers[h] EXCEPT !.pc = "finish", !.recorded = rec]
  <2>2. handlers' = [handlers EXCEPT ![h] = r]
    BY <2>1
  <2>3. r \in Handler /\ r.user = handlers[h].user /\ r.pc = "finish"
    BY <1>1 DEF Handler, Pcs
  <2> HIDE DEF r
  <2>4. handlers' \in [Handlers -> Handler]
    BY <1>1, <2>2, <2>3
  <2>5. Busy'
    BY <1>1, <1>2, <1>12, <2>2, <2>3 DEF TypeInv, Busy, recordExtraction
  <2>6. extractions' \subseteq Users \X {"success", "failed"}
    BY <1>2, <1>4, <1>12 DEF recordExtraction, TypeInv, TypeOK
  <2>7. UNCHANGED <<admissions, tombstones, admitted>>
    BY <1>12 DEF recordExtraction
  <2> QED BY <2>4, <2>5, <2>6, <2>7 DEF TypeInv, TypeOK, Handler, Pcs, Upstreams
<1>13. CASE finishExtraction(h)
  <2>1. handlers' \in [Handlers -> Handler]
    BY <1>1, <1>13, FreeType DEF finishExtraction
  <2>2. Busy'
    BY <1>1, <1>13 DEF finishExtraction, TypeInv, Busy, Free
  <2>3. DOMAIN admissions' \subseteq Handlers
        /\ \A x \in DOMAIN admissions' : admissions'[x] \in Admission
    BY <1>13 DEF finishExtraction, TypeInv, TypeOK, Admission
  <2>4. UNCHANGED <<extractions, tombstones, admitted>>
    BY <1>13 DEF finishExtraction
  <2> QED BY <2>1, <2>2, <2>3, <2>4 DEF TypeInv, TypeOK, Handler, Admission, Pcs, Upstreams
<1> QED BY <1>6, <1>7, <1>8, <1>9, <1>10, <1>11, <1>12, <1>13 DEF ExtractSchedules

\* A cleanup keeps the types.
LEMMA CleanupType ==
    ASSUME TypeInv, NEW u \in Users, CleanupDeletedAccount(u)
    PROVE  TypeInv'
<1>1. TypeOK'
  BY DEF CleanupDeletedAccount, TypeInv, TypeOK
<1>2. Busy'
  BY DEF CleanupDeletedAccount, TypeInv, Busy
<1> QED BY <1>1, <1>2 DEF TypeInv

\* What a tick makes of a handler: less time left, and nothing else.
LEMMA TickHandler ==
    ASSUME TypeInv, Tick, NEW h \in Handlers
    PROVE  /\ handlers'[h] \in Handler
           /\ handlers'[h] = [handlers[h] EXCEPT !.left = handlers'[h].left]
           /\ handlers'[h].left = IF handlers[h].left > 0 THEN handlers[h].left - 1 ELSE 0
           /\ handlers'[h].pc = handlers[h].pc
           /\ handlers'[h].user = handlers[h].user
           /\ handlers'[h].tries = handlers[h].tries
<1>1. handlers[h] \in Handler
  BY HandlersType DEF TypeInv
<1> DEFINE n == Greater(handlers[h].left - 1, 0)
<1>2. handlers'[h] = [handlers[h] EXCEPT !.left = n]
  BY DEF Tick
<1>3. handlers[h].left \in 0 .. Timeout
  BY <1>1 DEF Handler
<1>4. n \in 0 .. Timeout /\ n = IF handlers[h].left > 0 THEN handlers[h].left - 1 ELSE 0
  BY <1>3, ExtractionAssumption DEF Greater
<1> HIDE DEF n
<1>5. handlers'[h] \in Handler /\ handlers'[h].left = n
  BY <1>1, <1>2, <1>4 DEF Handler
<1>6. /\ handlers'[h].pc = handlers[h].pc
      /\ handlers'[h].user = handlers[h].user
      /\ handlers'[h].tries = handlers[h].tries
  BY <1>1, <1>2 DEF Handler
<1> QED BY <1>2, <1>4, <1>5, <1>6

\* What a tick makes of an admission row: an older one, and nothing else.
LEMMA TickAdmission ==
    ASSUME TypeInv, Tick, NEW h \in DOMAIN admissions
    PROVE  /\ h \in DOMAIN admissions'
           /\ admissions'[h] \in Admission
           /\ admissions'[h].user = admissions[h].user
           /\ admissions'[h].finished = admissions[h].finished
           /\ admissions'[h].age <= admissions[h].age + 1
<1>1. admissions[h] \in Admission
  BY DEF TypeInv, TypeOK, Admission
<1> DEFINE n == Lesser(admissions[h].age + 1, RateWindow)
<1>2. h \in DOMAIN admissions' /\ admissions'[h] = [admissions[h] EXCEPT !.age = n]
  BY DEF Tick
<1>3. admissions[h].age \in 0 .. RateWindow
  BY <1>1 DEF Admission
<1>4. n \in 0 .. RateWindow /\ n <= admissions[h].age + 1
  BY <1>3, ExtractionAssumption DEF Lesser
<1> HIDE DEF n
<1> QED BY <1>1, <1>2, <1>4 DEF Admission

\* A tick keeps the types.
LEMMA TickType ==
    ASSUME TypeInv, Tick
    PROVE  TypeInv'
<1>1. handlers' \in [Handlers -> Handler]
  BY TickHandler DEF Tick
<1>2. Busy'
  BY TickHandler DEF TypeInv, Busy
<1>3. DOMAIN admissions' = DOMAIN admissions
  BY DEF Tick
<1>4. \A h \in DOMAIN admissions' : admissions'[h] \in Admission
  BY <1>3, TickAdmission
<1>5. ASSUME NEW h \in Handlers
      PROVE  admitted'[h] \in [user : Users \cup {Nobody}, age : 0 .. RateWindow]
  <2> DEFINE n == Lesser(admitted[h].age + 1, RateWindow)
  <2>1. admitted'[h] = [admitted[h] EXCEPT !.age = n]
    BY DEF Tick
  <2>2. admitted[h] \in [user : Users \cup {Nobody}, age : 0 .. RateWindow]
    BY DEF TypeInv, TypeOK
  <2>3. n \in 0 .. RateWindow
    BY <2>2, ExtractionAssumption DEF Lesser
  <2> HIDE DEF n
  <2> QED BY <2>1, <2>2, <2>3
<1>6. admitted' \in [Handlers -> [user : Users \cup {Nobody}, age : 0 .. RateWindow]]
  BY <1>5 DEF Tick
<1>7. extractions' = extractions /\ tombstones' = tombstones
  BY DEF Tick
<1> QED BY <1>1, <1>2, <1>3, <1>4, <1>6, <1>7
        DEF TypeInv, TypeOK, Handler, Admission, Pcs, Upstreams

\* Every step keeps the types.
LEMMA TypeStep == TypeInv /\ [Next]_vars => TypeInv'
<1> SUFFICES ASSUME TypeInv, [Next]_vars PROVE TypeInv'
  OBVIOUS
<1>1. CASE UNCHANGED vars
  BY <1>1 DEF vars, TypeInv, TypeOK, Busy
<1>2. CASE \E h \in Handlers, u \in Users : admitExtraction(h, u)
  BY <1>2, AdmitType
<1>3. CASE \E h \in Handlers : ExtractSchedules(h) \/ ClientGone(h)
  BY <1>3, RequestType
<1>4. CASE \E u \in Users : CleanupDeletedAccount(u)
  BY <1>4, CleanupType
<1>5. CASE Tick
  BY <1>5, TickType
<1> QED BY <1>1, <1>2, <1>3, <1>4, <1>5 DEF Next

\* The columns of the extraction tables and the state of the handlers always
\* have their types: no third attempt, no time left beyond the timeout.
THEOREM ExtractionTypes == Spec => []TypeOK
<1>1. TypeInv => TypeOK
  BY DEF TypeInv
<1> QED BY <1>1, TypeInit, TypeStep, PTL DEF Spec

-----------------------------------------------------------------------------
\* An admission finds no call of the same user in progress, and disturbs none.
LEMMA AdmitCalls ==
    ASSUME CallInv, NEW h \in Handlers, NEW u \in Users, admitExtraction(h, u)
    PROVE  CallsAdmitted' /\ OneCallPerUser'
<1>1. handlers \in [Handlers -> Handler]
  BY HandlersType DEF CallInv, TypeInv
<1>2. PICK left \in 1 .. Timeout :
        handlers' = [handlers EXCEPT ![h] = [Free EXCEPT !.pc = "call", !.user = u, !.left = left]]
  BY DEF admitExtraction
<1>3. \A g \in Handlers : g # h => handlers'[g] = handlers[g]
  BY <1>1, <1>2
<1>4. handlers'[h].user = u /\ handlers'[h].left = left
  BY <1>1, <1>2, FreeType DEF Handler
<1>5. /\ h \in DOMAIN admissions'
      /\ admissions'[h] = [user |-> u, age |-> 0, finished |-> FALSE]
  BY DEF admitExtraction
<1>6. u \notin tombstones /\ active(u) = {} /\ tombstones' = tombstones
  BY DEF admitExtraction, admissible
<1>7. ASSUME NEW g \in Handlers, g # h, Calling(g), handlers[g].user \notin tombstones
      PROVE  g \in DOMAIN admissions' /\ admissions'[g] = admissions[g] /\ handlers[g].user # u
  <2>1. /\ g \in DOMAIN admissions
        /\ admissions[g].user = handlers[g].user
        /\ ~ admissions[g].finished
        /\ admissions[g].age + handlers[g].left <= Timeout
    BY <1>7 DEF CallInv, CallsAdmitted
  <2>2. admissions[g].age \in Int /\ handlers[g].left \in Nat
    BY <1>1, <2>1 DEF CallInv, TypeInv, TypeOK, Handler
  <2>3. admissions[g].age < ActiveWindow /\ admissions[g].age < RateWindow
    BY <2>1, <2>2, ExtractionAssumption
  <2>4. handlers[g].user # u
    BY <1>6, <2>1, <2>3 DEF active, counted, AdmissionsOf
  <2>5. g \notin AdmissionsOf(u)
    BY <2>1, <2>4 DEF AdmissionsOf
  <2> QED BY <1>7, <2>1, <2>4, <2>5 DEF admitExtraction
<1>8. CallsAdmitted'
  <2> SUFFICES ASSUME NEW g \in Handlers, Calling(g)'
               PROVE  \/ handlers'[g].user \in tombstones'
                      \/ /\ g \in DOMAIN admissions'
                         /\ admissions'[g].user = handlers'[g].user
                         /\ ~ admissions'[g].finished
                         /\ admissions'[g].age + handlers'[g].left <= Timeout
    BY DEF CallsAdmitted
  <2>1. CASE g = h
    BY <1>4, <1>5, <2>1, ExtractionAssumption
  <2>2. CASE g # h
    <3>1. Calling(g)
      BY <1>3, <2>2 DEF Calling
    <3> QED BY <1>3, <1>6, <1>7, <2>2, <3>1 DEF CallInv, CallsAdmitted
  <2> QED BY <2>1, <2>2
<1>9. ASSUME NEW g \in Handlers, g # h, Calling(g)
      PROVE  handlers[g].user # u
  BY <1>6, <1>7, <1>9
<1>10. OneCallPerUser'
  BY <1>3, <1>4, <1>9 DEF OneCallPerUser, CallInv, Calling
<1> QED BY <1>8, <1>10

\* A step of a request disturbs no other, and its own row only when its call
\* is over.
LEMMA RequestCalls ==
    ASSUME CallInv, NEW h \in Handlers, ExtractSchedules(h) \/ ClientGone(h)
    PROVE  CallsAdmitted' /\ OneCallPerUser'
<1>1. handlers \in [Handlers -> Handler]
  BY HandlersType DEF CallInv, TypeInv
<1>2. /\ \A g \in Handlers : g # h => handlers'[g] = handlers[g]
      /\ tombstones' = tombstones
      /\ \A g \in Handlers \ {h} :
             /\ g \in DOMAIN admissions => g \in DOMAIN admissions'
             /\ g \in DOMAIN admissions => admissions'[g] = admissions[g]
  BY <1>1 DEF ExtractSchedules, MissingKey, AttemptSucceeds, AttemptUnparsed, AttemptRefused,
       AttemptRetryable, SecondAttempt, markPossibleDuplicates, DuplicateCheckFails,
       recordExtraction, RecordFails, finishExtraction, Abandon, ClientGone, moves
<1>3. ASSUME Calling(h)'
      PROVE  /\ Calling(h) /\ admissions' = admissions
             /\ handlers'[h].user = handlers[h].user
             /\ handlers'[h].left <= handlers[h].left
             /\ handlers'[h].left \in Nat
  <2>1. handlers[h] \in Handler /\ handlers[h].left \in Nat
    BY <1>1 DEF Handler
  <2>2. CASE MissingKey(h) \/ AttemptSucceeds(h) \/ AttemptUnparsed(h) \/ AttemptRefused(h)
    BY <1>1, <1>3, <2>1, <2>2 DEF MissingKey, AttemptSucceeds, AttemptUnparsed,
       AttemptRefused, moves, Calling, Handler
  <2>3. CASE AttemptRetryable(h)
    BY <1>1, <1>3, <2>1, <2>3 DEF AttemptRetryable, moves, Calling, Handler
  <2>4. CASE SecondAttempt(h)
    BY <1>1, <1>3, <2>1, <2>4 DEF SecondAttempt, Calling, Handler
  <2>5. CASE ClientGone(h)
    BY <1>1, <1>3, <2>1, <2>5 DEF ClientGone, Calling, Handler
  <2>6. CASE markPossibleDuplicates(h) \/ DuplicateCheckFails(h) \/ RecordFails(h)
             \/ recordExtraction(h)
    BY <1>1, <1>3, <2>1, <2>6 DEF markPossibleDuplicates, DuplicateCheckFails, RecordFails,
       recordExtraction, moves, Calling, Handler
  <2>7. CASE finishExtraction(h) \/ Abandon(h)
    BY <1>1, <1>3, <2>7 DEF finishExtraction, Abandon, Free, Calling
  <2> QED BY <2>2, <2>3, <2>4, <2>5, <2>6, <2>7 DEF ExtractSchedules
<1>4. CallsAdmitted'
  <2> SUFFICES ASSUME NEW g \in Handlers, Calling(g)'
               PROVE  \/ handlers'[g].user \in tombstones'
                      \/ /\ g \in DOMAIN admissions'
                         /\ admissions'[g].user = handlers'[g].user
                         /\ ~ admissions'[g].finished
                         /\ admissions'[g].age + handlers'[g].left <= Timeout
    BY DEF CallsAdmitted
  <2>1. CASE g = h
    <3>1. h \in DOMAIN admissions => admissions[h].age \in Int
      BY DEF CallInv, TypeInv, TypeOK
    <3>2. handlers[h].left \in Int
      BY <1>1 DEF Handler
    <3> QED BY <1>2, <1>3, <2>1, <3>1, <3>2, ExtractionAssumption DEF CallInv, CallsAdmitted
  <2>2. CASE g # h
    <3>1. Calling(g)
      BY <1>2, <2>2 DEF Calling
    <3> QED BY <1>2, <2>2, <3>1 DEF CallInv, CallsAdmitted
  <2> QED BY <2>1, <2>2
<1>5. OneCallPerUser'
  BY <1>2, <1>3 DEF CallInv, OneCallPerUser, Calling
<1> QED BY <1>4, <1>5

\* The call invariant is inductive.
LEMMA CallStep == CallInv /\ [Next]_vars => CallInv'
<1> SUFFICES ASSUME CallInv, [Next]_vars PROVE CallInv'
  OBVIOUS
<1>1. TypeInv'
  BY TypeStep DEF CallInv
<1>2. CASE UNCHANGED vars
  BY <1>1, <1>2 DEF vars, CallInv, CallsAdmitted, OneCallPerUser, Calling
<1>3. CASE \E h \in Handlers, u \in Users : admitExtraction(h, u)
  BY <1>1, <1>3, AdmitCalls DEF CallInv
<1>4. CASE \E h \in Handlers : ExtractSchedules(h) \/ ClientGone(h)
  BY <1>1, <1>4, RequestCalls DEF CallInv
<1>5. ASSUME NEW u \in Users, CleanupDeletedAccount(u) PROVE CallInv'
  <2>1. CallsAdmitted'
    BY <1>5 DEF CleanupDeletedAccount, AdmissionsOf, CallInv, CallsAdmitted, Calling
  <2>2. OneCallPerUser'
    BY <1>5 DEF CleanupDeletedAccount, CallInv, OneCallPerUser, Calling
  <2> QED BY <1>1, <2>1, <2>2 DEF CallInv
<1>6. CASE Tick
  <2>1. TypeInv
    BY DEF CallInv
  <2>2. OneCallPerUser'
    BY <1>6, <2>1, TickHandler DEF CallInv, OneCallPerUser, Calling
  <2>3. ASSUME NEW h \in Handlers, Calling(h)', handlers'[h].user \notin tombstones'
        PROVE  /\ h \in DOMAIN admissions'
               /\ admissions'[h].user = handlers'[h].user
               /\ ~ admissions'[h].finished
               /\ admissions'[h].age + handlers'[h].left <= Timeout
    <3>1. /\ handlers'[h].left = IF handlers[h].left > 0 THEN handlers[h].left - 1 ELSE 0
          /\ handlers'[h].pc = handlers[h].pc
          /\ handlers'[h].user = handlers[h].user
      BY <1>6, <2>1, TickHandler
    <3>2. Calling(h) /\ handlers[h].left > 0 /\ tombstones' = tombstones
      BY <1>6, <2>3, <3>1 DEF Calling, Tick
    <3>3. /\ h \in DOMAIN admissions
          /\ admissions[h].user = handlers[h].user
          /\ ~ admissions[h].finished
          /\ admissions[h].age + handlers[h].left <= Timeout
      BY <2>3, <3>1, <3>2 DEF CallInv, CallsAdmitted
    <3>4. /\ h \in DOMAIN admissions'
          /\ admissions'[h] \in Admission
          /\ admissions'[h].user = admissions[h].user
          /\ admissions'[h].finished = admissions[h].finished
          /\ admissions'[h].age <= admissions[h].age + 1
      BY <1>6, <2>1, <3>3, TickAdmission
    <3>5. admissions[h].age \in Int /\ admissions'[h].age \in Int /\ handlers[h].left \in Int
      BY <2>1, <3>3, <3>4, HandlersType DEF TypeInv, TypeOK, Admission, Handler
    <3> QED BY <3>1, <3>2, <3>3, <3>4, <3>5, ExtractionAssumption
  <2>4. CallsAdmitted'
    BY <2>3 DEF CallsAdmitted
  <2> QED BY <1>1, <2>2, <2>4 DEF CallInv
<1> QED BY <1>2, <1>3, <1>4, <1>5, <1>6 DEF Next

\* A user never has two Gemini calls in progress, for any number of replicas
\* and requests, provided only that the timeout is shorter than the active
\* window and the active window not longer than the rate window.
THEOREM OneCallAtATime == Spec => []OneCallPerUser
<1>1. Init => CallInv
  BY TypeInit DEF Init, CallInv, CallsAdmitted, OneCallPerUser, Calling, Free
<1>2. CallInv => OneCallPerUser
  BY DEF CallInv
<1> QED BY <1>1, <1>2, CallStep, PTL DEF Spec

-----------------------------------------------------------------------------
\* Every step that writes looks the tombstone up: DeletedUserLeavesNothing is
\* inductive as it stands.
LEMMA DeletedStep ==
    TypeInv /\ DeletedUserLeavesNothing /\ [Next]_vars => DeletedUserLeavesNothing'
<1> SUFFICES ASSUME TypeInv, DeletedUserLeavesNothing, [Next]_vars
             PROVE  DeletedUserLeavesNothing'
  OBVIOUS
<1>1. CASE UNCHANGED vars
  BY <1>1 DEF vars, DeletedUserLeavesNothing
<1>2. ASSUME NEW h \in Handlers, NEW u \in Users, admitExtraction(h, u)
      PROVE  DeletedUserLeavesNothing'
  <2>1. u \notin tombstones /\ tombstones' = tombstones /\ extractions' = extractions
    BY <1>2 DEF admitExtraction, admissible
  <2>2. \A x \in DOMAIN admissions' :
            admissions'[x].user = u \/ (x \in DOMAIN admissions /\ admissions'[x] = admissions[x])
    BY <1>2 DEF admitExtraction
  <2> QED BY <2>1, <2>2 DEF DeletedUserLeavesNothing
<1>3. ASSUME NEW h \in Handlers, recordExtraction(h) PROVE DeletedUserLeavesNothing'
  BY <1>3 DEF recordExtraction, recordable, DeletedUserLeavesNothing
<1>4. ASSUME NEW h \in Handlers, finishExtraction(h) PROVE DeletedUserLeavesNothing'
  <2>1. /\ DOMAIN admissions' = DOMAIN admissions
        /\ \A x \in DOMAIN admissions : admissions'[x].user = admissions[x].user
    BY <1>4 DEF finishExtraction, TypeInv, TypeOK
  <2> QED BY <1>4, <2>1 DEF finishExtraction, DeletedUserLeavesNothing
<1>5. ASSUME NEW h \in Handlers, ExtractSchedules(h) \/ ClientGone(h),
             ~ recordExtraction(h), ~ finishExtraction(h)
      PROVE  DeletedUserLeavesNothing'
  BY <1>5 DEF ExtractSchedules, MissingKey, AttemptSucceeds, AttemptUnparsed, AttemptRefused,
     AttemptRetryable, SecondAttempt, markPossibleDuplicates, DuplicateCheckFails,
     RecordFails, Abandon, ClientGone, moves, DeletedUserLeavesNothing
<1>6. ASSUME NEW u \in Users, CleanupDeletedAccount(u) PROVE DeletedUserLeavesNothing'
  BY <1>6 DEF CleanupDeletedAccount, AdmissionsOf, DeletedUserLeavesNothing
<1>7. CASE Tick
  <2>1. DOMAIN admissions' = DOMAIN admissions
    BY <1>7 DEF Tick
  <2>2. \A x \in DOMAIN admissions : admissions'[x].user = admissions[x].user
    BY <1>7, TickAdmission
  <2> QED BY <1>7, <2>1, <2>2 DEF Tick, DeletedUserLeavesNothing
<1> QED BY <1>1, <1>2, <1>3, <1>4, <1>5, <1>6, <1>7 DEF Next

\* A deleted account keeps neither audit rows nor admissions, however long its
\* last Gemini call outlives the cleanup.
THEOREM DeletedUsersLeaveNothing == Spec => []DeletedUserLeavesNothing
<1>1. Init => DeletedUserLeavesNothing
  BY DEF Init, DeletedUserLeavesNothing
<1> QED BY <1>1, TypeInit, TypeStep, DeletedStep, PTL DEF Spec

-----------------------------------------------------------------------------
\* The admissions of u inside the sliding window.
Recent(u) == {h \in Handlers : admitted[h].user = u /\ admitted[h].age < RateWindow}

\* The table still holds, at the right age, every admission inside the window,
\* unless the account is deleted: what is purged is really too old.
HistoryKept == \A h \in Handlers : admitted[h].age < RateWindow =>
    \/ admitted[h].user \in tombstones
    \/ /\ h \in DOMAIN admissions
       /\ admissions[h].user = admitted[h].user
       /\ admissions[h].age = admitted[h].age

RateInv == TypeInv /\ HistoryKept /\ RateLimited

\* RateLimited speaks of Recent.
LEMMA RateLimitedRecent == RateLimited <=> \A u \in Users : Cardinality(Recent(u)) <= Limit
BY DEF RateLimited, Recent

\* Fewer recent admissions keep the limit.
LEMMA RateShrinks ==
    ASSUME RateLimited, \A u \in Users : Recent(u)' \subseteq Recent(u)
    PROVE  RateLimited'
<1> SUFFICES ASSUME NEW u \in Users PROVE Cardinality(Recent(u)') <= Limit
  BY DEF RateLimited, Recent
<1>1. IsFiniteSet(Recent(u)) /\ Recent(u)' \subseteq Recent(u)
  BY FS_Subset, ExtractionAssumption DEF Recent
<1>2. Cardinality(Recent(u)') <= Cardinality(Recent(u)) /\ IsFiniteSet(Recent(u)')
  BY <1>1, FS_Subset
<1>3. Cardinality(Recent(u)') \in Nat /\ Cardinality(Recent(u)) \in Nat
  BY <1>1, <1>2, FS_CardinalityType
<1>4. Cardinality(Recent(u)) <= Limit
  BY RateLimitedRecent
<1> QED BY <1>2, <1>3, <1>4, ExtractionAssumption

\* An admission keeps the history and the limit: the rows it counts are all
\* the recent admissions of the user.
LEMMA AdmitRate ==
    ASSUME RateInv, NEW h \in Handlers, NEW u \in Users, admitExtraction(h, u)
    PROVE  HistoryKept' /\ RateLimited'
<1>1. admitted \in [Handlers -> [user : Users \cup {Nobody}, age : 0 .. RateWindow]]
  BY DEF RateInv, TypeInv, TypeOK
<1>2. /\ admitted'[h] = [user |-> u, age |-> 0]
      /\ \A g \in Handlers : g # h => admitted'[g] = admitted[g]
      /\ admitted[h].age = RateWindow
  BY <1>1 DEF admitExtraction
<1>3. u \notin tombstones /\ Cardinality(counted(u)) < Limit /\ tombstones' = tombstones
  BY DEF admitExtraction, admissible
<1>4. /\ h \in DOMAIN admissions' /\ admissions'[h].user = u /\ admissions'[h].age = 0
      /\ \A g \in Handlers \ {h} : g \in DOMAIN admissions /\ admissions[g].age < RateWindow =>
             g \in DOMAIN admissions' /\ admissions'[g] = admissions[g]
  <2>1. h \in DOMAIN admissions' /\ admissions'[h] = [user |-> u, age |-> 0, finished |-> FALSE]
    BY DEF admitExtraction
  <2>2. ASSUME NEW g \in Handlers \ {h}, g \in DOMAIN admissions, admissions[g].age < RateWindow
        PROVE  g \in DOMAIN admissions' /\ admissions'[g] = admissions[g]
    BY <2>2 DEF admitExtraction, counted, AdmissionsOf
  <2> QED BY <2>1, <2>2
<1>5. HistoryKept'
  BY <1>2, <1>3, <1>4 DEF HistoryKept, RateInv
<1>6. Recent(u) \subseteq counted(u) /\ counted(u) \subseteq Handlers
  BY <1>3 DEF Recent, counted, AdmissionsOf, HistoryKept, RateInv, TypeInv, TypeOK
<1>7. ASSUME NEW v \in Users PROVE Cardinality(Recent(v)') <= Limit
  <2>1. IsFiniteSet(Recent(v)) /\ IsFiniteSet(counted(u))
    BY <1>6, FS_Subset, ExtractionAssumption DEF Recent
  <2>2. CASE v = u
    <3>1. Recent(v)' \subseteq Recent(u) \cup {h}
      BY <1>2, <2>2 DEF Recent
    <3>2. Cardinality(Recent(u)) <= Cardinality(counted(u))
      BY <1>6, <2>1, FS_Subset
    <3>3. IsFiniteSet(Recent(u) \cup {h})
          /\ Cardinality(Recent(u) \cup {h}) <= Cardinality(Recent(u)) + 1
      <4>1. h \notin Recent(u)
        BY <1>2, ExtractionAssumption DEF Recent
      <4>2. IsFiniteSet(Recent(u))
        BY <2>1, <2>2
      <4>3. Cardinality(Recent(u)) \in Nat
        BY <4>2, FS_CardinalityType
      <4>4. /\ IsFiniteSet(Recent(u) \cup {h})
            /\ Cardinality(Recent(u) \cup {h}) =
                   IF h \in Recent(u) THEN Cardinality(Recent(u)) ELSE Cardinality(Recent(u)) + 1
        BY <4>2, FS_AddElement, Zenon
      <4> QED BY <4>1, <4>3, <4>4
    <3>4. Cardinality(Recent(v)') <= Cardinality(Recent(u) \cup {h}) /\ IsFiniteSet(Recent(v)')
      BY <3>1, <3>3, FS_Subset
    <3>5. /\ Cardinality(Recent(v)') \in Nat /\ Cardinality(Recent(u) \cup {h}) \in Nat
          /\ Cardinality(Recent(u)) \in Nat /\ Cardinality(counted(u)) \in Nat
      BY <2>1, <2>2, <3>3, <3>4, FS_CardinalityType
    <3> QED BY <1>3, <3>2, <3>3, <3>4, <3>5, ExtractionAssumption
  <2>3. CASE v # u
    <3>1. Recent(v)' \subseteq Recent(v)
      BY <1>2, <2>3 DEF Recent
    <3>2. Cardinality(Recent(v)') <= Cardinality(Recent(v)) /\ IsFiniteSet(Recent(v)')
      BY <2>1, <3>1, FS_Subset
    <3>3. Cardinality(Recent(v)') \in Nat /\ Cardinality(Recent(v)) \in Nat
      BY <2>1, <3>2, FS_CardinalityType
    <3>4. Cardinality(Recent(v)) <= Limit
      BY RateLimitedRecent DEF RateInv
    <3> QED BY <3>2, <3>3, <3>4, ExtractionAssumption
  <2> QED BY <2>2, <2>3
<1>8. RateLimited'
  BY <1>7 DEF RateLimited, Recent
<1> QED BY <1>5, <1>8

\* The rate invariant is inductive.
LEMMA RateStep == RateInv /\ [Next]_vars => RateInv'
<1> SUFFICES ASSUME RateInv, [Next]_vars PROVE RateInv'
  OBVIOUS
<1>1. TypeInv'
  BY TypeStep DEF RateInv
<1>2. CASE UNCHANGED vars
  BY <1>1, <1>2 DEF vars, RateInv, HistoryKept, RateLimited
<1>3. CASE \E h \in Handlers, u \in Users : admitExtraction(h, u)
  BY <1>1, <1>3, AdmitRate DEF RateInv
<1>4. ASSUME NEW h \in Handlers, ExtractSchedules(h) \/ ClientGone(h) PROVE RateInv'
  <2>1. /\ admitted' = admitted /\ tombstones' = tombstones
        /\ DOMAIN admissions' = DOMAIN admissions
        /\ \A x \in DOMAIN admissions :
               admissions'[x].user = admissions[x].user /\ admissions'[x].age = admissions[x].age
    <3>1. CASE finishExtraction(h)
      BY <3>1 DEF finishExtraction, RateInv, TypeInv, TypeOK
    <3>2. CASE ~ finishExtraction(h)
      BY <1>4, <3>2 DEF ExtractSchedules, MissingKey, AttemptSucceeds, AttemptUnparsed,
         AttemptRefused, AttemptRetryable, SecondAttempt, markPossibleDuplicates,
         DuplicateCheckFails, recordExtraction, RecordFails, Abandon, ClientGone, moves
    <3> QED BY <3>1, <3>2
  <2> QED BY <1>1, <2>1 DEF RateInv, HistoryKept, RateLimited
<1>5. ASSUME NEW u \in Users, CleanupDeletedAccount(u) PROVE RateInv'
  <2>1. HistoryKept'
    BY <1>5 DEF CleanupDeletedAccount, AdmissionsOf, RateInv, HistoryKept
  <2>2. RateLimited'
    BY <1>5 DEF CleanupDeletedAccount, RateInv, RateLimited
  <2> QED BY <1>1, <2>1, <2>2 DEF RateInv
<1>6. CASE Tick
  <2>1. \A g \in Handlers :
            /\ admitted[g].age \in 0 .. RateWindow
            /\ admitted'[g].user = admitted[g].user
            /\ admitted'[g].age = Lesser(admitted[g].age + 1, RateWindow)
    BY <1>6 DEF Tick, RateInv, TypeInv, TypeOK
  <2>2. \A g \in DOMAIN admissions :
            /\ g \in DOMAIN admissions'
            /\ admissions'[g].user = admissions[g].user
            /\ admissions'[g].age = Lesser(admissions[g].age + 1, RateWindow)
    BY <1>6 DEF Tick, RateInv, TypeInv, TypeOK
  <2>3. \A g \in Handlers : admitted'[g].age < RateWindow => admitted[g].age < RateWindow
    BY <2>1, ExtractionAssumption DEF Lesser
  <2>4. \A u \in Users : Recent(u)' \subseteq Recent(u)
    BY <2>1, <2>3 DEF Recent
  <2>5. tombstones' = tombstones
    BY <1>6 DEF Tick
  <2>6. ASSUME NEW g \in Handlers, admitted'[g].age < RateWindow,
               admitted'[g].user \notin tombstones'
        PROVE  /\ g \in DOMAIN admissions'
               /\ admissions'[g].user = admitted'[g].user
               /\ admissions'[g].age = admitted'[g].age
    <3>1. admitted[g].age < RateWindow /\ admitted[g].user \notin tombstones
      BY <2>1, <2>3, <2>5, <2>6
    <3>2. /\ g \in DOMAIN admissions
          /\ admissions[g].user = admitted[g].user
          /\ admissions[g].age = admitted[g].age
      BY <3>1 DEF RateInv, HistoryKept
    <3> QED BY <2>1, <2>2, <3>2
  <2>7. HistoryKept'
    BY <2>6 DEF HistoryKept
  <2> QED BY <1>1, <2>4, <2>7, RateShrinks DEF RateInv
<1> QED BY <1>2, <1>3, <1>4, <1>5, <1>6 DEF Next

\* In every sliding window a user is admitted at most Limit times, counted in
\* the history of admissions and not in the table that the admissions purge.
THEOREM RateLimitHolds == Spec => []RateLimited
<1>1. Init => RateInv
  <2> SUFFICES ASSUME Init PROVE RateInv
    OBVIOUS
  <2>1. \A u \in Users : Recent(u) = {}
    BY ExtractionAssumption DEF Init, Recent
  <2>2. RateLimited
    BY <2>1, FS_EmptySet, ExtractionAssumption, RateLimitedRecent
  <2>3. HistoryKept
    BY ExtractionAssumption DEF Init, HistoryKept
  <2> QED BY <2>2, <2>3, TypeInit DEF RateInv
<1>2. RateInv => RateLimited
  BY DEF RateInv
<1> QED BY <1>1, <1>2, RateStep, PTL DEF Spec
=============================================================================
