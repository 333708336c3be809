----------------------------- MODULE Extraction -----------------------------
(***************************************************************************)
(* POST /schedules/extract: admission, the Gemini call with its one retry, *)
(* the audit row and the release of the admission                          *)
(* (internal/service/extract.go, internal/ai/gemini.go,                    *)
(* internal/api/extract.go).                                               *)
(*                                                                         *)
(* Instants are kept relative to now: the age of an admission row, and     *)
(* what is left of a handler's 15-second context.  A handler is a slot for *)
(* one request after the other; its admission row bears its name.  The     *)
(* history variable admitted keeps, apart from the table, who was admitted *)
(* to a slot and how long ago; a slot is used again when its last          *)
(* admission is older than the window, and its old row counts no more.     *)
(***************************************************************************)
EXTENDS Integers, FiniteSets

CONSTANTS
    Users,         \* account ids
    Handlers,      \* requests in progress, of every replica
    Nobody,        \* the handler serves no request
    Limit,         \* admissions in a window (5)
    RateWindow,    \* the sliding window (60 seconds)
    ActiveWindow,  \* how long an unfinished admission blocks the next (20 seconds)
    Timeout        \* extractProcessingTimeout (15 seconds)

ASSUME ExtractionAssumption ==
    /\ Nobody \notin Users
    /\ IsFiniteSet(Handlers)
    /\ Limit \in Nat \ {0}
    /\ Timeout \in Nat \ {0}
    /\ ActiveWindow \in Nat
    /\ RateWindow \in Nat
    /\ Timeout < ActiveWindow
    /\ ActiveWindow <= RateWindow

VARIABLES
    admissions,   \* ai_request_admissions, by the handler that inserted the row
    extractions,  \* ai_extractions: the <<user, status>> there are rows for
    tombstones,   \* account_deletion_tombstones
    handlers,     \* where each handler is in ExtractSchedules
    admitted      \* history: the last admission of each slot

vars == <<admissions, extractions, tombstones, handlers, admitted>>

\* upstream: what became of the Gemini call.  recorded: the audit row this
\* request wrote.  fault: the database refused one of its statements,
\* or the client went away.
Free == [pc |-> "free", user |-> Nobody, left |-> 0, tries |-> 0,
         upstream |-> "none", recorded |-> "none", fault |-> FALSE]

Init ==
    /\ admissions = << >>
    /\ extractions = {}
    /\ tombstones = {}
    /\ handlers = [h \in Handlers |-> Free]
    /\ admitted = [h \in Handlers |-> [user |-> Nobody, age |-> RateWindow]]

-----------------------------------------------------------------------------
Greater(a, b) == IF a > b THEN a ELSE b
Lesser(a, b) == IF a < b THEN a ELSE b

AdmissionsOf(u) == {h \in DOMAIN admissions : admissions[h].user = u}

\* Mutant: only finished rows are purged.
counted_unfinished(u) ==
    {h \in AdmissionsOf(u) : admissions[h].age < RateWindow \/ ~ admissions[h].finished}

\* What the DELETE of admitExtraction leaves of the user's rows.
counted(u) == {h \in AdmissionsOf(u) : admissions[h].age < RateWindow}

\* Mutant: an admission stops to block before its request has timed out.
active_short(u) ==
    {h \in counted(u) : ~ admissions[h].finished /\ admissions[h].age < Timeout - 1}

active(u) ==
    {h \in counted(u) : ~ admissions[h].finished /\ admissions[h].age < ActiveWindow}

\* Mutant: the limit is off by one.
admissible_over(u) ==
    /\ u \notin tombstones
    /\ active(u) = {}
    /\ Cardinality(counted(u)) <= Limit

admissible(u) ==
    /\ u \notin tombstones
    /\ active(u) = {}
    /\ Cardinality(counted(u)) < Limit

\* One transaction, serialized by the FOR UPDATE on the row of ai_request_users
\* and counting only after it.  The context has been running since before.
admitExtraction(h, u) ==
    /\ handlers[h] = Free
    /\ admitted[h].age = RateWindow
    /\ admissible(u)
    /\ admissions' = [x \in (DOMAIN admissions \ (AdmissionsOf(u) \ counted(u))) \cup {h} |->
           IF x = h THEN [user |-> u, age |-> 0, finished |-> FALSE] ELSE admissions[x]]
    /\ \E left \in 1 .. Timeout : handlers' = [handlers EXCEPT ![h] =
           [Free EXCEPT !.pc = "call", !.user = u, !.left = left]]
    /\ admitted' = [admitted EXCEPT ![h] = [user |-> u, age |-> 0]]
    /\ UNCHANGED <<extractions, tombstones>>

-----------------------------------------------------------------------------
(* ai.Client.Extract: an attempt, and a second one after a 429 or a 5xx.    *)

\* tries is kept while another attempt may follow.
moves(h, to, upstream) ==
    /\ handlers' = [handlers EXCEPT ![h].pc = to, ![h].upstream = upstream,
                                    ![h].tries = IF to = "backoff" THEN @ ELSE 0]
    /\ UNCHANGED <<admissions, extractions, tombstones, admitted>>

\* No X-Gemini-Key and no server key: there is no call.
MissingKey(h) ==
    /\ handlers[h].pc = "call" /\ handlers[h].tries = 0
    /\ moves(h, "record", "failed")

\* 200 with a body that parses.
AttemptSucceeds(h) ==
    /\ handlers[h].pc = "call"
    /\ moves(h, "check", "parsed")

\* 200 with a body that does not parse.
AttemptUnparsed(h) ==
    /\ handlers[h].pc = "call"
    /\ moves(h, "record", "unparsed")

\* A status that is not retried, or no response at all; also the end of the
\* context, in the call or in the pause before the second one.
AttemptRefused(h) ==
    /\ handlers[h].pc \in {"call", "backoff"}
    /\ handlers[h].pc = "backoff" => handlers[h].left = 0
    /\ moves(h, "record", "failed")

\* Mutant: every 429 or 5xx is tried again.
AttemptRetryable_always(h) ==
    /\ handlers[h].pc = "call"
    /\ moves(h, "backoff", "failed")

\* 429 or 5xx.
AttemptRetryable(h) ==
    /\ handlers[h].pc = "call"
    /\ moves(h, IF handlers[h].tries = 0 THEN "backoff" ELSE "record", "failed")

SecondAttempt(h) ==
    /\ handlers[h].pc = "backoff"
    /\ handlers' = [handlers EXCEPT ![h].pc = "call", ![h].tries = @ + 1]
    /\ UNCHANGED <<admissions, extractions, tombstones, admitted>>

-----------------------------------------------------------------------------
(* The rest of ExtractSchedules.                                            *)

\* Its query runs in the request's context, which may be over by now.
markPossibleDuplicates(h) ==
    /\ handlers[h].pc = "check"
    /\ handlers[h].left > 0
    /\ moves(h, "record", handlers[h].upstream)

\* The query fails, or the context is over: ExtractSchedules returns at once.
DuplicateCheckFails(h) ==
    /\ handlers[h].pc = "check"
    /\ handlers' = [handlers EXCEPT ![h].pc = "finish", ![h].fault = @ \/ handlers[h].left > 0]
    /\ UNCHANGED <<admissions, extractions, tombstones, admitted>>

status(h) == IF handlers[h].upstream = "parsed" THEN "success" ELSE "failed"

\* Mutant: the account is not looked up again after the call.
recordable_unchecked(h) == handlers[h].left > 0

\* The audit transaction runs in the request's context, and looks the account
\* up before it inserts.
recordable(h) == handlers[h].left > 0 /\ handlers[h].user \notin tombstones

recordExtraction(h) ==
    /\ handlers[h].pc = "record"
    /\ IF recordable(h)
       THEN /\ extractions' = extractions \cup {<<handlers[h].user, status(h)>>}
            /\ handlers' = [handlers EXCEPT ![h].pc = "finish", ![h].recorded = status(h)]
       ELSE /\ handlers' = [handlers EXCEPT ![h].pc = "finish"]
            /\ UNCHANGED extractions
    /\ UNCHANGED <<admissions, tombstones, admitted>>

\* The insert itself fails: logged, and the request goes on.
RecordFails(h) ==
    /\ handlers[h].pc = "record"
    /\ handlers' = [handlers EXCEPT ![h].pc = "finish", ![h].fault = TRUE]
    /\ UNCHANGED <<admissions, extractions, tombstones, admitted>>

\* Deferred; it has a context of its own.  The row may be gone by then.
finishExtraction(h) ==
    /\ handlers[h].pc = "finish"
    /\ admissions' = IF h \in DOMAIN admissions
                     THEN [admissions EXCEPT ![h].finished = TRUE] ELSE admissions
    /\ handlers' = [handlers EXCEPT ![h] = Free]
    /\ UNCHANGED <<extractions, tombstones, admitted>>

\* The client goes away: the request's context is cancelled.
ClientGone(h) ==
    /\ handlers[h].left > 0
    /\ handlers' = [handlers EXCEPT ![h].left = 0, ![h].fault = TRUE]
    /\ UNCHANGED <<admissions, extractions, tombstones, admitted>>

\* The process dies, or the UPDATE of finishExtraction fails.
Abandon(h) ==
    /\ handlers[h].pc # "free"
    /\ handlers' = [handlers EXCEPT ![h] = Free]
    /\ UNCHANGED <<admissions, extractions, tombstones, admitted>>

CleanupDeletedAccount(u) ==
    /\ tombstones' = tombstones \cup {u}
    /\ admissions' = [h \in DOMAIN admissions \ AdmissionsOf(u) |-> admissions[h]]
    /\ extractions' = {e \in extractions : e[1] # u}
    /\ UNCHANGED <<handlers, admitted>>

\* The HTTP client cuts a call off at the end of its context: time does not
\* pass over it.  It may pass anywhere else.
Tick ==
    /\ \A h \in Handlers : handlers[h].pc \in {"call", "backoff"} => handlers[h].left > 0
    /\ admissions' = [h \in DOMAIN admissions |->
           [admissions[h] EXCEPT !.age = Lesser(@ + 1, RateWindow)]]
    /\ admitted' = [h \in Handlers |->
           [admitted[h] EXCEPT !.age = Lesser(@ + 1, RateWindow)]]
    /\ handlers' = [h \in Handlers |-> [handlers[h] EXCEPT !.left = Greater(@ - 1, 0)]]
    /\ UNCHANGED <<extractions, tombstones>>

\* The steps of an admitted request.
ExtractSchedules(h) ==
    \/ MissingKey(h) \/ AttemptSucceeds(h) \/ AttemptUnparsed(h)
    \/ AttemptRefused(h) \/ AttemptRetryable(h) \/ SecondAttempt(h)
    \/ markPossibleDuplicates(h) \/ DuplicateCheckFails(h)
    \/ recordExtraction(h) \/ RecordFails(h)
    \/ finishExtraction(h) \/ Abandon(h)

Next ==
    \/ \E h \in Handlers :
          \/ \E u \in Users : admitExtraction(h, u)
          \/ ExtractSchedules(h)
          \/ ClientGone(h)
    \/ \E u \in Users : CleanupDeletedAccount(u)
    \/ Tick

Spec == Init /\ [][Next]_vars

\* Time passes, and every call, query and pause of a request comes to an end.
FairSpec ==
    /\ Spec
    /\ WF_vars(Tick)
    /\ \A h \in Handlers : WF_vars(ExtractSchedules(h))

-----------------------------------------------------------------------------
(* Properties.                                                             *)

\* Type invariant: the columns of the tables and the state of the handlers.
TypeOK ==
    /\ DOMAIN admissions \subseteq Handlers
    /\ \A h \in DOMAIN admissions : admissions[h] \in
           [user : Users, age : 0 .. RateWindow, finished : BOOLEAN]
    /\ extractions \subseteq Users \X {"success", "failed"}
    /\ tombstones \subseteq Users
    /\ handlers \in [Handlers ->
           [pc : {"free", "call", "backoff", "check", "record", "finish"},
            user : Users \cup {Nobody}, left : 0 .. Timeout, tries : 0 .. 1,
            upstream : {"none", "failed", "parsed", "unparsed"},
            recorded : {"none", "success", "failed"}, fault : BOOLEAN]]
    /\ admitted \in [Handlers -> [user : Users \cup {Nobody}, age : 0 .. RateWindow]]

Calling(h) == handlers[h].pc \in {"call", "backoff"}

\* A user never has two Gemini calls in progress, on any two replicas, although
\* an admission blocks the next one for 20 seconds only.
OneCallPerUser ==
    \A h, g \in Handlers :
        Calling(h) /\ Calling(g) /\ handlers[h].user = handlers[g].user => h = g

\* Over every sliding window of 60 seconds a user is admitted at most 5 times,
\* counted in what happened and not in the table that is purged on the way.
RateLimited ==
    \A u \in Users :
        Cardinality({h \in Handlers : admitted[h].user = u
                                      /\ admitted[h].age < RateWindow}) <= Limit

\* A call that outlives its account leaves no audit row behind, and no
\* admission: CleanupDeletedAccount removed what there was.
DeletedUserLeavesNothing ==
    /\ \A e \in extractions : e[1] \notin tombstones
    /\ \A h \in DOMAIN admissions : admissions[h].user \notin tombstones

\* The rows "recover from a crashed worker": time and again the user can be
\* admitted, whatever was left unfinished.
AdmissionRecovers == \A u \in Users : []<>(u \in tombstones \/ admissible(u))

\* README, Audit trail: "every call - success, or failure for any reason -
\* writes exactly one ai_extractions row", unless the insert itself fails (or,
\* allowed here too, the client goes away or the account is deleted meanwhile).
EveryCallAudited ==
    \A h \in Handlers :
        handlers[h].pc = "finish" /\ ~ handlers[h].fault
            /\ handlers[h].user \notin tombstones
        => handlers[h].recorded # "none"
=============================================================================
