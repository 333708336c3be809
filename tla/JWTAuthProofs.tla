---------------------------- MODULE JWTAuthProofs ----------------------------
(***************************************************************************)
(* Proofs about JWTAuth, for any accounts, keys and requests: a credential *)
(* is refused only if it deserved it at some moment of the request, and a  *)
(* withdrawn key is admitted only as long as this instance holds a set     *)
(* older than the withdrawal.                                              *)
(*                                                                         *)
(* The inductive invariant adds what a request in progress has lived       *)
(* through: the present always counts among its moments, and a kid that is *)
(* missing from the answer to its own refresh was not published when the   *)
(* issuer answered.  For refusals nothing is needed of the shared cache,   *)
(* which is why an older set another request leaves there does no harm.    *)
(* For admissions it is needed that no set holds a kid retired before it   *)
(* was given out, and that a key once known to be withdrawn stays so,      *)
(* whichever set is stored next.                                           *)
(***************************************************************************)
EXTENDS JWTAuth, TLAPS

Pcs == {"get", "load", "refresh", "active", "handler", "401", "503"}
Running == [pc : Pcs, token : Token, keys : (SUBSET Keys) \cup {NoSet}, known : SUBSET Keys,
            wasActive : BOOLEAN, wasInvalid : BOOLEAN, withdrawn : BOOLEAN]

\* What the history of the request r says of the present.
Counts(r) ==
    /\ r.token.user \in accounts => r.wasActive
    /\ ~ Valid(r.token, published, accounts) => r.wasInvalid

\* The present is one of the moments of a request in progress.
PresentCounts == \A c \in Clients : clients[c].pc # "idle" => Counts(clients[c])

\* A set is at hand only between the answer to a fetch and its storage.
SetsInFlight ==
    \A c \in Clients : clients[c].keys # NoSet => clients[c].pc \in {"load", "refresh"}

\* What the refresh did not bring was not published when it was answered.
MissesTrue ==
    \A c \in Clients :
        /\ clients[c].pc = "refresh"
        /\ clients[c].keys # NoSet
        /\ clients[c].token.kid \notin clients[c].keys
        => clients[c].wasInvalid

\* The kids the issuer has ever published.
Issued == published \cup retired

\* A set holds kids of the issuer, and none that was retired when it was given out.
AsOld(set, gone) == set # NoSet => set \subseteq Issued \ gone

SetsAsOld ==
    /\ published \cap retired = {}
    /\ AsOld(cache, known)
    /\ \A c \in Clients : AsOld(clients[c].keys, clients[c].known)

\* A request may be where it is: verified for the introspection and the handler,
\* and not verified with a key known to be withdrawn.
Verified(r) ==
    /\ r.pc \in {"active", "handler"} => r.token.good /\ r.token.kid \in Issued
    /\ r.withdrawn => Withdrawn(r.token.kid) /\ r.pc \notin {"active", "handler"}

RequestsVerified == \A c \in Clients : Verified(clients[c])

JWTInv ==
    /\ TypeOK
    /\ PresentCounts
    /\ SetsInFlight
    /\ MissesTrue
    /\ SetsAsOld
    /\ RequestsVerified
    /\ RejectionJustified
    /\ AdmissionJustified

-----------------------------------------------------------------------------
\* The invariant holds before the first request.
LEMMA JWTInit == Init => JWTInv
  <1> SUFFICES ASSUME Init PROVE JWTInv
    OBVIOUS
  <1>1. \A c \in Clients : clients[c] = Idle
    BY DEF Init
  <1>2. /\ Idle.pc = "idle" /\ Idle.keys = NoSet /\ ~ Idle.withdrawn
    BY DEF Idle
  <1>3. TypeOK
    BY DEF Init, TypeOK
  <1>4. PresentCounts /\ SetsInFlight /\ MissesTrue /\ RejectionJustified /\ AdmissionJustified
    BY <1>1, <1>2 DEF PresentCounts, SetsInFlight, MissesTrue, RejectionJustified, AdmissionJustified
  <1>5. SetsAsOld /\ RequestsVerified
    BY <1>1, <1>2 DEF Init, SetsAsOld, AsOld, RequestsVerified, Verified
  <1> QED BY <1>3, <1>4, <1>5 DEF JWTInv

\* A slot that is not free holds a request in progress.
LEMMA RunningType ==
    ASSUME TypeOK, NEW c \in Clients, clients[c].pc # "idle"
    PROVE  clients[c] \in Running
  <1>1. clients[c] \in {Idle} \cup Running
    BY DEF TypeOK, Running, Pcs
  <1>2. clients[c] # Idle
    BY DEF Idle
  <1> QED BY <1>1, <1>2

\* Changing one request keeps the requests typed and the others as they are.
LEMMA ClientMoves ==
    ASSUME TypeOK, NEW c \in Clients, NEW x \in {Idle} \cup Running,
           clients' = [clients EXCEPT ![c] = x]
    PROVE  /\ clients' \in [Clients -> {Idle} \cup Running]
           /\ clients'[c] = x
           /\ \A d \in Clients : d # c => clients'[d] = clients[d]
  BY DEF TypeOK, Running, Pcs

\* What a set that is stored must be: typed, of the issuer, and no older than a
\* withdrawal this instance knows of.
Storable ==
    /\ cache' \in (SUBSET Keys) \cup {NoSet}
    /\ known' \subseteq Keys
    /\ AsOld(cache', known')
    /\ \A kid : Withdrawn(kid) /\ cache' # NoSet => kid \in known'

\* A request whose history covers the present, and whose place is justified by
\* it, may take the slot: nothing else depends on it.
LEMMA SlotInv ==
    ASSUME JWTInv, NEW c \in Clients, NEW x \in {Idle} \cup Running,
           clients' = [clients EXCEPT ![c] = x],
           UNCHANGED <<published, retired, accounts>>, Storable,
           x.pc # "idle" => Counts(x),
           x.keys # NoSet => x.pc \in {"load", "refresh"},
           x.pc = "refresh" /\ x.keys # NoSet /\ x.token.kid \notin x.keys => x.wasInvalid,
           AsOld(x.keys, x.known),
           \A kid : Withdrawn(kid) /\ x.keys # NoSet => kid \in x.known,
           Verified(x),
           x.pc = "401" => x.wasInvalid,
           x.pc = "handler" => x.wasActive
    PROVE  JWTInv'
  <1>1. /\ clients' \in [Clients -> {Idle} \cup Running] /\ clients'[c] = x
        /\ \A d \in Clients : d # c => clients'[d] = clients[d]
    BY ClientMoves DEF JWTInv
  <1>2. TypeOK'
    BY <1>1 DEF JWTInv, TypeOK, Running, Pcs, Storable
  <1>3. PresentCounts'
    BY <1>1 DEF JWTInv, PresentCounts, Counts, Valid
  <1>4. SetsInFlight' /\ MissesTrue'
    BY <1>1 DEF JWTInv, SetsInFlight, MissesTrue
  <1>5. SetsAsOld'
    BY <1>1 DEF JWTInv, SetsAsOld, AsOld, Issued, Storable
  <1>6. \A kid : Withdrawn(kid) => Withdrawn(kid)'
    BY <1>1 DEF Withdrawn, Storable
  <1>7. RequestsVerified'
    BY <1>1, <1>6 DEF JWTInv, RequestsVerified, Verified, Issued
  <1>8. RejectionJustified' /\ AdmissionJustified'
    BY <1>1 DEF JWTInv, RejectionJustified, AdmissionJustified, Verified, Issued
  <1> QED BY <1>2, <1>3, <1>4, <1>5, <1>7, <1>8 DEF JWTInv

\* A request goes on to its next place; to a refusal or to the handler only
\* with a moment that justifies it, and past the verification only verified.
LEMMA GoesInv ==
    ASSUME JWTInv, NEW c \in Clients, clients[c].pc # "idle", NEW p \in Pcs, goes(c, p),
           UNCHANGED <<published, retired, accounts>>, Storable,
           p \in {"active", "handler"} =>
               /\ clients[c].token.good /\ clients[c].token.kid \in Issued
               /\ ~ clients[c].withdrawn,
           p = "401" => clients[c].wasInvalid,
           p = "handler" => clients[c].wasActive
    PROVE  JWTInv'
  <1> DEFINE x == [clients[c] EXCEPT !.pc = p, !.keys = NoSet, !.known = {}]
  <1>1. clients[c] \in Running
    BY RunningType DEF JWTInv
  <1>2. /\ x \in Running /\ x.pc = p /\ x.keys = NoSet /\ x.token = clients[c].token
        /\ x.wasActive = clients[c].wasActive /\ x.wasInvalid = clients[c].wasInvalid
        /\ x.withdrawn = clients[c].withdrawn
    BY <1>1 DEF Running
  <1>3. clients' = [clients EXCEPT ![c] = x]
    BY DEF goes
  <1>4. Counts(clients[c]) /\ Verified(clients[c])
    BY DEF JWTInv, PresentCounts, RequestsVerified
  <1> HIDE DEF x
  <1>5. Counts(x)
    BY <1>2, <1>4 DEF Counts
  <1>6. Verified(x) /\ AsOld(x.keys, x.known)
    BY <1>2, <1>4 DEF Verified, AsOld
  <1> QED BY <1>2, <1>3, <1>5, <1>6, SlotInv

\* jwt.Parse refuses a token only if it is bad or its kid is not in the set, and
\* no set has a kid that was retired when it was given out.
LEMMA ParseInv ==
    ASSUME JWTInv, NEW c \in Clients, clients[c].pc # "idle", NEW S, parse(c, S),
           UNCHANGED <<published, retired, accounts>>, Storable,
           S \subseteq Issued,
           Withdrawn(clients[c].token.kid) => clients[c].token.kid \notin S,
           clients[c].token.kid \notin S => clients[c].wasInvalid
    PROVE  JWTInv'
  <1>1. CASE clients[c].token.good /\ clients[c].token.kid \in S
    <2>1. goes(c, "active")
      BY <1>1 DEF parse
    <2>2. ~ clients[c].withdrawn
      BY <1>1 DEF JWTInv, RequestsVerified, Verified
    <2> QED BY <1>1, <2>1, <2>2, GoesInv DEF Pcs
  <1>2. CASE ~ (clients[c].token.good /\ clients[c].token.kid \in S)
    <2>1. clients[c].wasInvalid
      BY <1>2 DEF JWTInv, PresentCounts, Counts, Valid
    <2>2. goes(c, "401") \/ goes(c, "503")
      BY <1>2 DEF parse
    <2> QED BY <2>1, <2>2, GoesInv DEF Pcs
  <1> QED BY <1>1, <1>2

\* A kid that is not in the set is not refused yet.
LEMMA LookupInv ==
    ASSUME JWTInv, NEW c \in Clients, clients[c].pc # "idle", NEW S, lookup(c, S),
           UNCHANGED <<published, retired, accounts>>, Storable,
           S \subseteq Issued,
           Withdrawn(clients[c].token.kid) => clients[c].token.kid \notin S
    PROVE  JWTInv'
  <1>1. CASE clients[c].token.kid \in S
    BY <1>1, ParseInv DEF lookup
  <1>2. CASE clients[c].token.kid \notin S
    <2>1. goes(c, "refresh")
      BY <1>2 DEF lookup
    <2> QED BY <2>1, GoesInv DEF Pcs
  <1> QED BY <1>1, <1>2

\* The set at hand in the cache, and the one a request has fetched, are of the
\* issuer and lack the keys known to be withdrawn.
LEMMA SetsLackWithdrawn ==
    ASSUME JWTInv, NEW kid, Withdrawn(kid)
    PROVE  /\ cache # NoSet => kid \notin cache
           /\ \A c \in Clients : clients[c].keys # NoSet => kid \notin clients[c].keys
  BY DEF JWTInv, SetsAsOld, AsOld, Withdrawn

\* The issuer changes: every request in progress lives through the change.
LEMMA IssuerInv ==
    ASSUME JWTInv,
           \/ \E k \in Keys : PublishKey(k) \/ RetireKey(k)
           \/ \E u \in Users : Deactivate(u)
    PROVE  JWTInv'
  <1>1. /\ clients' = lived(published', accounts')
        /\ published' \subseteq Keys /\ retired' \subseteq Keys /\ accounts' \subseteq Users
        /\ UNCHANGED <<cache, known>>
        /\ published' \cap retired' = {} /\ retired \subseteq retired' /\ Issued \subseteq Issued'
    BY DEF PublishKey, RetireKey, Deactivate, JWTInv, TypeOK, SetsAsOld, Issued
  <1>2. ASSUME NEW c \in Clients, clients[c].pc = "idle"
        PROVE  clients'[c] = clients[c]
    BY <1>1, <1>2 DEF lived
  <1>3. ASSUME NEW c \in Clients, clients[c].pc # "idle"
        PROVE  LET V == Valid(clients[c].token, published', accounts')
                   A == clients[c].token.user \in accounts'
               IN  /\ clients'[c] \in Running
                   /\ clients'[c].pc = clients[c].pc /\ clients'[c].keys = clients[c].keys
                   /\ clients'[c].known = clients[c].known
                   /\ clients'[c].token = clients[c].token
                   /\ clients'[c].withdrawn = clients[c].withdrawn
                   /\ clients'[c].wasActive = (clients[c].wasActive \/ A)
                   /\ clients'[c].wasInvalid = (clients[c].wasInvalid \/ ~ V)
    <2> DEFINE V == Valid(clients[c].token, published', accounts')
               A == clients[c].token.user \in accounts'
               x == [clients[c] EXCEPT !.wasActive = clients[c].wasActive \/ A,
                                       !.wasInvalid = clients[c].wasInvalid \/ ~ V]
    <2>1. clients[c] \in Running
      BY <1>3, RunningType DEF JWTInv
    <2>2. clients'[c] = x
      BY <1>1, <1>3 DEF lived
    <2>3. V \in BOOLEAN /\ A \in BOOLEAN
      BY DEF Valid
    <2> HIDE DEF V, A
    <2>4. /\ x \in Running
          /\ x.pc = clients[c].pc /\ x.keys = clients[c].keys /\ x.token = clients[c].token
          /\ x.known = clients[c].known /\ x.withdrawn = clients[c].withdrawn
          /\ x.wasActive = (clients[c].wasActive \/ A)
          /\ x.wasInvalid = (clients[c].wasInvalid \/ ~ V)
      BY <2>1, <2>3 DEF Running
    <2> QED BY <2>2, <2>4 DEF V, A
  <1>4. TypeOK'
    <2>1. DOMAIN clients' = Clients /\ clients' = [c \in Clients |-> clients'[c]]
      BY <1>1 DEF lived
    <2>2. \A c \in Clients : clients'[c] \in {Idle} \cup Running
      BY <1>2, <1>3 DEF JWTInv, TypeOK, Running, Pcs
    <2>3. clients' \in [Clients -> {Idle} \cup Running]
      BY <2>1, <2>2
    <2> QED BY <1>1, <2>3 DEF JWTInv, TypeOK, Running, Pcs
  <1>5. PresentCounts'
    BY <1>2, <1>3 DEF JWTInv, PresentCounts, Counts
  <1>6. \A c \in Clients :
            /\ clients'[c].pc = clients[c].pc /\ clients'[c].token = clients[c].token
            /\ clients'[c].keys = clients[c].keys /\ clients'[c].known = clients[c].known
            /\ clients'[c].withdrawn = clients[c].withdrawn
            /\ clients[c].wasActive => clients'[c].wasActive
            /\ clients[c].wasInvalid => clients'[c].wasInvalid
    BY <1>2, <1>3
  <1>7. SetsInFlight' /\ MissesTrue'
    BY <1>6 DEF JWTInv, SetsInFlight, MissesTrue
  <1>8. SetsAsOld'
    BY <1>1, <1>6 DEF JWTInv, SetsAsOld, AsOld
  <1>9. RequestsVerified'
    <2>1. \A kid : Withdrawn(kid) => Withdrawn(kid)'
      BY <1>1, <1>6 DEF Withdrawn
    <2> QED BY <1>1, <1>6, <2>1 DEF JWTInv, RequestsVerified, Verified
  <1>10. RejectionJustified' /\ AdmissionJustified'
    BY <1>1, <1>6 DEF JWTInv, RejectionJustified, AdmissionJustified, Issued
  <1> QED BY <1>4, <1>5, <1>7, <1>8, <1>9, <1>10 DEF JWTInv

\* The issuer's answer is the set of this moment: a kid that is not in it makes
\* this a moment at which the credential is not valid.
LEMMA FetchInv ==
    ASSUME JWTInv, NEW c \in Clients, FetchAnswered(c)
    PROVE  JWTInv'
  <1> DEFINE x == [clients[c] EXCEPT !.keys = published, !.known = retired]
  <1>1. clients[c].pc \in {"load", "refresh"} /\ clients' = [clients EXCEPT ![c] = x]
    BY DEF FetchAnswered, fetching
  <1>2. clients[c] \in Running
    BY <1>1, RunningType DEF JWTInv
  <1>3. /\ x \in Running /\ x.keys = published /\ x.known = retired
        /\ x.pc = clients[c].pc /\ x.token = clients[c].token
        /\ x.wasActive = clients[c].wasActive /\ x.wasInvalid = clients[c].wasInvalid
        /\ x.withdrawn = clients[c].withdrawn
    BY <1>2 DEF Running, JWTInv, TypeOK
  <1>4. Counts(clients[c]) /\ Verified(clients[c])
    BY <1>1 DEF JWTInv, PresentCounts, RequestsVerified
  <1>5. clients[c].token.kid \notin published => clients[c].wasInvalid
    BY <1>4 DEF Counts, Valid
  <1>6. UNCHANGED <<published, retired, accounts, cache, known>>
    BY DEF FetchAnswered
  <1>7. Storable
    BY <1>6 DEF Storable, JWTInv, TypeOK, SetsAsOld, AsOld, Withdrawn
  <1> HIDE DEF x
  <1>8. Counts(x) /\ Verified(x)
    BY <1>3, <1>4 DEF Counts, Verified
  <1>9. AsOld(x.keys, x.known)
    BY <1>3 DEF JWTInv, SetsAsOld, AsOld, Issued
  <1>10. \A kid : Withdrawn(kid) => kid \in x.known
    BY <1>3 DEF Withdrawn
  <1> QED BY <1>1, <1>3, <1>5, <1>6, <1>7, <1>8, <1>9, <1>10, SlotInv

\* The middleware: every other step of a request.
LEMMA MiddlewareInv ==
    ASSUME JWTInv, NEW c \in Clients,
           \/ \E t \in Token : Arrive(c, t)
           \/ NoKeyID(c) \/ Get(c) \/ FetchFails(c) \/ Fetched(c)
           \/ active(c) \/ activeFails(c) \/ Answered(c)
    PROVE  JWTInv'
  <1>1. UNCHANGED <<published, retired, accounts>> /\ Storable
    <2>1. CASE Fetched(c)
      <3>1. clients[c] \in {Idle} \cup Running
        BY DEF JWTInv, TypeOK, Running, Pcs
      <3>2. clients[c].keys \in (SUBSET Keys) \cup {NoSet} /\ clients[c].known \subseteq Keys
        BY <3>1 DEF Running, Idle
      <3>3. /\ clients[c].keys # NoSet /\ cache' = clients[c].keys /\ known' = clients[c].known
            /\ UNCHANGED <<published, retired, accounts>>
        BY <2>1 DEF Fetched
      <3>4. \A kid : Withdrawn(kid) => kid \in clients[c].known
        BY <3>3 DEF Withdrawn
      <3>5. AsOld(cache', known')
        BY <3>3 DEF JWTInv, SetsAsOld
      <3> QED BY <3>2, <3>3, <3>4, <3>5 DEF Storable
    <2>2. CASE ~ Fetched(c)
      <3>1. UNCHANGED <<published, retired, accounts, cache, known>>
        BY <2>2 DEF Arrive, NoKeyID, Get, FetchFails, active, activeFails, Answered
      <3> QED BY <3>1 DEF Storable, JWTInv, TypeOK, SetsAsOld, AsOld, Withdrawn
    <2> QED BY <2>1, <2>2
  <1>2. ASSUME NEW t \in Token, Arrive(c, t)
        PROVE  JWTInv'
    <2> DEFINE V == Valid(t, published, accounts)
               W == Withdrawn(t.kid)
               A == t.user \in accounts
               x == [pc |-> "get", token |-> t, keys |-> NoSet, known |-> {}, wasActive |-> A,
                     wasInvalid |-> ~ V, withdrawn |-> W]
    <2>1. clients' = [clients EXCEPT ![c] = x]
      BY <1>2 DEF Arrive
    <2>2. V \in BOOLEAN /\ A \in BOOLEAN /\ W \in BOOLEAN
      BY DEF Valid, Withdrawn
    <2> HIDE DEF V, A, W
    <2>3. /\ x \in Running /\ x.pc = "get" /\ x.keys = NoSet /\ x.token = t
          /\ x.wasActive = A /\ x.wasInvalid = ~ V /\ x.withdrawn = W
      BY <2>2 DEF Running, Pcs
    <2> HIDE DEF x
    <2>4. Counts(x)
      BY <2>3 DEF Counts, V, A
    <2>5. Verified(x) /\ AsOld(x.keys, x.known)
      BY <2>3 DEF Verified, AsOld, W
    <2> QED BY <1>1, <2>1, <2>3, <2>4, <2>5, SlotInv
  <1>3. CASE NoKeyID(c)
    <2>1. clients[c].pc = "get" /\ goes(c, "401") /\ ~ clients[c].token.good
      BY <1>3 DEF NoKeyID
    <2>2. clients[c].wasInvalid
      BY <2>1 DEF JWTInv, PresentCounts, Counts, Valid
    <2> QED BY <1>1, <2>1, <2>2, GoesInv DEF Pcs
  <1>4. CASE Get(c)
    <2>1. clients[c].pc = "get"
      BY <1>4 DEF Get
    <2>2. CASE cache = NoSet
      <3>1. goes(c, "load")
        BY <1>4, <2>2 DEF Get
      <3> QED BY <1>1, <2>1, <3>1, GoesInv DEF Pcs
    <2>3. CASE cache # NoSet
      <3>1. lookup(c, cache) /\ cache \subseteq Issued
        BY <1>4, <2>3 DEF Get, JWTInv, SetsAsOld, AsOld
      <3>2. Withdrawn(clients[c].token.kid) => clients[c].token.kid \notin cache
        BY <2>3, SetsLackWithdrawn
      <3> QED BY <1>1, <2>1, <3>1, <3>2, LookupInv
    <2> QED BY <2>2, <2>3
  <1>5. CASE FetchFails(c) \/ activeFails(c)
    <2>1. clients[c].pc # "idle" /\ goes(c, "503")
      BY <1>5 DEF FetchFails, fetching, activeFails
    <2> QED BY <1>1, <2>1, GoesInv DEF Pcs
  <1>6. CASE Fetched(c)
    <2>1. clients[c].keys # NoSet /\ clients[c].pc \in {"load", "refresh"}
      BY <1>6 DEF Fetched, JWTInv, SetsInFlight
    <2>4. /\ clients[c].keys \subseteq Issued
          /\ Withdrawn(clients[c].token.kid) => clients[c].token.kid \notin clients[c].keys
      BY <2>1, SetsLackWithdrawn DEF JWTInv, SetsAsOld, AsOld
    <2>2. CASE clients[c].pc = "load"
      <3>1. lookup(c, clients[c].keys)
        BY <1>6, <2>2 DEF Fetched
      <3> QED BY <1>1, <2>2, <2>4, <3>1, LookupInv
    <2>3. CASE clients[c].pc = "refresh"
      <3>1. parse(c, clients[c].keys)
        BY <1>6, <2>3 DEF Fetched
      <3>2. clients[c].token.kid \notin clients[c].keys => clients[c].wasInvalid
        BY <2>1, <2>3 DEF JWTInv, MissesTrue
      <3> QED BY <1>1, <2>3, <2>4, <3>1, <3>2, ParseInv
    <2> QED BY <2>1, <2>2, <2>3
  <1>7. CASE active(c)
    <2>1. /\ clients[c].pc = "active" /\ Counts(clients[c]) /\ Verified(clients[c])
      BY <1>7 DEF active, JWTInv, PresentCounts, RequestsVerified
    <2>2. CASE clients[c].token.user \in accounts
      <3>1. goes(c, "handler")
        BY <1>7, <2>2 DEF active
      <3>2. /\ clients[c].wasActive /\ ~ clients[c].withdrawn
            /\ clients[c].token.good /\ clients[c].token.kid \in Issued
        BY <2>1, <2>2 DEF Counts, Verified
      <3> QED BY <1>1, <2>1, <3>1, <3>2, GoesInv DEF Pcs
    <2>3. CASE clients[c].token.user \notin accounts
      <3>1. goes(c, "401")
        BY <1>7, <2>3 DEF active
      <3>2. clients[c].wasInvalid
        BY <2>1, <2>3 DEF Counts, Valid
      <3> QED BY <1>1, <2>1, <3>1, <3>2, GoesInv DEF Pcs
    <2> QED BY <2>2, <2>3
  <1>8. CASE Answered(c)
    <2>1. clients' = [clients EXCEPT ![c] = Idle]
      BY <1>8 DEF Answered
    <2>2. Idle.pc = "idle" /\ Idle.keys = NoSet /\ ~ Idle.withdrawn
      BY DEF Idle
    <2>3. Verified(Idle) /\ AsOld(Idle.keys, Idle.known)
      BY <2>2 DEF Verified, AsOld
    <2> QED BY <1>1, <2>1, <2>2, <2>3, SlotInv
  <1> QED BY <1>2, <1>3, <1>4, <1>5, <1>6, <1>7, <1>8

\* Every step keeps the invariant.
LEMMA JWTStep == JWTInv /\ [Next]_vars => JWTInv'
  <1> SUFFICES ASSUME JWTInv, [Next]_vars PROVE JWTInv'
    OBVIOUS
  <1>1. CASE BackgroundRefresh \/ UNCHANGED vars
    <2>1. UNCHANGED <<published, retired, accounts, clients>>
      BY <1>1 DEF BackgroundRefresh, vars
    <2>2. \/ cache' = published /\ known' = retired
          \/ UNCHANGED <<cache, known>>
      BY <1>1 DEF BackgroundRefresh, vars
    <2>3. TypeOK' /\ PresentCounts' /\ SetsInFlight' /\ MissesTrue'
      BY <2>1, <2>2 DEF JWTInv, TypeOK, PresentCounts, Counts, SetsInFlight, MissesTrue, Valid
    <2>4. SetsAsOld'
      BY <2>1, <2>2 DEF JWTInv, SetsAsOld, AsOld, Issued
    <2>5. \A kid : Withdrawn(kid) => Withdrawn(kid)'
      BY <2>1, <2>2 DEF Withdrawn
    <2>6. RequestsVerified' /\ RejectionJustified' /\ AdmissionJustified'
      BY <2>1, <2>5 DEF JWTInv, RequestsVerified, Verified, Issued, RejectionJustified,
                        AdmissionJustified
    <2> QED BY <2>3, <2>4, <2>5, <2>6 DEF JWTInv
  <1> QED BY <1>1, IssuerInv, FetchInv, MiddlewareInv DEF Next

\* The invariant holds in every behaviour of the issuer and the middleware.
THEOREM JWTInvariant == Spec => []JWTInv
  <1>1. Init => JWTInv
    BY JWTInit
  <1>2. JWTInv /\ [Next]_vars => JWTInv'
    BY JWTStep
  <1> QED BY <1>1, <1>2, PTL DEF Spec

-----------------------------------------------------------------------------
\* The key sets and the requests in progress stay well-formed.
THEOREM JWTTypes == Spec => []TypeOK
  <1>1. JWTInv => TypeOK
    BY DEF JWTInv
  <1> QED BY <1>1, JWTInvariant, PTL

\* Middleware of jwtauth.go answers 401 only for a credential that was invalid
\* at some moment of the request, however stale the cached set.
THEOREM RejectionsAreJustified == Spec => []RejectionJustified
  <1>1. JWTInv => RejectionJustified
    BY DEF JWTInv
  <1> QED BY <1>1, JWTInvariant, PTL

\* A withdrawn key gets no request through that comes when every key set of this
\* instance is younger than the withdrawal, in whatever order verify of jwtauth.go
\* stores the sets it fetches; and only tokens of the issuer, for accounts active
\* at some moment of the request, reach a handler at all.
THEOREM AdmissionsAreJustified == Spec => []AdmissionJustified
  <1>1. JWTInv => AdmissionJustified
    BY DEF JWTInv
  <1> QED BY <1>1, JWTInvariant, PTL
=============================================================================
