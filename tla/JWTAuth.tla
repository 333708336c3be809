------------------------------- MODULE JWTAuth -------------------------------
(***************************************************************************)
(* The authentication middleware (internal/middleware/jwtauth.go): local   *)
(* verification against a cached key set, fetched when it is first needed  *)
(* and once more when the token's kid is not in it, then the introspection *)
(* of the account at Auth.  Verification is local: introspection tells no  *)
(* more than whether the account is active, so that a key the issuer has   *)
(* withdrawn is good here for as long as the cached set has it.            *)
(*                                                                         *)
(* The issuer rotates its keys and deactivates accounts at any moment of a *)
(* request.  A fetch is a response and, later, its storage; nothing in the *)
(* middleware orders the fetches of two requests.                          *)
(***************************************************************************)
EXTENDS FiniteSets

CONSTANTS
    Users,    \* account ids
    Keys,     \* kids of the issuer, in the course of time
    Foreign,  \* a kid the issuer never had
    Clients,  \* requests in progress
    NoSet,    \* no key set has been fetched
    NoToken   \* the slot is free

ASSUME JWTAssumption ==
    /\ Foreign \notin Keys
    /\ \A S \in SUBSET Keys : S # NoSet

VARIABLES
    published,  \* kids in the issuer's JWKS                    (external)
    retired,    \* kids it no longer publishes                  (external)
    accounts,   \* accounts that are active at Auth             (external)
    cache,      \* the key set in jwk.Cache
    known,      \* history: the kids retired when the issuer gave out that set
    clients     \* where each request is in Middleware

vars == <<published, retired, accounts, cache, known, clients>>

\* good: form, signature, iss, aud, exp, nbf, iat and sub are as they should be.
Token == [user : Users, kid : Keys \cup {Foreign}, good : BOOLEAN]

\* keys: the response of this request's fetch.  The rest is history: the kids
\* retired at that response; was there a moment of the request when its account
\* was active, and one when its credential was not valid; and could this instance
\* know, when the request came, that its key had been withdrawn?
Idle == [pc |-> "idle", token |-> NoToken, keys |-> NoSet, known |-> {},
         wasActive |-> FALSE, wasInvalid |-> FALSE, withdrawn |-> FALSE]

Init ==
    /\ \E k \in Keys : published = {k}
    /\ retired = {}
    /\ accounts = Users
    /\ cache = NoSet
    /\ known = {}
    /\ clients = [c \in Clients |-> Idle]

-----------------------------------------------------------------------------
(* Auth, the issuer.                                                        *)

Valid(t, keys, active) == t.good /\ t.kid \in keys /\ t.user \in active

\* What the requests in progress live through when the issuer changes.
lived(keys, active) ==
    [c \in Clients |->
        IF clients[c].pc = "idle" THEN clients[c]
        ELSE [clients[c] EXCEPT
                 !.wasActive = @ \/ clients[c].token.user \in active,
                 !.wasInvalid = @ \/ ~ Valid(clients[c].token, keys, active)]]

\* A kid is published ahead of its use.
PublishKey(k) ==
    /\ k \notin published \cup retired
    /\ published' = published \cup {k}
    /\ clients' = lived(published', accounts)
    /\ UNCHANGED <<retired, accounts, cache, known>>

RetireKey(k) ==
    /\ k \in published
    /\ published # {k}
    /\ published' = published \ {k}
    /\ retired' = retired \cup {k}
    /\ clients' = lived(published', accounts)
    /\ UNCHANGED <<accounts, cache, known>>

Deactivate(u) ==
    /\ u \in accounts
    /\ accounts' = accounts \ {u}
    /\ clients' = lived(published, accounts')
    /\ UNCHANGED <<published, retired, cache, known>>

\* The cache refreshes itself every quarter of an hour or more.
BackgroundRefresh ==
    /\ cache # NoSet
    /\ cache' = published /\ known' = retired
    /\ UNCHANGED <<published, retired, accounts, clients>>

-----------------------------------------------------------------------------
(* The middleware.                                                          *)

goes(c, pc) == clients' = [clients EXCEPT ![c].pc = pc, ![c].keys = NoSet, ![c].known = {}]

\* History: the issuer had withdrawn the key before it gave out the cached set
\* and every set that is about to be stored.
Withdrawn(kid) ==
    /\ kid \in retired
    /\ cache # NoSet => kid \in known
    /\ \A c \in Clients : clients[c].keys # NoSet => kid \in clients[c].known

\* A request with a bearer token arrives.
Arrive(c, t) ==
    /\ clients[c] = Idle
    /\ t.kid \in published \cup retired \cup {Foreign}
    /\ clients' = [clients EXCEPT ![c] =
           [pc |-> "get", token |-> t, keys |-> NoSet, known |-> {},
            wasActive |-> t.user \in accounts,
            wasInvalid |-> ~ Valid(t, published, accounts),
            withdrawn |-> Withdrawn(t.kid)]]
    /\ UNCHANGED <<published, retired, accounts, cache, known>>

\* jwt.Parse and uuid.Parse.  A verification that took its 2 seconds is
\* answered 503, whatever it says of the token.
parse(c, set) ==
    IF clients[c].token.good /\ clients[c].token.kid \in set
    THEN goes(c, "active")
    ELSE goes(c, "401") \/ goes(c, "503")

\* Mutant: a kid that is not in the cached set is refused.
lookup_once(c, set) == parse(c, set)

\* A kid that is not in the set is looked for in a fresh one, once.
lookup(c, set) ==
    IF clients[c].token.kid \in set THEN parse(c, set) ELSE goes(c, "refresh")

\* keyID: a token that does not parse is refused before any key is looked up.
NoKeyID(c) ==
    /\ clients[c].pc = "get"
    /\ ~ clients[c].token.good
    /\ goes(c, "401")
    /\ UNCHANGED <<published, retired, accounts, cache, known>>

\* cache.Get with a set at hand; without one it fetches.
Get(c) ==
    /\ clients[c].pc = "get"
    /\ IF cache = NoSet THEN goes(c, "load") ELSE lookup(c, cache)
    /\ UNCHANGED <<published, retired, accounts, cache, known>>

fetching(c) == clients[c].pc \in {"load", "refresh"} /\ clients[c].keys = NoSet

\* The issuer answers with the set of this moment.
FetchAnswered(c) ==
    /\ fetching(c)
    /\ clients' = [clients EXCEPT ![c].keys = published, ![c].known = retired]
    /\ UNCHANGED <<published, retired, accounts, cache, known>>

\* No answer, an error, or the 2 seconds are over.
FetchFails(c) ==
    /\ fetching(c)
    /\ goes(c, "503")
    /\ UNCHANGED <<published, retired, accounts, cache, known>>

\* Mutant: the keys that are new are added to the set at hand.
Fetched_added(c) ==
    /\ clients[c].keys # NoSet
    /\ cache' = clients[c].keys \cup (IF cache = NoSet THEN {} ELSE cache)
    /\ known' = clients[c].known
    /\ IF clients[c].pc = "load" THEN lookup(c, clients[c].keys)
                                 ELSE parse(c, clients[c].keys)
    /\ UNCHANGED <<published, retired, accounts>>

\* The set is stored and used: after the first fetch the kid may still be
\* missing, after the refresh the token is parsed in any case.
Fetched(c) ==
    /\ clients[c].keys # NoSet
    /\ cache' = clients[c].keys
    /\ known' = clients[c].known
    /\ IF clients[c].pc = "load" THEN lookup(c, clients[c].keys)
                                 ELSE parse(c, clients[c].keys)
    /\ UNCHANGED <<published, retired, accounts>>

\* Auth answers whether the account is active now.
active(c) ==
    /\ clients[c].pc = "active"
    /\ goes(c, IF clients[c].token.user \in accounts THEN "handler" ELSE "401")
    /\ UNCHANGED <<published, retired, accounts, cache, known>>

\* No answer within 2 seconds, or one that is neither 200 nor 401.
activeFails(c) ==
    /\ clients[c].pc = "active"
    /\ goes(c, "503")
    /\ UNCHANGED <<published, retired, accounts, cache, known>>

\* Mutant: the slot keeps the token of its last request.
Answered_kept(c) ==
    /\ clients[c].pc \in {"401", "503", "handler"}
    /\ clients' = [clients EXCEPT ![c].pc = "idle"]
    /\ UNCHANGED <<published, retired, accounts, cache, known>>

\* The response is sent, by the middleware or by the handler.
Answered(c) ==
    /\ clients[c].pc \in {"401", "503", "handler"}
    /\ clients' = [clients EXCEPT ![c] = Idle]
    /\ UNCHANGED <<published, retired, accounts, cache, known>>

Next ==
    \/ \E k \in Keys : PublishKey(k) \/ RetireKey(k)
    \/ \E u \in Users : Deactivate(u)
    \/ BackgroundRefresh
    \/ \E c \in Clients :
          \/ \E t \in Token : Arrive(c, t)
          \/ NoKeyID(c) \/ Get(c) \/ FetchAnswered(c) \/ FetchFails(c) \/ Fetched(c)
          \/ active(c) \/ activeFails(c) \/ Answered(c)

Spec == Init /\ [][Next]_vars

-----------------------------------------------------------------------------
(* Properties.                                                             *)

\* Type invariant: the key sets and the requests in progress.
TypeOK ==
    /\ published \subseteq Keys
    /\ retired \subseteq Keys
    /\ accounts \subseteq Users
    /\ cache \in (SUBSET Keys) \cup {NoSet}
    /\ known \subseteq Keys
    /\ clients \in [Clients -> {Idle} \cup
           [pc : {"get", "load", "refresh", "active", "handler", "401", "503"},
            token : Token, keys : (SUBSET Keys) \cup {NoSet}, known : SUBSET Keys,
            wasActive : BOOLEAN, wasInvalid : BOOLEAN, withdrawn : BOOLEAN]]

\* "a miss means this instance's cached set is merely stale, not that the token
\* is invalid": a request is answered 401 only if its credential was invalid at
\* some moment of the request, however old the cached set and whatever an older
\* fetch of another request left in it.
RejectionJustified ==
    \A c \in Clients : clients[c].pc = "401" => clients[c].wasInvalid

\* How far the local verification may be trusted.  A handler runs only for a
\* token of the issuer whose key was still published when the cached set, or a
\* set about to be stored, was given out before the request came, or later: once
\* every older set has left this instance a withdrawn key is refused for good.
\* And the account was active at some moment of the request.
AdmissionJustified ==
    \A c \in Clients : clients[c].pc = "handler" =>
        /\ clients[c].token.good /\ clients[c].token.kid \in published \cup retired
        /\ ~ clients[c].withdrawn
        /\ clients[c].wasActive
=============================================================================
