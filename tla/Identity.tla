------------------------------- MODULE Identity -------------------------------
(* How the auth service learns who a caller is (specton-auth/src/main.rs):    *)
(* the signing keys of an OIDC provider, cached and refreshed by the requests *)
(* that need them, and the browser login whose session one callback consumes. *)
(*                                                                            *)
(* Time passes in ticks that saturate at the two limits of the code: the      *)
(* refresh interval of the key cache and the age of a login session.          *)
EXTENDS Naturals, FiniteSets

CONSTANTS Callers,        \* requests that carry an identity token
          Callbacks,      \* callback requests, all with the one session's state
          RefreshAfter,   \* jwks refresh interval, in ticks
          SessionAge,     \* 600 s, in ticks
          MaxRotations,   \* bound: key rotations at the provider
          MaxOutages,     \* bound: outages of the provider
          MaxLogins,      \* bound: browser logins
          MaxRestarts,    \* bound: restarts of the auth service
          NoKey

VARIABLES key,       \* the provider's current key
          up,        \* the provider answers
          outages,
          cached,    \* key in the JWKS cache, or NoKey before any discovery
          age,       \* ticks since last_refreshed
          call,      \* identity-token requests
          session,   \* the login session: "none", "open", and its age
          logins,
          callback,  \* callback requests: "idle", "exchanging"
          restarts

keyvars == <<key, up, outages, cached, age, call>>
sessvars == <<session, logins, callback>>
ivars == <<keyvars, sessvars, restarts>>

NoSession == [open |-> FALSE, age |-> 0]
Idle == [pc |-> "idle"]

IdentInit ==
    /\ key = 0 /\ up \in BOOLEAN /\ outages = 0
    /\ cached = (IF up THEN 0 ELSE NoKey) \* discover_all: a provider that is down is skipped
    /\ age = 0
    /\ call = [c \in Callers |-> Idle]
    /\ session = NoSession /\ logins = 0
    /\ callback = [b \in Callbacks |-> "idle"]
    /\ restarts = 0

----------------------------------------------------------------------------
(* The provider (external) *)

Rotate == /\ key < MaxRotations /\ key' = key + 1
          /\ UNCHANGED <<up, outages, cached, age, call, sessvars, restarts>>

GoDown == /\ up /\ outages < MaxOutages
          /\ up' = FALSE /\ outages' = outages + 1
          /\ UNCHANGED <<key, cached, age, call, sessvars, restarts>>

ComeBack == /\ ~up /\ up' = TRUE
            /\ UNCHANGED <<key, outages, cached, age, call, sessvars, restarts>>

Tick ==
    /\ age <= RefreshAfter \/ (session.open /\ session.age <= SessionAge)
    /\ age' = IF age <= RefreshAfter THEN age + 1 ELSE age
    /\ session' = IF session.open /\ session.age <= SessionAge
                  THEN [session EXCEPT !.age = @ + 1] ELSE session
    /\ UNCHANGED <<key, up, outages, cached, call, logins, callback, restarts>>

----------------------------------------------------------------------------
(* validate_token *)

Verified(k) == k = key   \* a client presents a token of the provider's current key

TrustCache(c) ==
    /\ call[c].pc = "idle"
    /\ IF cached # NoKey
       THEN call' = [call EXCEPT ![c] = [pc |-> "done", ok |-> Verified(cached)]]
       ELSE call' = [call EXCEPT ![c] = [pc |-> "fetch"]]
    /\ UNCHANGED <<key, up, outages, cached, age, sessvars, restarts>>

(* A fresh cache decides at once; a missing or an old one is refreshed first, *)
(* and the documents are fetched while other requests run.                    *)
ValidateToken(c) ==
    /\ call[c].pc = "idle"
    /\ IF cached # NoKey /\ age <= RefreshAfter
       THEN call' = [call EXCEPT ![c] = [pc |-> "done", ok |-> Verified(cached)]]
       ELSE call' = [call EXCEPT ![c] = [pc |-> "fetch"]]
    /\ UNCHANGED <<key, up, outages, cached, age, sessvars, restarts>>

Fetch(c) ==
    /\ call[c].pc = "fetch"
    /\ call' = [call EXCEPT ![c] = IF up THEN [pc |-> "store", key |-> key] ELSE [pc |-> "failed"]]
    /\ UNCHANGED <<key, up, outages, cached, age, sessvars, restarts>>

(* What the request fetched replaces the cache, however old it is by now.     *)
DiscoverProvider(c) ==
    /\ call[c].pc = "store"
    /\ cached' = call[c].key /\ age' = 0
    /\ call' = [call EXCEPT ![c] = [pc |-> "verify"]]
    /\ UNCHANGED <<key, up, outages, sessvars, restarts>>

VerifyWithProvider(c) ==
    /\ call[c].pc = "verify"
    /\ call' = [call EXCEPT ![c] = [pc |-> "done", ok |-> Verified(cached)]]
    /\ UNCHANGED <<key, up, outages, cached, age, sessvars, restarts>>

(* A failed refresh keeps the old keys and verifies with them; a failed       *)
(* discovery has none.                                                        *)
RefreshFailed(c) ==
    /\ call[c].pc = "failed"
    /\ call' = [call EXCEPT ![c] = [pc |-> "done", ok |-> cached # NoKey /\ Verified(cached)]]
    /\ UNCHANGED <<key, up, outages, cached, age, sessvars, restarts>>

(* The client is answered; it asks again with a token of its day.             *)
Answer(c) ==
    /\ call[c].pc = "done"
    /\ call' = [call EXCEPT ![c] = Idle]
    /\ UNCHANGED <<key, up, outages, cached, age, sessvars, restarts>>

----------------------------------------------------------------------------
(* Browser login *)

OidcLoginStart ==
    /\ ~session.open /\ logins < MaxLogins
    /\ \A b \in Callbacks : callback[b] = "idle"
    /\ session' = [open |-> TRUE, age |-> 0]
    /\ logins' = logins + 1
    /\ UNCHANGED <<keyvars, callback, restarts>>

(* The callback takes the session out of the map before anything can fail.    *)
TakeSession(b) ==
    /\ callback[b] = "idle"
    /\ session.open
    /\ session' = NoSession
    /\ callback' = [callback EXCEPT ![b] = IF session.age > SessionAge THEN "idle" ELSE "exchanging"]
    /\ UNCHANGED <<keyvars, logins, restarts>>

(* The provider changes the code for an id_token, or the login fails here.    *)
OidcCallback(b) ==
    /\ callback[b] = "exchanging"
    /\ callback' = [callback EXCEPT ![b] = "idle"]
    /\ UNCHANGED <<keyvars, session, logins, restarts>>

(* Every map of AppState is in memory; requests in flight are cut off.        *)
Restart ==
    /\ restarts < MaxRestarts
    /\ restarts' = restarts + 1
    /\ cached' = IF up THEN key ELSE NoKey
    /\ age' = 0
    /\ call' = [c \in Callers |-> Idle]
    /\ session' = NoSession
    /\ callback' = [b \in Callbacks |-> "idle"]
    /\ UNCHANGED <<key, up, outages, logins>>

IdentNext ==
    \/ Rotate \/ GoDown \/ ComeBack \/ Tick \/ OidcLoginStart \/ Restart
    \/ \E c \in Callers :
        \/ ValidateToken(c) \/ Fetch(c) \/ DiscoverProvider(c)
        \/ VerifyWithProvider(c) \/ RefreshFailed(c) \/ Answer(c)
    \/ \E b \in Callbacks : TakeSession(b) \/ OidcCallback(b)

(* Clients retry, their requests run to an answer, the provider returns from  *)
(* an outage and time passes; nothing forces a rotation, an outage, a restart *)
(* or a login.                                                                *)
IdentFairness ==
    /\ WF_ivars(ComeBack) /\ WF_ivars(Tick)
    /\ \A c \in Callers :
        WF_ivars(ValidateToken(c) \/ Fetch(c) \/ DiscoverProvider(c)
                 \/ VerifyWithProvider(c) \/ RefreshFailed(c) \/ Answer(c))

----------------------------------------------------------------------------
(* A rotated key is learned: once the provider stops rotating, every client   *)
(* is accepted again and again, although a refresh that started before the    *)
(* rotation may put the old keys back and restart the interval.               *)
RotatedKeyIsLearned ==
    \A c \in Callers : []<>(call[c].pc = "done" /\ call[c].ok)
=============================================================================
