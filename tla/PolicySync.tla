----------------------------- MODULE PolicySync -----------------------------
(***************************************************************************)
(* The other reconcilers of specton-controller: Tenant, Project,           *)
(* AccessPolicy and TokenPolicy (tenancy.rs) are pushed to the auth        *)
(* service, ImageVerificationPolicy, AdmissionPolicy and                   *)
(* RebuildSubscription (policies.rs) to the registry.  A spec is its       *)
(* generation.  A push that times out may still be applied later.          *)
(***************************************************************************)
EXTENDS Naturals

CONSTANTS
    Resources,      \* "tenant" and the objects that name it
    Tenancy,        \* those of tenancy.rs; the others are of policies.rs
    Secrets,        \* Secrets, which have no reconciler here
    Names,          \* the Projects an AccessPolicy names, the Secrets of an emitter
    MaxGeneration,  \* edits of each object
    MaxFailures     \* pushes that fail

Objects == Resources \cup Secrets

ASSUME SyncAssumption ==
    /\ "tenant" \in Tenancy /\ Tenancy \subseteq Resources
    /\ Names \in [Resources -> SUBSET Objects]
    /\ MaxGeneration \in [Objects -> Nat] /\ MaxFailures \in Nat

VARIABLES
    live,       \* generation of the object in the cluster, 0 before it is created
    remote,     \* generation the service holds
    deployed,   \* the auth service has the endpoints (it answers 404 otherwise), and
                \* REGISTRY_SERVICE_URL is set
    report,     \* the status of the object
    worker,     \* the reconciler of the object
    late,       \* pushes that timed out and are not applied yet
    failures

syncVars == <<live, remote, deployed, report, worker, late, failures>>

\* conditions, observedGeneration and a time stamp of which only the change matters
Unreported == [ready |-> FALSE, seen |-> 0, stamp |-> 0]
Resting == [at |-> "rest", gen |-> 0, ok |-> FALSE]

SyncInit ==
    /\ live = [r \in Objects |-> 0]
    /\ remote = [r \in Resources |-> 0]
    /\ deployed \in [auth: BOOLEAN, registry: BOOLEAN]
    /\ report = [r \in Resources |-> Unreported]
    /\ worker = [r \in Resources |-> Resting]
    /\ late = {}
    /\ failures = 0

Edit(r) ==
    /\ live[r] < MaxGeneration[r]
    /\ live' = [live EXCEPT ![r] = @ + 1]
    /\ UNCHANGED <<remote, deployed, report, worker, late, failures>>

\* the objects of tenancy.rs are requeued only while they are not known to be in step
OnlyIfChanged(r) ==
    live[r] > 0 /\ (r \in Tenancy => ~(report[r].ready /\ report[r].seen = live[r]))

\* Every pass ends with a requeue, after a success too.
Requeued(r) == live[r] > 0

TenantExists(r) == r = "tenant" \/ live["tenant"] > 0

ProjectsExist(r) == \A q \in Names[r] \cap Resources : live[q] > 0

SecretsExist(r) == \A q \in Names[r] \cap Secrets : live[q] > 0

Referenced(r) == TenantExists(r) /\ ProjectsExist(r) /\ SecretsExist(r)

\* A missing reference is reported in the status.
ReconcileTenancy(r) ==
    /\ r \in Tenancy
    /\ worker[r].at = "rest" /\ Requeued(r)
    /\ worker' = [worker EXCEPT ![r] =
                     [at |-> IF Referenced(r) THEN "push" ELSE "report",
                      gen |-> live[r], ok |-> FALSE]]
    /\ UNCHANGED <<live, remote, deployed, report, late, failures>>

\* A missing tenant or Secret is an error, and error_policy asks for another pass.
ReconcilePolicy(r) ==
    /\ r \in Resources \ Tenancy
    /\ worker[r].at = "rest" /\ Requeued(r)
    /\ Referenced(r)
    /\ worker' = [worker EXCEPT ![r] = [at |-> "push", gen |-> live[r], ok |-> FALSE]]
    /\ UNCHANGED <<live, remote, deployed, report, late, failures>>

\* sync_to_auth_service: the answer is the outcome to report
SyncToAuthService(r) ==
    /\ r \in Tenancy /\ worker[r].at = "push"
    /\ remote' = IF deployed.auth THEN [remote EXCEPT ![r] = worker[r].gen] ELSE remote
    /\ worker' = [worker EXCEPT ![r].at = "report", ![r].ok = deployed.auth]
    /\ UNCHANGED <<live, deployed, report, late, failures>>

\* sync_to_registry: without an address the object is only validated
SyncToRegistry(r) ==
    /\ r \notin Tenancy /\ worker[r].at = "push"
    /\ remote' = IF deployed.registry THEN [remote EXCEPT ![r] = worker[r].gen] ELSE remote
    /\ worker' = [worker EXCEPT ![r].at = "report", ![r].ok = TRUE]
    /\ UNCHANGED <<live, deployed, report, late, failures>>

\* The push times out and may still arrive, or the service is not reached or answers with
\* an error status.  Tenancy reports the failure, a policy asks for another pass.
PushFails(r, arrives) ==
    /\ worker[r].at = "push" /\ failures < MaxFailures
    /\ IF r \in Tenancy THEN deployed.auth ELSE deployed.registry
    /\ late' = IF arrives THEN late \cup {<<r, worker[r].gen>>} ELSE late
    /\ worker' = [worker EXCEPT ![r] = IF r \in Tenancy THEN [@ EXCEPT !.at = "report"] ELSE Resting]
    /\ failures' = failures + 1
    /\ UNCHANGED <<live, remote, deployed, report>>

LatePush(r, g) ==
    /\ <<r, g>> \in late
    /\ late' = late \ {<<r, g>>}
    /\ remote' = [remote EXCEPT ![r] = g]
    /\ UNCHANGED <<live, deployed, report, worker, failures>>

Flip(stamp) == 1 - stamp

\* the time of the transition moves on every pass
StampEveryPass(old, w) == [ready |-> w.ok, seen |-> w.gen, stamp |-> Flip(old.stamp)]

\* set_condition of tenancy.rs: the time stamp moves only with the condition, the phase or
\* the generation.
SetCondition(old, w) ==
    [ready |-> w.ok, seen |-> w.gen,
     stamp |-> IF old.ready = w.ok /\ old.seen = w.gen THEN old.stamp ELSE Flip(old.stamp)]

\* write_status: nothing is written when nothing changed.
WriteReport(r) ==
    /\ r \in Tenancy /\ worker[r].at = "report"
    /\ report' = [report EXCEPT ![r] = SetCondition(@, worker[r])]
    /\ worker' = [worker EXCEPT ![r] = Resting]
    /\ UNCHANGED <<live, remote, deployed, late, failures>>

\* update_status of policies.rs: Ready=True with the time of the pass, no generation.
UpdateReport(r) ==
    /\ r \notin Tenancy /\ worker[r].at = "report"
    /\ report' = [report EXCEPT ![r].ready = TRUE, ![r].stamp = Flip(@)]
    /\ worker' = [worker EXCEPT ![r] = Resting]
    /\ UNCHANGED <<live, remote, deployed, late, failures>>

Pass(r) ==
    \/ ReconcileTenancy(r) \/ SyncToAuthService(r) \/ WriteReport(r)
    \/ ReconcilePolicy(r) \/ SyncToRegistry(r) \/ UpdateReport(r)

SyncNext ==
    \/ \E r \in Objects : Edit(r)
    \/ \E r \in Resources : Pass(r) \/ \E arrives \in BOOLEAN : PushFails(r, arrives)
    \/ \E p \in late : LatePush(p[1], p[2])

\* Each controller keeps requeueing; a push in the network is applied in the end.
SyncFairness ==
    \A r \in Resources :
       /\ WF_syncVars(Pass(r))
       /\ \A g \in 1..MaxGeneration[r] : WF_syncVars(LatePush(r, g))
-----------------------------------------------------------------------------
(* Properties *)

InStep(r) ==
    IF r \in Tenancy
    THEN /\ Referenced(r) /\ deployed.auth => remote[r] = live[r]
         /\ report[r].ready = (Referenced(r) /\ deployed.auth) /\ report[r].seen = live[r]
    ELSE Referenced(r) => report[r].ready /\ (deployed.registry => remote[r] = live[r])

\* When the edits end, every object whose references exist is what the service holds, even
\* if a push that timed out was applied after a newer one, and the status of a tenancy object
\* says whether auth took this generation (the requeue after every pass, sync_to_registry).
SyncConverges == <>[](\A r \in Resources : live[r] > 0 => InStep(r))

\* The passes over a Tenant, Project or policy of tenancy.rs stop writing its status: each
\* write would be a watch event and start the next pass (write_status).
StatusSettles == <>[][\A r \in Tenancy : report'[r] = report[r]]_report
=============================================================================
