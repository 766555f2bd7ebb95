------------------------------ MODULE Operator ------------------------------
(***************************************************************************)
(* The lifecycle operator of specton-controller (src/operator): passes of  *)
(* reconcile over one SpectonRegistry resource, its two Deployments, the   *)
(* pre-upgrade backup Jobs and the digest behind the tracked tag.          *)
(* Kubernetes (rollouts, Jobs, deletions) and the people who edit the      *)
(* resource are the environment; MaxEvents bounds what they do.  The       *)
(* Services and the backup CronJob, applied again by every pass whatever   *)
(* the rollout does, are left out.                                         *)
(***************************************************************************)
EXTENDS Naturals, FiniteSets

CONSTANTS
    Tags,       \* values of image.tag
    Digests,    \* manifest digests a tag may stand for
    Absent,     \* no Deployment, no digest, no image
    MaxEvents   \* edits of the resource, moves of a tag and failures

ASSUME OperatorAssumption ==
    /\ Tags # {} /\ Digests # {}
    /\ Absent \notin Tags \cup Digests
    /\ MaxEvents \in Nat

Images == Tags \cup Digests

VARIABLES
    cr,         \* the spec of the resource and its generation
    status,     \* the status the API server stores
    auth,       \* the Deployment of specton-auth
    registry,   \* the Deployment of specton-registry
    config,     \* the ConfigMap: absent, or the hash of its content
    jobs,       \* the pre-upgrade backup Jobs
    fresh,      \* the Jobs that succeeded since auth last changed its image
    pass,       \* the pass of reconcile in progress
    upstream,   \* the digest behind each tag
    events      \* environment events so far

opVars == <<cr, status, auth, registry, config, jobs, fresh, pass, upstream, events>>

Configs == {"c1", "c2"}
Phases == {"", "Paused", "Degraded", "BackingUp", "Ready", "Upgrading", "Pending", "Progressing"}
Specs == [tag: Tags, auto: BOOLEAN, before: BOOLEAN, paused: BOOLEAN, gen: Nat]
Deployments ==
    [img: Images \cup {Absent}, cfg: Configs, pods: SUBSET Images, rolled: BOOLEAN, stuck: BOOLEAN]
Jobs == [gen: Nat, from: Images, to: Images, state: {"running", "succeeded", "failed"}]
Statuses ==
    [phase: Phases, current: Images \cup {Absent}, tracked: Tags \cup {Absent},
     digest: Digests \cup {Absent}, checked: BOOLEAN]
Passes ==
    [pc: {"idle", "auth", "registry", "status"}, target: Images \cup {Absent},
     rimg: Images \cup {Absent}, upgrading: BOOLEAN, cfg: Configs, before: BOOLEAN, auto: BOOLEAN,
     gen: Nat, authOk: BOOLEAN, bad: BOOLEAN, st: Statuses]

NoDeployment == [img |-> Absent, cfg |-> "c1", pods |-> {}, rolled |-> FALSE, stuck |-> FALSE]
NoStatus == [phase |-> "", current |-> Absent, tracked |-> Absent, digest |-> Absent, checked |-> FALSE]
Idle ==
    [pc |-> "idle", target |-> Absent, rimg |-> Absent, upgrading |-> FALSE, cfg |-> "c1",
     before |-> FALSE, auto |-> FALSE, gen |-> 0, authOk |-> FALSE, bad |-> FALSE, st |-> NoStatus]

OpInit ==
    /\ cr \in [tag: {CHOOSE t \in Tags : TRUE}, auto: BOOLEAN, before: {TRUE}, paused: BOOLEAN, gen: {1}]
    /\ status = NoStatus
    /\ auth = NoDeployment
    /\ registry = NoDeployment
    /\ config = "c1"
    /\ jobs = {}
    /\ fresh = {}
    /\ pass = Idle
    /\ upstream \in [Tags -> {CHOOSE d \in Digests : TRUE}]
    /\ events = 0

-----------------------------------------------------------------------------
(* Images *)

\* The digest the status holds for the tag the spec names: the fields of another tag are
\* ignored, and stay in the stored status since the merge patch omits what is None.
LastKnown == IF status.tracked = cr.tag THEN status.digest ELSE Absent

\* a digest that is resolved once and never looked up again
NeverAgain == LastKnown = Absent

Due == LastKnown = Absent \/ ~status.checked

\* the registry answers the HEAD for the tag with its digest
ResolveDigest(tag) == upstream[tag]

\* resolve_target: the image to roll towards and the status with the digest fields updated.
\* A resolution that is due may fail, which keeps the last known digest.
Resolved(answers) ==
    IF ~cr.auto THEN [target |-> cr.tag, st |-> status]
    ELSE IF Due /\ answers
         THEN [target |-> ResolveDigest(cr.tag),
               st |-> [status EXCEPT !.tracked = cr.tag, !.digest = ResolveDigest(cr.tag), !.checked = TRUE]]
         ELSE [target |-> IF LastKnown = Absent THEN cr.tag ELSE LastKnown, st |-> status]

RolledOut(d) == d.rolled

\* plan_rollout that does not wait for auth
EagerPlan(target) ==
    [rimg |-> target, upgrading |-> registry.img # target,
     starts |-> auth.img \notin {Absent, target}]

\* plan_rollout: auth first, the registry once auth has rolled out
PlanRollout(target) ==
    LET now == IF registry.img = Absent THEN target ELSE registry.img IN
    IF auth.img = Absent THEN
        [rimg |-> target, upgrading |-> FALSE, starts |-> FALSE]
    ELSE IF auth.img # target THEN
        [rimg |-> now, upgrading |-> TRUE, starts |-> TRUE]
    ELSE IF ~RolledOut(auth) THEN
        [rimg |-> now, upgrading |-> now # target, starts |-> FALSE]
    ELSE
        [rimg |-> target, upgrading |-> registry.img \notin {Absent, target}, starts |-> FALSE]

\* preupgrade_job_name without the generation
UngenerationedKey(from, to) == [gen |-> 0, from |-> from, to |-> to]

\* preupgrade_job_name: a Job per generation and pair of images
JobKey(from, to) == [gen |-> cr.gen, from |-> from, to |-> to]

JobOf(key, state) == [gen |-> key.gen, from |-> key.from, to |-> key.to, state |-> state]

-----------------------------------------------------------------------------
(* A pass of reconcile *)

SetPhase(st, phase) == status' = [st EXCEPT !.phase = phase]

ReconcilePaused ==
    /\ pass.pc = "idle"
    /\ cr.paused
    /\ SetPhase(status, "Paused")
    /\ UNCHANGED <<cr, auth, registry, config, jobs, fresh, pass, upstream, events>>

ReconcileWithoutConfig ==
    /\ pass.pc = "idle"
    /\ ~cr.paused
    /\ config = Absent
    /\ SetPhase(status, "Degraded")
    /\ UNCHANGED <<cr, auth, registry, config, jobs, fresh, pass, upstream, events>>

\* What a pass decides from the resource, the digest and the live Deployments
Planned(answers) ==
    LET r == Resolved(answers)
        plan == PlanRollout(r.target)
    IN  [Idle EXCEPT !.pc = "auth", !.target = r.target, !.rimg = plan.rimg,
                     !.upgrading = plan.upgrading, !.cfg = config, !.st = r.st,
                     !.before = plan.starts /\ cr.before, !.auto = cr.auto, !.gen = cr.gen]

\* the backup Job of the upgrade p begins
BackupIs(p, state) == JobOf(JobKey(auth.img, p.target), state) \in jobs

BeginApplying(p) ==
    /\ p.before => BackupIs(p, "succeeded")
    /\ pass' = p
    /\ UNCHANGED <<status, jobs>>

\* The Job is created when there is none.
AwaitBackup(p) ==
    /\ p.before /\ ~BackupIs(p, "failed") /\ ~BackupIs(p, "succeeded")
    /\ jobs' = jobs \cup {JobOf(JobKey(auth.img, p.target), "running")}
    /\ SetPhase(p.st, "BackingUp")
    /\ UNCHANGED pass

BlockUpgrade(p) ==
    /\ p.before /\ BackupIs(p, "failed")
    /\ SetPhase(p.st, "Degraded")
    /\ UNCHANGED <<pass, jobs>>

Reconcile(answers) ==
    /\ pass.pc = "idle"
    /\ ~cr.paused
    /\ config # Absent
    /\ LET p == Planned(answers) IN BeginApplying(p) \/ AwaitBackup(p) \/ BlockUpgrade(p)
    /\ UNCHANGED <<cr, auth, registry, config, fresh, upstream>>

\* a resolution that is not answered counts as an event
ReconcileAnswered == Reconcile(TRUE) /\ UNCHANGED events
ReconcileUnanswered ==
    /\ cr.auto /\ Due /\ events < MaxEvents
    /\ Reconcile(FALSE)
    /\ events' = events + 1

\* Server-side apply: a Deployment that already is as asked is left alone; otherwise pods
\* of the new template may start at once, and those of the old one still run.
Applied(d, image, cfg) ==
    IF d.img = image /\ d.cfg = cfg THEN d
    ELSE [d EXCEPT !.img = image, !.cfg = cfg, !.pods = @ \cup {image}, !.rolled = FALSE, !.stuck = FALSE]

ApplyAuth ==
    /\ pass.pc = "auth"
    /\ auth' = Applied(auth, pass.target, pass.cfg)
    /\ fresh' = IF auth.img = pass.target THEN fresh ELSE {}
    /\ pass' = [pass EXCEPT !.pc = "registry", !.authOk = RolledOut(auth'), !.bad = auth'.stuck]
    /\ UNCHANGED <<cr, status, registry, config, jobs, upstream, events>>

\* The answers of the two applies decide the phase.
ApplyRegistry ==
    /\ pass.pc = "registry"
    /\ registry' = Applied(registry, pass.rimg, pass.cfg)
    /\ LET done == /\ ~pass.upgrading
                   /\ pass.rimg = pass.target
                   /\ pass.authOk
                   /\ RolledOut(registry')
           upgrading == pass.upgrading \/ pass.st.current \notin {Absent, pass.target}
           phase == IF pass.bad \/ registry'.stuck THEN "Degraded"
                    ELSE IF done THEN "Ready"
                    ELSE IF upgrading THEN "Upgrading"
                    ELSE IF pass.st.phase = "" THEN "Pending" ELSE "Progressing"
           current == IF phase = "Ready" THEN pass.target ELSE pass.st.current
       IN  pass' = [pass EXCEPT !.pc = "status",
                                !.st = [pass.st EXCEPT !.phase = phase, !.current = current]]
    /\ UNCHANGED <<cr, status, auth, config, jobs, fresh, upstream, events>>

\* write_status: a merge patch
WriteStatus ==
    /\ pass.pc = "status"
    /\ status' = pass.st
    /\ pass' = Idle
    /\ UNCHANGED <<cr, auth, registry, config, jobs, fresh, upstream, events>>

\* An API call fails or the controller restarts; error_policy asks for another pass.
PassFails ==
    /\ pass.pc # "idle" /\ events < MaxEvents
    /\ pass' = Idle
    /\ events' = events + 1
    /\ UNCHANGED <<cr, status, auth, registry, config, jobs, fresh, upstream>>

-----------------------------------------------------------------------------
(* The environment *)

EditSpec ==
    /\ events < MaxEvents
    /\ \E s \in [tag: Tags, auto: BOOLEAN, before: BOOLEAN, paused: BOOLEAN] :
          /\ Cardinality({f \in DOMAIN s : s[f] # cr[f]}) = 1
          /\ cr' = [tag |-> s.tag, auto |-> s.auto, before |-> s.before, paused |-> s.paused,
                    gen |-> cr.gen + 1]
    /\ events' = events + 1
    /\ UNCHANGED <<status, auth, registry, config, jobs, fresh, pass, upstream>>

EditConfig ==
    /\ events < MaxEvents
    /\ config' \in (Configs \cup {Absent}) \ {config}
    /\ events' = events + 1
    /\ UNCHANGED <<cr, status, auth, registry, jobs, fresh, pass, upstream>>

MoveTag ==
    /\ events < MaxEvents
    /\ \E d \in Digests \ {upstream[cr.tag]} : upstream' = [upstream EXCEPT ![cr.tag] = d]
    /\ events' = events + 1
    /\ UNCHANGED <<cr, status, auth, registry, config, jobs, fresh, pass>>

DeleteDeployment ==
    /\ events < MaxEvents
    /\ \/ auth.img # Absent /\ auth' = NoDeployment /\ UNCHANGED registry
       \/ registry.img # Absent /\ registry' = NoDeployment /\ UNCHANGED auth
    /\ events' = events + 1
    /\ UNCHANGED <<cr, status, config, jobs, fresh, pass, upstream>>

JobEnds(j, state) ==
    /\ j \in jobs /\ j.state = "running"
    /\ jobs' = (jobs \ {j}) \cup {[j EXCEPT !.state = state]}
    /\ fresh' = IF state = "succeeded" THEN fresh \cup {[j EXCEPT !.state = state]} ELSE fresh
    /\ UNCHANGED <<cr, status, auth, registry, config, pass, upstream>>

BackupSucceeds == (\E j \in jobs : JobEnds(j, "succeeded")) /\ UNCHANGED events
BackupFails ==
    /\ events < MaxEvents
    /\ \E j \in jobs : JobEnds(j, "failed")
    /\ events' = events + 1

\* The last old pod is gone and every replica is available.
Rolled(d) == [d EXCEPT !.pods = {d.img}, !.rolled = TRUE, !.stuck = FALSE]

AuthRollsOut ==
    /\ auth.img # Absent /\ ~auth.rolled
    /\ auth' = Rolled(auth)
    /\ UNCHANGED <<cr, status, registry, config, jobs, fresh, pass, upstream, events>>

RegistryRollsOut ==
    /\ registry.img # Absent /\ ~registry.rolled
    /\ registry' = Rolled(registry)
    /\ UNCHANGED <<cr, status, auth, config, jobs, fresh, pass, upstream, events>>

\* ProgressDeadlineExceeded: the Deployment says so until it rolls out or is changed.
Stalls(d) == d.img # Absent /\ ~d.rolled /\ ~d.stuck
RolloutStalls ==
    /\ events < MaxEvents
    /\ \/ Stalls(auth) /\ auth' = [auth EXCEPT !.stuck = TRUE] /\ UNCHANGED registry
       \/ Stalls(registry) /\ registry' = [registry EXCEPT !.stuck = TRUE] /\ UNCHANGED auth
    /\ events' = events + 1
    /\ UNCHANGED <<cr, status, config, jobs, fresh, pass, upstream>>

\* intervalSeconds passed since the digest was looked up; a look that would find the same
\* digest again is left out
IntervalElapses ==
    /\ status.checked \/ pass.st.checked
    /\ cr.auto /\ upstream[cr.tag] \notin {status.digest, pass.st.digest}
    /\ status' = [status EXCEPT !.checked = FALSE]
    /\ pass' = [pass EXCEPT !.st = [pass.st EXCEPT !.checked = FALSE]]
    /\ UNCHANGED <<cr, auth, registry, config, jobs, fresh, upstream, events>>

Passing ==
    \/ ReconcilePaused \/ ReconcileWithoutConfig \/ ReconcileAnswered
    \/ ApplyAuth \/ ApplyRegistry \/ WriteStatus

Cluster == BackupSucceeds \/ AuthRollsOut \/ RegistryRollsOut \/ IntervalElapses

Disturbing ==
    \/ ReconcileUnanswered \/ PassFails \/ EditSpec \/ EditConfig \/ MoveTag
    \/ DeleteDeployment \/ BackupFails \/ RolloutStalls

OpNext == Passing \/ Cluster \/ Disturbing

OpSpec == OpInit /\ [][OpNext]_opVars

\* The cluster finishes what it started.
ClusterFairness ==
    /\ WF_opVars(BackupSucceeds)
    /\ WF_opVars(AuthRollsOut) /\ WF_opVars(RegistryRollsOut)
    /\ WF_opVars(IntervalElapses)
-----------------------------------------------------------------------------
(* Properties *)

OpTypeOK ==
    /\ cr \in Specs
    /\ status \in Statuses
    /\ auth \in Deployments
    /\ registry \in Deployments
    /\ config \in Configs \cup {Absent}
    /\ pass \in Passes
    /\ upstream \in [Tags -> Digests]

\* A pass in flight that would move an existing registry finds auth as the move needs it
\* when it gets there, although its plan was made from Deployments read before auth was
\* applied and both may have been deleted or rolled out since (plan_rollout, reconcile).
PlanStaysSafe ==
    /\ auth.rolled => auth.pods = {auth.img}
    /\ IF auth.img = Absent THEN auth.pods = {} ELSE auth.img \in auth.pods
    /\ pass.pc \in {"auth", "registry"} => {pass.target, pass.rimg} \subseteq Images
    /\ (pass.pc \in {"auth", "registry"} /\ registry.img \notin {Absent, pass.rimg}) =>
          /\ pass.rimg = pass.target
          /\ auth.img \in {Absent, pass.target}
          /\ auth.pods \subseteq {pass.target}

Rollout == INSTANCE OrderedRollout
    WITH authImage <- auth.img, authPods <- auth.pods, registryImage <- registry.img

\* The passes of reconcile implement the ordered rollout: whatever is edited, deleted,
\* restarted or stale between the plan and the applies, an existing registry moves to an
\* image only when no auth pod runs another one (plan_rollout, ApplyAuth, ApplyRegistry).
ImplementsOrderedRollout == Rollout!RolloutSpec

\* With backup.beforeUpgrade, auth leaves an image only if a backup Job for that step
\* succeeded, and since the image was taken up; only auto-update, which moves the target
\* without a new generation, may reuse the Job of an earlier upgrade.
UpgradeIsBackedUp ==
    [][\A t \in Images :
          (auth.img \in Images \ {t} /\ auth'.img = t /\ pass.before) =>
             \E j \in jobs : /\ j.from = auth.img /\ j.to = t /\ j.state = "succeeded"
                             /\ j \in fresh \/ (pass.auto /\ j.gen = pass.gen)]_opVars

Wanted == IF cr.auto THEN upstream[cr.tag] ELSE cr.tag

NeedsAPerson ==
    \/ cr.paused
    \/ config = Absent
    \/ \E j \in jobs : j.state = "failed" /\ j.gen = cr.gen

\* Once the edits and failures end, the installation comes to run the image the resource
\* names and says so, unless it is paused, has no ConfigMap, or its backup failed in the
\* present generation: no stale Job, digest, deadline or half-applied pass holds it back.
OperatorConverges ==
    <>[](\/ NeedsAPerson
         \/ /\ status.phase = "Ready" /\ status.current = Wanted
            /\ auth.img = Wanted /\ registry.img = Wanted /\ auth.rolled /\ registry.rolled)

=============================================================================
