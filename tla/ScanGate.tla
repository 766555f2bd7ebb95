------------------------------- MODULE ScanGate -------------------------------
(* The vulnerability scanner (specton-scanner) and the admission gate that    *)
(* reads its reports on every pull (specton-registry/src/admission.rs).       *)
(*                                                                            *)
(* A push or POST /v2/scan enqueues a job; a worker takes it off the queue,   *)
(* scans the image and leaves a report under scan:{digest} in Redis and a row *)
(* per job in Postgres.  A pull reads the tenant's policy and the report,     *)
(* answers, and keeps the verdict per (digest, policy id) for CacheTtl.       *)
(* Everything is keyed by digest, so one digest is modelled: an image with    *)
(* one layer and one vulnerable package.                                      *)
EXTENDS Naturals, Sequences, FiniteSets

CONSTANTS Repos,      \* repositories that hold the image
          Workers, ImagePulls,
          MaxJobs,    \* bound: scan jobs ever enqueued
          QueueCap,   \* capacity of the in-process queue
          CacheTtl,   \* admission.cache_ttl, in ticks; at least 1
          MaxPolicies,\* bound: ids an admission policy is given
          MaxEdits,   \* bound: settings changes, suppressions, revocations
          MaxFaults,  \* bound: failed calls, crashes, expired keys
          NoResult

ASSUME ScanAssumption ==
    /\ CacheTtl \in Nat \ {0} /\ QueueCap \in Nat \ {0}
    /\ MaxJobs \in Nat /\ MaxPolicies \in Nat \ {0} /\ MaxFaults \in Nat /\ MaxEdits \in Nat
    /\ NoResult \notin Nat

Jobs == 1..MaxJobs

VARIABLES backend,    \* "tokio" or "postgres", scanner.queue
          queue,      \* jobs waiting, oldest first
          repoOf,     \* job -> the repository it was enqueued for; one entry per job so far
          scans,      \* job -> its row: status, and the count written to it or NoResult
          redis,      \* scan:{digest}: NoResult or a report
          layer,      \* sbom:layer:{digest}: "none", "full" or "partial"
          enabled,    \* repos whose image_settings say scan_enabled
          suppressed, \* repos with an active suppression of the CVE
          worker,     \* worker -> what it is doing
          policy,     \* the tenant's admission policy: id and spec
          cache,      \* policy id -> cached verdict and the ticks it has left
          gate,       \* pull -> where its admission is
          edits, faults,
          lost        \* ghost: jobs no row will ever conclude

svars == <<backend, queue, repoOf, scans, redis, layer, enabled, suppressed, worker>>
gvars == <<policy, cache, gate>>
scanVars == <<svars, gvars, edits, faults, lost>>

----------------------------------------------------------------------------
(* Rules: count OP threshold; a rule that does not parse never matches        *)

NoRule == [op |-> "none", n |-> 0]
Compare(count, rule) ==
    \/ rule.op = ">"  /\ count > rule.n
    \/ rule.op = ">=" /\ count >= rule.n
    \/ rule.op = "="  /\ count = rule.n
    \/ rule.op = "<"  /\ count < rule.n
    \/ rule.op = "<=" /\ count <= rule.n

AnyVulnerability == [op |-> ">", n |-> 0]

(* admission policy specs: signature_required, block and warn thresholds,     *)
(* on_unknown                                                                 *)
Specs == [signature : {FALSE}, block : {AnyVulnerability}, warn : {NoRule}, unknown : {"block", "scan"}]
         \cup {[signature |-> TRUE, block |-> NoRule, warn |-> AnyVulnerability, unknown |-> "allow"]}
StrictSpec == [signature |-> FALSE, block |-> AnyVulnerability, warn |-> NoRule, unknown |-> "block"]

Idle == [pc |-> "idle"]
NoVerdict == [v |-> "none", left |-> 0]

(* Reports, down to what the gate reads: an unfinished or a failed one lists  *)
(* no vulnerability.                                                          *)
Report(status, found) == [status |-> status, found |-> found]

ScanInit ==
    /\ backend \in {"tokio", "postgres"}
    /\ queue = <<>> /\ repoOf = <<>>
    /\ scans = [j \in Jobs |-> [status |-> "none", count |-> NoResult]]
    /\ redis = NoResult /\ layer = "none"
    /\ enabled = Repos
    /\ suppressed = {}
    /\ worker = [w \in Workers |-> Idle]
    /\ policy = [id |-> 1, spec |-> StrictSpec]
    /\ cache = [i \in 1..MaxPolicies |-> NoVerdict]
    /\ gate = [p \in ImagePulls |-> Idle]
    /\ edits = 0 /\ faults = 0 /\ lost = {}

ScanTypeOK ==
    /\ Len(queue) <= MaxJobs /\ Len(repoOf) <= MaxJobs
    /\ redis = NoResult \/ redis.status \in {"in_progress", "completed", "failed"}
    /\ layer \in {"none", "full", "partial"}
    /\ enabled \subseteq Repos
    /\ suppressed \subseteq Repos
    /\ policy.id \in 1..MaxPolicies /\ policy.spec \in Specs
    /\ \A i \in DOMAIN cache : cache[i].left \in 0..CacheTtl
    /\ lost \subseteq Jobs

----------------------------------------------------------------------------
(* Requests to the scanner *)

(* put_manifest spawns the enqueue; POST /v2/scan awaits it.  The in-process  *)
(* channel makes the sender wait when it is full.                             *)
Enqueue(r) ==
    /\ Len(repoOf) < MaxJobs
    /\ backend = "tokio" => Len(queue) < QueueCap
    /\ repoOf' = Append(repoOf, r)
    /\ queue' = Append(queue, Len(repoOf) + 1)
    /\ UNCHANGED <<backend, scans, redis, layer, enabled, suppressed, worker, gvars, edits, faults, lost>>

Edit ==
    /\ edits < MaxEdits
    /\ edits' = edits + 1

UpdateImageSettings(r, on) ==
    /\ Edit
    /\ enabled' = IF on THEN enabled \cup {r} ELSE enabled \ {r}
    /\ UNCHANGED <<backend, queue, repoOf, scans, redis, layer, suppressed, worker, gvars, faults, lost>>

(* The row and its audit_log entry commit together.                           *)
CreateSuppression(r) ==
    /\ Edit
    /\ suppressed' = suppressed \cup {r}
    /\ UNCHANGED <<backend, queue, repoOf, scans, redis, layer, enabled, worker, gvars, faults, lost>>

RevokeSuppression(r) ==
    /\ Edit
    /\ r \in suppressed
    /\ suppressed' = suppressed \ {r}
    /\ UNCHANGED <<backend, queue, repoOf, scans, redis, layer, enabled, worker, gvars, faults, lost>>

----------------------------------------------------------------------------
(* A worker.  ok = FALSE is a call that failed and spends one fault.          *)

Try(ok) ==
    /\ ok \/ faults < MaxFaults
    /\ faults' = IF ok THEN faults ELSE faults + 1

Goto(w, pc) == worker' = [worker EXCEPT ![w].pc = pc]
Release(w) == worker' = [worker EXCEPT ![w] = Idle]

(* Settings that cannot be read are the defaults.                             *)
ScanEnabled(j, ok) == repoOf[j] \in enabled \/ ~ok

(* The job leaves the queue here.                                             *)
Dequeue(w, ok) ==
    /\ worker[w] = Idle
    /\ queue # <<>>
    /\ queue' = Tail(queue)
    /\ Try(ok)
    /\ LET j == Head(queue)
       IN  IF ScanEnabled(j, ok)
           THEN /\ worker' = [worker EXCEPT ![w] = [pc |-> "look", job |-> j]]
                /\ UNCHANGED lost
           ELSE lost' = lost \cup {j} /\ UNCHANGED worker
    /\ UNCHANGED <<backend, repoOf, scans, redis, layer, enabled, suppressed, gvars, edits>>

(* try_dedup_hit; the report of a hit is stored again under this job.         *)
LookForDigest(w, ok) ==
    /\ worker[w].pc = "look"
    /\ Try(ok)
    /\ IF ok /\ redis # NoResult /\ redis.status = "completed"
       THEN worker' = [worker EXCEPT ![w] = [pc |-> "dedup", job |-> worker[w].job,
                                              out |-> redis]]
       ELSE Goto(w, "start")
    /\ UNCHANGED <<backend, queue, repoOf, scans, redis, layer, enabled, suppressed, gvars, edits, lost>>

RecordStatus(w, status) == scans' = [scans EXCEPT ![worker[w].job].status = status]
UpdateCounts(w, found) == scans' = [scans EXCEPT ![worker[w].job].count = found]

(* A failed write of the row abandons the job: process returns the error.     *)
RowStep(w, ok, pc, write) ==
    /\ Try(ok)
    /\ IF ok THEN write /\ Goto(w, pc) /\ UNCHANGED lost
             ELSE Release(w) /\ lost' = lost \cup {worker[w].job} /\ UNCHANGED scans
    /\ UNCHANGED <<backend, queue, repoOf, layer, enabled, suppressed, redis, gvars, edits>>

(* Errors of the Redis writes are ignored.                                    *)
PutReport(w, ok, report, pc) ==
    /\ Try(ok)
    /\ redis' = IF ok THEN report ELSE redis
    /\ Goto(w, pc)
    /\ UNCHANGED <<backend, queue, repoOf, scans, layer, enabled, suppressed, gvars, edits, lost>>

ReuseSilently(w, ok) ==
    worker[w].pc = "dedup" /\ PutReport(w, ok, worker[w].out, "notify")

PersistDeduped(w, ok) ==
    \/ worker[w].pc = "dedup" /\ PutReport(w, ok, worker[w].out, "dedup_row")
    \/ worker[w].pc = "dedup_row" /\ RowStep(w, ok, "counts", RecordStatus(w, "in_progress"))

RecordInProgress(w, ok) ==
    worker[w].pc = "start" /\ RowStep(w, ok, "mark", RecordStatus(w, "in_progress"))

MarkInProgress(w, ok) ==
    /\ worker[w].pc = "mark"
    /\ PutReport(w, ok, Report("in_progress", 0), "pipeline")

(* A cached layer is not walked; a layer that is too large or cannot be read  *)
(* to the end is cached as it was read.                                       *)
LayerSbom(read) == IF layer # "none" THEN layer ELSE IF read THEN "full" ELSE "partial"

(* Suppressions of the repository leave the finding in the report, uncounted. *)
Unsuppressed(j, vulns) == IF repoOf[j] \in suppressed THEN 0 ELSE vulns

(* A failed query of the vulnerability database finds nothing; a missing      *)
(* manifest or blob, and a failed query of the suppressions, end the scan as  *)
(* failed.                                                                    *)
RunPipeline(w) ==
    /\ worker[w].pc = "pipeline"
    /\ \E read, db, ok \in BOOLEAN :
        LET j     == worker[w].job
            found == Unsuppressed(j, IF db /\ LayerSbom(read) = "full" THEN 1 ELSE 0)
        IN  /\ layer # "none" => read
            /\ ~ok => read /\ db
            /\ Try(read /\ db /\ ok)
            /\ layer' = LayerSbom(read)
            /\ worker' = [worker EXCEPT ![w] =
                   IF ok THEN [pc |-> "put", job |-> j, out |-> Report("completed", found)]
                         ELSE [pc |-> "fail", job |-> j, out |-> Report("failed", 0)]]
    /\ UNCHANGED <<backend, queue, repoOf, scans, redis, enabled, suppressed, gvars, edits, lost>>

(* A failed scan records itself, ignoring a database error.                   *)
RecordFailed(w, ok) ==
    /\ worker[w].pc = "fail"
    /\ Try(ok)
    /\ IF ok THEN RecordStatus(w, "failed") /\ UNCHANGED lost
             ELSE lost' = lost \cup {worker[w].job} /\ UNCHANGED scans
    /\ Goto(w, "put")
    /\ UNCHANGED <<backend, queue, repoOf, redis, layer, enabled, suppressed, gvars, edits>>

PutFinal(w, ok) ==
    /\ worker[w].pc = "put"
    /\ IF worker[w].out.status = "completed"
       THEN PutReport(w, ok, worker[w].out, "counts")
       ELSE /\ Try(ok)
            /\ redis' = IF ok THEN worker[w].out ELSE redis
            /\ Release(w)
            /\ UNCHANGED <<backend, queue, repoOf, scans, layer, enabled, suppressed, gvars, edits, lost>>

(* The counts before the status: a completed row has its counts.              *)
FinishRow(w, ok) ==
    \/ worker[w].pc = "counts" /\ RowStep(w, ok, "done", UpdateCounts(w, worker[w].out.found))
    \/ worker[w].pc = "done" /\ RowStep(w, ok, "notify", RecordStatus(w, "completed"))

(* on_scan_complete posts an alert when the repository's own policy failed,   *)
(* and ignores errors.                                                        *)
Notify(w) ==
    /\ worker[w].pc = "notify"
    /\ Release(w)
    /\ UNCHANGED <<backend, queue, repoOf, scans, redis, layer, enabled, suppressed, gvars, edits, faults, lost>>

WorkerStep(w) ==
    \/ \E ok \in BOOLEAN :
        \/ LookForDigest(w, ok) \/ PersistDeduped(w, ok) \/ RecordInProgress(w, ok)
        \/ MarkInProgress(w, ok) \/ RecordFailed(w, ok) \/ PutFinal(w, ok) \/ FinishRow(w, ok)
    \/ RunPipeline(w)
    \/ Notify(w)

(* The worker's process dies; the in-process queue dies with it.              *)
CrashWorker(w) ==
    /\ worker[w] # Idle
    /\ faults < MaxFaults /\ faults' = faults + 1
    /\ Release(w)
    /\ queue' = IF backend = "tokio" THEN <<>> ELSE queue
    /\ lost' = lost \cup {worker[w].job}
    /\ UNCHANGED <<backend, repoOf, scans, redis, layer, enabled, suppressed, gvars, edits>>

(* result_ttl_secs and layer_sbom_ttl_secs run out.                           *)
Expire ==
    /\ faults < MaxFaults /\ faults' = faults + 1
    /\ \/ redis # NoResult /\ redis' = NoResult /\ UNCHANGED layer
       \/ layer # "none" /\ layer' = "none" /\ UNCHANGED redis
    /\ UNCHANGED <<backend, queue, repoOf, scans, enabled, suppressed, worker, gvars, edits, lost>>

----------------------------------------------------------------------------
(* The admission gate *)

(* PUT /v2/_admit/policies: the body may name the id, else it is a new one.   *)
UpsertAdmissionPolicy(spec, keep) ==
    /\ Edit
    /\ keep \/ policy.id < MaxPolicies
    /\ policy' = [id |-> IF keep THEN policy.id ELSE policy.id + 1, spec |-> spec]
    /\ UNCHANGED <<svars, cache, gate, faults, lost>>

EvaluateOne(spec, scan, signed) ==
    IF spec.signature /\ ~signed THEN "block"
    ELSE IF scan = NoResult
    THEN CASE spec.unknown = "allow" -> "allow"
           [] spec.unknown = "scan"  -> "warn"
           [] spec.unknown = "block" -> "block"
    ELSE CASE Compare(scan.found, spec.block) -> "block"
           [] ~Compare(scan.found, spec.block) /\ Compare(scan.found, spec.warn) -> "warn"
           [] OTHER -> "allow"

(* enforce_admission reads the policies, then the report, and verifies the    *)
(* signature where the policy requires one.  No policy when the list cannot   *)
(* be read: the pull goes through; no report when Redis fails.  admit_test    *)
(* asks the same of the same cache, takes the image for signed and admits     *)
(* nobody.                                                                    *)
FetchScan(p, dry, fails, signed) ==
    /\ gate[p] = Idle
    /\ Try(fails = "nothing")
    /\ signed \/ (policy.spec.signature /\ ~dry /\ fails # "policies")
    /\ gate' = [gate EXCEPT ![p] =
            IF fails = "policies" THEN [pc |-> IF dry THEN "idle" ELSE "admitted"]
            ELSE [pc |-> "evaluate", id |-> policy.id, spec |-> policy.spec, signed |-> signed,
                  scan |-> IF fails = "report" THEN NoResult ELSE redis, dry |-> dry]]
    /\ UNCHANGED <<svars, policy, cache, edits, lost>>

CacheGet(i) == IF cache[i].left = 0 THEN "none" ELSE cache[i].v

SlidingExpiry(p) ==
    /\ gate[p].pc = "evaluate"
    /\ LET cached == CacheGet(gate[p].id)
           v == IF cached # "none" THEN cached ELSE EvaluateOne(gate[p].spec, gate[p].scan, gate[p].signed)
       IN  /\ cache' = [cache EXCEPT ![gate[p].id] = [v |-> v, left |-> CacheTtl]]
           /\ gate' = [gate EXCEPT ![p] = [pc |-> CASE gate[p].dry -> "idle"
                                                    [] ~gate[p].dry /\ v = "block" -> "refused"
                                                    [] OTHER -> "admitted"]]
    /\ UNCHANGED <<svars, policy, edits, faults, lost>>

(* A live cached verdict wins over the report and keeps its expiry.           *)
Evaluate(p) ==
    /\ gate[p].pc = "evaluate"
    /\ LET cached == CacheGet(gate[p].id)
           v == IF cached # "none" THEN cached ELSE EvaluateOne(gate[p].spec, gate[p].scan, gate[p].signed)
       IN  /\ cache' = IF cached # "none" THEN cache
                       ELSE [cache EXCEPT ![gate[p].id] = [v |-> v, left |-> CacheTtl]]
           /\ gate' = [gate EXCEPT ![p] = [pc |-> CASE gate[p].dry -> "idle"
                                                    [] ~gate[p].dry /\ v = "block" -> "refused"
                                                    [] OTHER -> "admitted"]]
    /\ UNCHANGED <<svars, policy, edits, faults, lost>>

PullEnds(p) ==
    /\ gate[p].pc \in {"admitted", "refused"}
    /\ gate' = [gate EXCEPT ![p] = Idle]
    /\ UNCHANGED <<svars, policy, cache, edits, faults, lost>>

Tick ==
    /\ \E i \in DOMAIN cache : cache[i].left > 0
    /\ cache' = [i \in DOMAIN cache |->
            IF cache[i].left <= 1 THEN NoVerdict ELSE [cache[i] EXCEPT !.left = @ - 1]]
    /\ UNCHANGED <<svars, policy, gate, edits, faults, lost>>

----------------------------------------------------------------------------
ScannerNext(W) ==
    \/ \E r \in Repos : Enqueue(r) \/ CreateSuppression(r) \/ RevokeSuppression(r)
    \/ \E r \in Repos, on \in BOOLEAN : UpdateImageSettings(r, on)
    \/ \E w \in W, ok \in BOOLEAN : Dequeue(w, ok)
    \/ \E w \in W : WorkerStep(w)
    \/ \E w \in W : CrashWorker(w)
    \/ Expire

GateNext ==
    \/ \E spec \in Specs, keep \in BOOLEAN : UpsertAdmissionPolicy(spec, keep)
    \/ \E p \in ImagePulls, dry, signed \in BOOLEAN, fails \in {"nothing", "policies", "report"} :
          FetchScan(p, dry, fails, signed)
    \/ \E p \in ImagePulls : Evaluate(p)
    \/ \E p \in ImagePulls : PullEnds(p)
    \/ Tick

ScanNext == ScannerNext(Workers) \/ GateNext

(* Tokio polls every task that is ready, and time passes.                     *)
ScanFairness ==
    /\ \A w \in Workers : WF_scanVars(WorkerStep(w))
    /\ \A p \in ImagePulls : WF_scanVars(Evaluate(p)) /\ WF_scanVars(PullEnds(p))
    /\ WF_scanVars(Tick)

ScanSpec == ScanInit /\ [][ScanNext]_scanVars /\ ScanFairness

----------------------------------------------------------------------------
Has(w, j) == worker[w] # Idle /\ worker[w].job = j

(* A job is run by one worker, a row that says in_progress is in the hands of *)
(* one or has been lost, and a row that says completed has its counts,        *)
(* whichever writes failed and whether it came from the pipeline or from an   *)
(* earlier report.                                                            *)
RowsAreAccounted ==
    \A j \in Jobs :
        /\ \A w, x \in Workers : Has(w, j) /\ Has(x, j) => w = x
        /\ scans[j].status = "in_progress" => j \in lost \/ \E w \in Workers : Has(w, j)
        /\ scans[j].status = "completed" => scans[j].count # NoResult

(* A job a worker took off the queue is recorded as completed or failed,      *)
(* unless its repository is not scanned, a write of its row failed or its     *)
(* worker died.                                                               *)
JobsConclude ==
    \A j \in Jobs : (\E w \in Workers : Has(w, j))
                    ~> (scans[j].status \in {"completed", "failed"} \/ j \in lost)

Blocking ==
    /\ redis # NoResult
    /\ redis.status = "completed"
    /\ EvaluateOne(policy.spec, redis, TRUE) = "block"

(* While Redis goes on holding a report the policy in force blocks, pulls     *)
(* that the decision cache still admits run out: an allow cached from before  *)
(* the report (from an unfinished scan, an older policy, a failed read of the *)
(* report) is not renewed.  A block for want of a signature is left out:      *)
(* admit_test takes every image for signed and caches what it finds under the *)
(* pulls' key, so it can renew an allow.                                      *)
StaleAllowExpires ==
    <>[]Blocking => <>[](\A p \in ImagePulls : gate[p].pc # "admitted")
=============================================================================
