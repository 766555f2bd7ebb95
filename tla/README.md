# SpectonCR: TLA+ models, checks and proofs

SpectonCR is a multi-tenant OCI container registry written in Rust: a workspace of
crates around `specton-registry`, an HTTP service over an object store (S3 or files),
Postgres and Redis, with an auth service, a scanner and a Kubernetes controller beside it.
This directory models the parts of it whose correctness depends on the order in which
concurrent steps happen and on which of them fail. TLC checks the models on small
instances; TLAPS proves the safety properties, apart from typing, for every value of the constants.

## 1. Inventory

| Component | State it keeps | Operations | Hard behaviour | What makes it correct |
|---|---|---|---|---|
| Manifest endpoints (`specton-registry`) | manifest and tag-link objects | PUT, DELETE by tag or digest | several store calls per request and no transaction | no tag points at a deleted manifest |
| Refcount tables (`specton-gc/refcount.rs`) | `manifest_blob_refs`, `blob_refcounts`, `blob_paths` | `add_refs`, `remove_refs` | READ COMMITTED transactions of several statements; failures are swallowed | counts equal edges |
| Continuous reaper (`specton-gc/reaper.rs`) | batch in memory, pause flag per pod | cycle, `reap_blob`, pause, resume | stale candidates, store deletes inside a transaction, crashes, several pods | deletes nothing referenced and, in the end, everything unreferenced |
| Reconciler (`specton-gc/reconciler.rs`) | `gc_drift` | dry run, apply | fixes from values read earlier | silent on clean tables, repairs drifted ones |
| Breaker and retry (`specton-resilience`) | breaker state, attempts | every store call | three lock acquisitions per call, late results | lets nobody in while open; recovers |
| Blob uploads and multipart writes | session object, blob object, parts | initiate, chunk, complete, abort | read-modify-write of one object; parts fail | stored bytes have the digest they are named by |
| Webhook notifier | bounded channel | notify, deliver | the handler waits for room | uploads are answered |
| TTL reaper (`specton-ephemeral`) | `tags` rows with `expires_at` | cycle, `reap_tag`, pause | row and link in different stores; a re-push and other replicas race it | keeps what was just pushed, removes what expired |
| Audit log (`specton-audit`) | hash-chained rows, checkpoints | append, verify, export | concurrent appends must chain; ids commit out of order | breaks have a cause; the export misses nothing else |
| Replication and failover (`specton-replication`) | bounded channel, breakers, health table | enqueue, deliver, apply, health check | drops, late attempts, half-applied events | regions converge, layers before manifests |
| Mirror (`specton-mirror`) | cached objects, index object, tokens | pull-through | concurrent misses, a push meanwhile, reads that fail | a push is not replaced; the index is complete |
| Auth (`specton-auth`) | users, groups, policies, key cache, login sessions | SCIM, login, token endpoints | three locks taken one after another; key rotation; repeated callbacks | roles follow groups, tokens follow their scope |
| Scanner and admission gate | queue, `scans` rows, Redis reports, decision cache | enqueue, scan, evaluate | a dequeued job exists only in its worker; stale verdicts | jobs conclude, stale verdicts run out |
| Vulnerability database (`specton-scanner/vulndb`, `matcher`) | advisories, `affected_ranges`, a cursor per feed | ingest OSV, NVD, GHSA; query a package | feeds change under their pages; a cursor is stored before the work is done; hand-written version orders | what a cursor is past is stored; a query reports what the advisory covers |
| Promotion and signing | two repositories' objects, signature rows | promote, upload a signature | a dozen calls without lock or rollback, DELETEs at both ends | links name what is stored |
| Auto rebuild (`specton-rebuild`) | daily ledger | trigger, emit, give back | midnight between increment and decrement; answers that are lost | at most the cap per day |
| Lifecycle operator (`specton-controller/operator`) | Deployments, Jobs, status | a pass of `reconcile` | a plan that is stale when it is applied; crashes between applies | auth moves before the registry; converges |
| Policy reconcilers (`specton-controller`) | statuses; specs held by services | a pass per object | pushes that time out and land late | services end in step |
| Lazy-pull indexer (`specton-lazy`) | `lazy_jobs`, index rows | claim, index, retry | workers that die | jobs end |
| Importer (`specton-import`) | report | list, copy | any call fails | a clean report means a complete copy |
| Cost telemetry (`specton-cost`) | staging, events, hourly and daily totals | record, drain, roll up | rollups of several replicas; window edges | recent totals converge |
| Operations assistant (`specton-pilot`) | turn, daily budget per replica | steps of a model, tool calls | concurrent turns share a budget | a replica's cap holds |
| Peer mesh, attestations, shared types, dashboards, `specton-ai` | | | | not modelled, see section 6 |

The registry's request handlers call the store through the breaker, the refcount hook, the
replication channel, the notifier and the audit log in that order; the reapers, the
scanner, the indexer and the rollups work from Postgres and share nothing else with them.
The controller reaches the other services over HTTP only. `PROJECT.json` lists every
component with its files and status, and under `hazards` what is hard to test, each at its
line.

## 2. Modules

| Module | Models | Extends / instantiates |
|---|---|---|
| `ManifestStore`, `TagSafety` | manifest handlers, one action per store call; the histories that promises about tags need | `TagSafety` extends `ManifestStore` |
| `BlobRefs` | abstract specification of the refcount tables: one action per committed transaction | |
| `OnlineGC` | the handlers with `PgBlobRefCounter` statement by statement, blob objects, reapers | extends `ManifestStore`, instantiates `BlobRefs` as its abstraction |
| `Reconciler` | `Reconciler::reconcile` beside committed transactions | extends `BlobRefs` |
| `ResilientStore` | `call_classified`, `execute_labeled`, the classification in `ResilientObjectStore` | |
| `AuditChain` | `record`, both sinks, `verify_chain`, exporters | |
| `Regions`, `Mirror` | replication and failover; the pull-through mirror | |
| `Provisioning`, `Identity`, `TokenScopes` | SCIM and roles; key cache and login sessions; a token from issue to use | |
| `ScanGate`, `Promotion`, `Rebuild` | scanner with the admission gate; promotion with signatures; rebuild events | |
| `VulnIngest` | the ingesters and their cursors | |
| `VersionMatch`, `VersionOrder` | advisories as rows and the query over them, for any comparator; the comparators of deb, rpm, apk and pypi | `VersionOrder` extends `VersionMatch` |
| `OrderedRollout` | abstract specification of an upgrade: when the registry may move | |
| `Operator` | passes of `reconcile` call by call against a cluster | instantiates `OrderedRollout` with a refinement mapping |
| `PolicySync` | the seven other reconcilers | |
| `Uploads`, `Expiry`, `LazyJobs`, `Importer`, `Usage`, `Pilot` | one component each | |
| `MCOnlineGC`, `MCReconciler` | the manifests' layers for TLC | |
| `MCTags`, `MCRegions`, `MCAuth`, `MCSupply`, `MCController`, `MCPlatform` | several components that share no state: a behaviour picks one part in its initial state and runs it, the others stand still | extend their components |
| `BlobRefs_proofs`, `ManifestStore_proofs`, `OnlineGC_proofs`, `TagSafety_proofs`, `Reconciler_proofs` | lemmas and theorems about the module of the same name | extend it and `TLAPS` |
| `Services_proofs` | proofs about `Promotion`, `Rebuild`, `TokenScopes`, `Provisioning`, `AuditChain`, `VulnIngest` and `VersionMatch` | extends them and `TLAPS` |
| `Platform_proofs` | proofs about `ResilientStore`, `Uploads`, `Expiry`, `Importer`, `Pilot`, `Mirror`, `LazyJobs` and `ScanGate` | extends them and `TLAPS` |
| `Fleet_proofs` | proofs about `Regions` and `Operator` | extends them and `TLAPS` |

### State and actions

**ManifestStore.** `manifests` and `tagLink` are the objects at `manifest_path` and
`tag_link_path`; `req` is the program counter and the locals of each running handler.
PUT is `PutManifest`, `PutTag`, then the refcount hook. DELETE by digest is
`DeleteByDigest`, `ListTags`, per tag `ReadLink` and `DeleteLink`, then `EndScan`.
`Abandon` ends a request between two store calls.

**OnlineGC.** `edges`, `refcount`, `zeroed`, `paths` are the committed rows; `tx` is each
request's transaction, private until commit. A statement waits for a row another
transaction wrote, as Postgres does. `zeroed_at` is null, inside the grace period, or past
it. `RefsFail` is a failed statement or the victim of a deadlock: the handler logs it and
reports success.

**Reconciler.** One query reads the counts (`BeginPass`); drifted rows are then recorded
and corrected by separate statements from the values read. Drift comes from `Surgery`, the
"manual operator surgery" the file's header names.

**ResilientStore.** `Check` is the read lock, `Admit` the first write lock, `Attempt` one
try, `Record` the second write lock. `cooled` says whether `open_duration` has passed.

**AuditChain.** An append is `SelectTip` (its snapshot), `LockTip` (the row lock it waits
for), `Insert` (draws the id), `Commit`. A hash is what it was computed from; `Stored` is
what the column keeps of an instant. Exporters read the tip, the rows one by one, write the
object and insert the checkpoint.

**Regions.** A handler writes its store (`UploadLayer`, `PushManifest`, `DeleteTag`,
`DeleteManifest`), then waits to `Enqueue`. The worker `Receive`s an event and for each
region `Skip`s, `Send`s or `Retry`s it; an attempt may be applied (`Apply`, `ApplyHalf`),
fail, or `TimeOut` and still arrive. Reads are functions of the state (`GetManifest`,
`HeadBlob`, `FailoverRead`). The regions start with the same content. An event is given up
when its retries are used up, its breaker is open, its client hangs up or its process stops,
and a push whose manifest is gone when its turn comes is skipped. `lost` records the first
kind, and a skipped push that would have moved a tag the other region has.
A local blob that cannot be read (`ReadFails`) fails the event without a retry.
**Mirror.** A pull misses locally, asks the upstreams in order, caches the object, links
the tag and saves the index, while clients push. A tag link the store fails to read is a miss
like an absent one; an index that cannot be read counts as empty (`LoadIndex`).

**Provisioning.** A SCIM request changes users or groups, then policies, under separate
locks; `req` holds it in between. `ResolveRole` is what a token gets. **Identity.** A call
validates with the cached key, fetches documents and stores them in separate steps while
the provider rotates. **TokenScopes.** The scope strings the token endpoints make and the
comparison `authorize` makes. In a docker scope the parser keeps what follows
`tenant/project/` as it is; `Rests` are the kinds of string that can be: a bare name, `*`, a
full path.

**ScanGate.** Worker steps are the calls of the worker, each of which may fail (`ok`);
`EvaluateOne` is a pull's decision with its cache, policies that require a signature included;
a report that cannot be fetched counts as none. **Promotion.** One action per object-store
call of `promote` and of a signature's upload, beside pushes, DELETEs (with their tag loop) and
reaps at the source and at the destination. `removed` and `unseen` record what a DELETE or the
reaper took and what a DELETE could not see. **Rebuild.** The ledger's statements with
the emitter's call between them, which may fail before or after the event was taken.
Subscriptions are edited meanwhile; a PUT with the id of a subscription changes its cap, and
one without it fails once the ledger has a row (the foreign keys of `0013_auto_rebuild.sql:29,42`).

**VulnIngest.** An OSV run is `CheckEtag` (or `SkipUnchanged`), `Download`, an `IngestEntry` per record and
`EndOsv`; NVD and GHSA runs take a page per step. `Publish` changes a feed under them. An
advisory's text is the time it was modified, so that a stored text can be compared with the
feed's. A failed final `update_cursor` is not told apart from a crash before it: both repeat
the work. **VersionMatch, VersionOrder.** The comparator and the
versions are constants of the first; the second gives them their values. There deb and rpm
versions are sequences of characters, and the comparators walk them as the code does; apk and
pypi versions are what their parsers return. An advisory grows by one OSV event at a time, or is
one of GHSA's constraints (of repeated bounds the last wins) or a list of versions; `Query` asks for every version of the ecosystem at once.

**Operator.** `Reconcile` is everything a pass reads and decides, `ApplyAuth`,
`ApplyRegistry` and `WriteStatus` its later API calls, `PassFails` its death in between.
Rollouts that finish or stall (`Stalls`), Jobs, edits, moved tags and deleted Deployments are the environment.
**PolicySync.** A pass reads, checks references, pushes, writes its status; a push
may be refused or go unanswered (`PushFails`), and one that timed out is applied later
(`LatePush`).

**Uploads.** A request reads the session, writes parts or one object, deletes the session,
notifies. **Expiry.** Pushes write link, then row; a reaper of any replica picks a batch of
candidates that nobody has locked, locks each and looks again, deletes link, then row.
`crossed` records the pushes whose link a reaper deleted while it held an older row, or that
overlapped another push of the tag. **LazyJobs.** A row per push, so a layer may have several
jobs. **Importer.** `Opaque` manifests are those `parse_descriptors` reads nothing from.
**Usage.** A rollup is its snapshot and two statements, each of which may fail. **Pilot.** Each
replica has its own tracker; a turn runs on one replica.

### Abstractions

One tenant: every key and WHERE clause starts with the tenant. `BlobsOf` is what
`extract_blob_digests` returns. References starting with `sha256-`, which PUT takes for a
tag and DELETE for a digest, are not in `Tags`. The two inserts of `add_refs` for one blob
are one step: they touch different tables and only the edge decides the count. HMAC,
SHA-256, signatures and password hashes are taken to work. Statistics, wording, payloads
and rate limits are left out. Time is a tick that saturates at the limits the code compares
with, or a flag that says whether a duration has passed. Kubernetes, Postgres, Redis, the
identity provider, upstream registries and the language model are environments modelled
from how the code uses them. `AuditChain`'s restart keeps what was exported, as an object store
does; the `MemoryDestination` of `main.rs:6213` would lose it with the process. The HTTP client
of the auth service has no timeout (`main.rs:121` there): that its calls end is assumed, not
shown. A variable called history or ghost is read by properties only.

## 3. Runs

| Run | Instance | Shows |
|---|---|---|
| `tags` | 1 repository, 2 manifests, 2 tags, 2 requests, cut short anywhere; or 1 promoter, 1 signer, an image and an index, 3 pushes, DELETEs and reaps at both ends, 1 failed call | `TagsAreExplained`, `PromotedIsComplete` |
| `gc` | 2 manifests sharing 1 blob, 2 requests, 1 reaper, 1 failed reap or crash | `ImplementsBlobRefs`, `ReaperSparesReferenced`, `UnreferencedIsReaped` |
| `gc_repos_claim` | 2 repositories, 1 manifest, 1 request, no faults | `ReaperSparesStoredManifests` is violated |
| `reconcile` | 2 manifests sharing a blob, one blob more, one surgery to 0..3 or no row | `NoDriftWithoutSurgery`, `QuietPassRepairs` |
| `audit` | 2 appenders, 1 exporter, 3 rows, 2 keys, both backends, 1 fault | `BreaksAreExplained`, `OnlyLateRowsAreSkipped`, `ExportCatchesUp` |
| `regions` | 2 regions, empty or with one tagged image, channel of 1, 2 manifests, 3 writes, 1 fault; or 2 upstreams, 2 pulls, 1 change or failed call | `RegionsConverge`, `LayersArriveFirst`, `HandlersReturn`, `PushOutlivesMirror`, `IndexIsComplete` |
| `regions_claim` | the same | `HealthyRegionsServe` is violated |
| `auth` | 1 subject, 2 groups, 2 requests; or 2 callers, 2 callbacks, 2 rotations, an outage, a restart; or 1 token over 2 repositories | `RoleIsJustified`, `PoliciesMatchGroups`, `ScopedUse`, `KeysAreLearned` |
| `supply` | 2 workers, 2 jobs; or 1 worker, 1 pull, 2 policies; or 2 triggers over 2 days, caps of 0 and 2, an edit; or 2 advisories, pages of 1, 2 changes of a feed, a scheduled and a requested run; 1 fault each; or advisories of up to 3 events over the versions of an ecosystem | `SentWithinCap`, `GapsAreExplained`, `ReportsAffected`, `BetweenIsReported`, `JobsConclude`, `StaleAllowExpires` |
| `controller` | 2 tags, 2 digests, 3 events; or a tenant, an object that names it and one with a Secret, 1 timeout | `ImplementsOrderedRollout`, `UpgradeIsBackedUp`, `OperatorConverges`, `SyncConverges`, `StatusSettles` |
| `platform` | 5 upload requests; pushes of 2 tags and 2 reapers with batches of 1; 5 jobs and 2 workers; 2 imports; 2 rollers; 2 turns on 2 replicas; 2 callers of the breaker | `BlobsAreWhole`, `UploadsAnswered`, `LivePushKeepsLink`, `ExpiredIsReaped`, `LazyJobsEnd`, `ImportReportsGaps`, `RecentHoursConverge`, `SpendCapped`, `OpenLetsNobodyIn`, `RecoversWhenHealthy` |
| `ranges_claim` | 1 advisory of OSV and GHSA, 2 changes, no faults | `RangesSurviveOtherFeeds` is violated |

**What the properties say.** Each stands with a comment in its module. Several name the
exact scope of a promise: `TagsAreExplained`, `PromotedIsComplete`, `BreaksAreExplained`,
`OnlyLateRowsAreSkipped`, `RegionsConverge`, `IndexIsComplete`, `PoliciesMatchGroups`,
`UpgradeIsBackedUp`, `SentWithinCap`, `LivePushKeepsLink`, `ImportReportsGaps`,
`PushOutlivesMirror`, `JobsConclude`, `LazyJobsEnd`, `GapsAreExplained`, `BetweenIsReported`.
History variables record the event that excuses the promise (an overlap, a loss, a crash),
and the property says that nothing else breaks it.

**Why the bounds are enough.** A race over a tag needs one PUT and one DELETE; the second
tag and manifest make the loop take more than one turn and let a tag move. Counts above one
need two manifests on one blob; every conflict over a refcount row needs two transactions
and the reaper. Two appends fork the chain, a third row comes after the fork. One slot in a
channel is the smallest that fills, with three writes to fill it; starting from a tagged
image, upload, push and delete of another are enough for a skipped event. Two rotations let a slow
refresh store the key before last. Two workers can claim at once, two triggers race for the
last slot, two days have a midnight between them, two replicas keep two trackers, and a reaper with
batches of one must come back for the second tag. Three pushes fill both ends of a promotion
and leave one to overwrite. Two advisories on pages of one make a page
fail, or a feed change, between them. The versions of `MCSupply` hold each rule of their
comparator (tilde, caret, epoch, leading zeros, letters against digits, missing parts, one
that does not parse), and three events reopen a range that was closed. Three events of the
operator's environment are an edit, a move back and a failure. In `platform` the chunks,
parts and attempts each exceed their threshold by one. What is proved (section 5) does not
rest on the bounds. In `gc` there is one blob, so two transactions cannot deadlock there;
the proofs hold for any number of blobs.

**Deadlock** is checked where a system never stops. It is off in runs with bounded events,
which may simply be used up.

## 4. Fairness

Nothing obliges a request to arrive, a person to act, a backend to recover or a fault to
happen, with the exceptions named here.

| Module | Assumed | Why the code justifies it |
|---|---|---|
| `ManifestStore`, `OnlineGC` | weak, of handlers, transactions, reapers and the grace period | the runtime polls ready tasks, store calls end |
| `AuditChain` | weak, of the exporter and of appends; strong, of inserting a checkpoint | the loop runs on an interval; Postgres grants row locks in order of arrival |
| `Regions` | weak, of delivery and health checks; strong, of a waiting `Enqueue` | attempts have a timeout; the channel serves waiters in order |
| `Identity` | weak, of callers, time and the provider's return | `KeysAreLearned` is about a provider that comes back |
| `ScanGate` | weak, of workers, pulls and time | workers loop |
| `Operator` | weak, of passes, Jobs, rollouts and the interval | every pass requeues; Kubernetes acts on its objects |
| `PolicySync` | weak, of passes and of late pushes | every pass requeues; a request in flight ends |
| `Uploads` | weak, of handlers that were started and of the notifier | requests to endpoints have a timeout |
| `Expiry`, `LazyJobs`, `Usage` | weak, of the reaper, the workers, the drainer and the rollups | loops on an interval |
| `ResilientStore` | weak, of callers and of the cool-down | store calls end, clocks run |

`UnreferencedIsReaped` excuses a pause and a row that requests keep locked (the candidate
query skips locked rows). `RecoversWhenHealthy` assumes that calls complete, that the
backend stays up and that no delete is in flight, since deletes of absent objects count as
failures. Nothing is assumed of `Provisioning`, `TokenScopes`, `Mirror`, `Promotion`,
`Rebuild`, `Importer`, `Pilot`, `VulnIngest` and `VersionMatch`: their properties are safety.

### Disagreements between code and documents

`PROJECT.json` quotes each one with its lines.

* Three claims are violated outright. `gc_repos_claim`: edges are keyed by tenant and
  digest, deletes are per repository, so a manifest pushed to two repositories and deleted
  from one loses its blobs in the other. `regions_claim`: a failover read carries no token
  and gets a 401. `ranges_claim`: OSV and GHSA store an advisory under one id and each
  deletes the other's ranges.
* In the others a passing property states what does hold, with the exception in it.
  Manifests: a PUT may link its tag after the DELETE listed the tags, or while a DELETE of
  another digest is about to delete the link it replaces, and loses it; the manifest is stored
  before `add_refs` commits. Reconciler: a count below its edges is never reported.
  Breaker: a NotFound of a delete counts as a failure. Audit: the lock on the tip does not
  serialise appends; nanoseconds are hashed and microseconds stored; late ids are skipped by
  the export. Replication: SemiSync waits for no acknowledgement; a push
  that is deleted before its turn is skipped, and if it moved a tag the other region keeps the
  old target. Mirror: the
  `ManifestLinked` scope finds no layer; a failed read of a tag link is taken for a miss, and the
  upstream's manifest linked over a pushed tag. Auth: a docker scope keeps only the
  rest after `tenant/project/`, so that a bare name opens nothing. Promotion: the children of an
  index come without their layers; a DELETE at the destination between the copy and the link
  leaves a link to nothing. Rebuild: an error may follow a delivery, and its slot is given back.
  Ephemeral tags: a reaper that holds the expired row deletes the link of a push that waits for
  it. Assistant: every replica has a budget of its own. Operator: under
  auto-update an earlier backup Job is taken for a new one. Importer: a manifest is pushed
  although a blob is missing, and one that does not parse without any blob and without a failure. Telemetry: an hour the edge of the rollup's window cuts is
  overwritten by its later part. Ingest: OSV's ETag is stored before the entries and its lock
  is dropped before the work. Matching: a version that does not parse is reported by an open
  range from "0"; a range that a `limit` closes gets no row; rpm's order is not
  transitive where a separator stands at the end or before a marker.

## 5. Proofs

The theorems hold for every value of the constants under the named assumptions of the
modules. Those type the constants and keep `Absent`, `None` and the like apart from real
values. A few say more, and each is a fact about the deployment: there is a region besides
the primary (`RegionsAssumption`), a mirror has an upstream (`MirrorAssumption`), an import
selects finitely many repositories (`ImportAssumption`), triggers are finitely many
(`RebuildAssumption`), the group mappings are a list (`MappingsAssumption`), a feed has
finitely many advisories (`IngestAssumption`), a comparator fails exactly when it cannot parse
one side (`MatchAssumption`), which TLC evaluates for those of `VersionOrder`.

None of the properties is inductive alone. What follows says, for each theorem, what had to
be added.

* `BlobRefs_proofs!TablesConsistent`: counts equal edges, and a row has a `zeroed_at`
  exactly when its count is zero. Invariant `RefInv`: types, finitely many referrers per
  blob (so that adding or removing one changes the cardinality by one), and the two
  properties. Removing an edge needs a positive count, which is the first; `Reap` needs an
  empty set of referrers, which is the first at zero.
* `OnlineGC_proofs`. `GCInv` adds to the types what ties a transaction to its request and
  its locks: an open transaction belongs to a handler at its refcount hook and holds only
  rows it wrote, the edges it means to insert are absent and those it means to delete
  present, no two transactions hold the same row or write the same edge, and a reaper that
  deletes holds, alone, a row whose count is zero. From it `TypeCorrect`; `RefinesBlobRefs`
  (every step is one committed transaction of `BlobRefs` or leaves the tables alone);
  `CountsExact`, through the refinement; `ReaperIsSafe`.
* `Reconciler_proofs`. `ReconcileIsQuiet`: `RefInv` holds as long as no surgery happened, so
  the query returns no drifted row and no pass records or corrects anything.
  `QuietPassesRepair`: over tables of any content, `RepairInv` says that the rows a quiet
  pass still has to correct carry an expected count that is right and a row that still
  exists, and that all others are repaired.
* `TagSafety_proofs!TagsSafe`: the invariant adds that a PUT past its first call still has
  its manifest in the store or overlapped a DELETE of it (`PutsStored`), and that no request is
  left that could change the link of a settled tag (`SettledAlone`): those that name it are
  excluded by the history, and a tag loop enters its window only where it reads its own digest.
* `Services_proofs`.
  * `PromotionComplete`: `PromInv` says what each promoter and each upload has stored for
    every place its request can be at. Repositories shrink, so it speaks of what is stored or
    was removed, which together only grow, and links lead there too.
  * `CapHolds`: `RebInv` says that the ledger of a day covers the events taken and the slots
    that firings hold, except for what was given back to another day or after a delivery, and
    that what was taken stays within the highest cap the day has seen.
  * `TokensStayScoped`: every scope of the token in use opens nothing its first request did
    not ask for, as a full path, as `*` or as the rest of a docker scope.
  * `PoliciesFollowGroups` and `RolesJustified`, both from `ProvInv`: groups and policies,
    stored or carried by a request, come from groups named for the subject; a request that
    met no other is the only one at work on its subject and will write what the record calls
    for.
  * `ChainBreaksExplained`: while no append committed inside another's window, every open
    append still sees the tip it selected, below the id it drew (`AuditInv`).
    `SkippedRowsAreLate`: behind every exporter, at each place of its loop, a row is
    exported, late or in the exporter's hands (`ExportInv`).
  * `IngestGapsExplained`: nothing is later than the clock; what is below a cursor is taken in
    or among the recorded losses; a run has what its pages are past, or has yet to read it,
    stated by the rank of an advisory in the results so that no page is a sequence; once an
    ETag is known, every entry is taken in or owed by a run (`IngestInv`).
  * `QueriesReportAffected`: `MatchInv` says that the events stand in ascending order, that
    the walk's rows are one per closed pair and that an answer is that of the rows. In an
    ascending sequence the events a version reaches are a prefix, so the last of them decides.
    It holds for any comparator and any number of events.
  * `RowsHaveNoHoles` has a hypothesis, `FirmIsOrdered`: the comparators are total orders up to
    equality on the firm versions that parse. The comparators are recursive, so this half of
    `BetweenIsReported` is TLC's, on the versions of `MCSupply`; the theorem says that
    `in_range` needs no more.
* `Platform_proofs`.
  * `BreakerTyped`, `OpenIsClosedToNewCalls`: the breaker.
  * `UploadsStayWhole`: a request that writes the blob carries all of it, and only requests
    behind such a write delete the session (`UploadInv`).
  * `LivePushesKeepLinks`, an action property: while a push owns its link nobody else is
    about to write its row, its link is there from its write on unless a reaper crossed it, the
    row is there when the push is done, one reaper at most holds a row, and it saw it expired
    (`TtlInv`).
  * `GapsAreReported`: the repositories that can no longer become complete in this run are
    no more than the failures counted (`ImportInv`); the count is of repositories, since one
    failed `list_tags` leaves all tags of one.
  * `SpendStaysCapped`: the bucket of a tenant on a replica accounts for its day, earlier days are closed, later ones
    were charged only by trackers a restart has forgotten (`PilotInv`).
  * `PushesOutliveMirror`, `IndexCompletes`: after a push that met no fetch and no
    failed read of its link only layers are fetched; one request at a time saves the index, from
    the index as it is, while no read of it failed (`MirrorInv`).
  * `LazyJobsOwned`: a worker's job is running and the worker's alone, and a job that waits has
    an attempt left; an indexed layer has a done job among its rows, and the layer of a done job
    is indexed (`LazyInv`). `ScanRowsAccounted`: jobs wait in the order of their numbers, so
    that none is dequeued twice; no worker has a job that waits or that another has; each place
    of a worker's loop says how far its row is (`ScanInv`). The two theorems are about every
    state on the way to what the liveness properties `LazyJobsEnd` and `JobsConclude` promise.
* `Fleet_proofs`, replication. `RegionInv`: unless an event was lost or writes overlapped,
  one region leads, the others have nothing under way, and what each of them has not got
  yet, applied in order, makes its store that of the leader. "Applied in order" is a path: a
  sequence of stores, one per event, whose existence is claimed, so no recursion is needed.
  Receiving takes the first step of the path, applying an event twice is applying it once
  (`EffectTwice`), and a skipped push changes nothing at the end, because the delete that made
  it void is still to come (`SkipPath`). That last lemma is what a tag moved by the skipped
  push refutes; the finding in section 4 came from this proof. For layers, the event of a
  layer is ahead of every manifest that needs it. `RegionsEndEqual` and
  `LayersPrecedeManifests` follow.
* `Fleet_proofs`, operator. A pass plans from Deployments it read and applies auth and the
  registry later, so the plan may be stale; that an existing registry never moves before
  auth is not inductive. `PlanStaysSafe` says, of the pass in flight, what the plan relied
  on and what still holds of it: where it is about to move the registry, every auth pod
  that can exist runs the planned image. The environment only removes pods or a Deployment,
  and only a pass moves an image, which is why it survives (`PlanIsSafe` for the decision,
  one lemma per action for the rest). `PlansStaySafe` proves it for ever,
  `RefinesOrderedRollout` derives that every step is a step of `OrderedRollout` or leaves
  it alone, for any tags, digests and number of events. `UpgradesBackedUp`, an action
  property, needs `BackupInv` besides: no Job of the present generation exists while a pass
  of an earlier one is under way, and without auto-update a generation has one target, so
  that a Job which is no longer fresh has auth where it leads.

**Only model-checked**: all liveness, which the prover does not handle; that the recursive
comparators of `VersionOrder` are orders, since the prover handles no recursive operator; and
the type invariants of the modules whose theorems need only part of them. `FirmIsOrdered` says
nothing of versions outside `MCSupply`.

## 6. Not modelled, and known gaps

Not modelled: the peer mesh (network I/O around a local cache, not on a write path),
attestations and artifact types (parsing and cryptography), shared types, configuration and
migrations, the dashboards, the deployment files and the OpsAPI extension, `specton-ai`
(prompts and parsing). Robot accounts, the Vault client, catalog paging of import adapters,
package extraction, severities, the
semver crate behind npm, cargo and go, and report formats are left out of modelled components.

Gaps inside modelled code:

* `add_refs` may count a blob whose `blob_paths` row the reaper deletes
  (`refcount.rs:101`); `paths` is not kept apart from objects finely enough to say so.
* The reaper's second look reads the count and not `zeroed_at` (`reaper.rs:247`), so a blob
  released again loses its grace period.
* The status written by `policies.rs:440` stamps the time of each pass; `StatusSettles` is
  about `tenancy.rs` only.
* A push without a TTL leaves the old `expires_at` in place (`main.rs:1166`);
  `LivePushKeepsLink` is about pushes with one.
* `RecentHoursConverge` says that the totals stay once the clock has stopped; while it runs, the
  edge of the window moves on and cuts an hour.
* Nothing adds up the trackers of the replicas, so there is no bound on a tenant's spend but
  the sum of theirs.
* NVD's metadata-only write replaces the aliases OSV or GHSA stored (`writer.rs:154`), and an
  advisory that lists `versions` without ranges is stored as upper bounds, so every lower
  version is reported (`normalise.rs:201`). Aliases are not in the model; `ReportsAffected` is
  about advisories with ranges.
* Nothing keeps a browser callback from being repeated but the removal of its session; the
  step is in `Identity`, no property is about it.
* Components that share no state are run side by side, not composed. `Expiry` and `Promotion`
  have their own copies of the links and objects `ManifestStore` has.

What is left to do: properties for the gaps above, full type invariants where theorems need
only part of them, and a run of `OnlineGC` over two shared blobs, which its proofs cover and
its run does not.
