------------------------------- MODULE Regions -------------------------------
(***************************************************************************)
(* Multi-region replication of one repository with one tag, and failover   *)
(* reads: the request handlers that enqueue an event after their store     *)
(* write, the Replicator's worker with its breaker and retries, the        *)
(* /internal/replicate handlers of the other regions, and the             *)
(* FailoverManager's health checks.                                        *)
(*                                                                         *)
(* A manifest and its only layer share one name.  SemiSync has no effect   *)
(* in the code: enqueue waits for room in the channel and for nothing      *)
(* else, whatever the mode.  Persisted events are never read again, so     *)
(* persist_event changes nothing here.                                     *)
(***************************************************************************)
EXTENDS Integers, Sequences, FiniteSets

CONSTANTS Region,        \* configured regions
          Primary,       \* the one with is_primary
          Writers,       \* regions whose clients write
          Manifest,      \* manifest digests, each with one layer
          NoTag,         \* the tag does not exist
          Capacity,      \* of the event channel (1000)
          Retries,       \* RetryPolicy.max_retries (3)
          Threshold,     \* failure_threshold of breaker and health check (3)
          MaxWrites,     \* bound: client writes
          MaxFaults      \* bound: timeouts, failed attempts, outages, restarts

ASSUME RegionsAssumption ==
    /\ Primary \in Region /\ Region # {Primary}
    /\ Writers \subseteq Region /\ NoTag \notin Manifest
    /\ {Capacity, Threshold} \subseteq Nat \ {0}
    /\ {Retries, MaxWrites, MaxFaults} \subseteq Nat

VARIABLES mans, layers,  \* manifests and layers in each region's store
          tag,           \* the tag link of each region
          pending,       \* events of handlers that wrote and wait to enqueue
          queue,         \* the event channel
          worker,        \* where each region's replication loop is
          net,           \* attempts on their way
          breaker,       \* circuit breaker of each region for each other one
          up,            \* whether a region answers
          health,        \* FailoverManager.health_status of each region
          writes, faults,
          lost,          \* history: an event was not applied in some region
          raced,         \* history: a write overlapped another one
          late           \* history: an attempt was applied after it was given up

stores == <<mans, layers, tag>>
regionVars == <<mans, layers, tag, pending, queue, worker, net, breaker, up, health,
          writes, faults, lost, raced, late>>

Kinds == {"blob", "manifest", "delete"}
\* ReplicationEvent; ref says whether the reference is the tag.
Event(kind, m, ref) == [kind |-> kind, m |-> m, ref |-> ref]
IdleLoop == [pc |-> "idle", ev |-> Event("blob", NoTag, FALSE), todo |-> {}, tries |-> 0]
Closed == [st |-> "closed", n |-> 0]

\* The regions hold the same when the replicators start.
RegionInit ==
    /\ \E held \in SUBSET Manifest : \E t \in held \cup {NoTag} :
          /\ mans = [r \in Region |-> held] /\ layers = [r \in Region |-> held]
          /\ tag = [r \in Region |-> t]
    /\ pending = [r \in Region |-> {}] /\ queue = [r \in Region |-> <<>>]
    /\ worker = [r \in Region |-> IdleLoop] /\ net = {}
    /\ breaker = [r \in Region |-> [s \in Region \ {r} |-> Closed]]
    /\ up = [r \in Region |-> TRUE]
    /\ health = [r \in Region |-> [s \in Region \ {r} |-> [healthy |-> TRUE, n |-> 0]]]
    /\ writes = 0 /\ faults = 0
    /\ lost = FALSE /\ raced = FALSE /\ late = FALSE

Fault == faults < MaxFaults /\ faults' = faults + 1

\* Nothing of region r is still to be applied elsewhere.
Drained(r) ==
    /\ pending[r] = {} /\ queue[r] = <<>> /\ worker[r] = IdleLoop
    /\ \A msg \in net : msg.from # r
Quiet == \A r \in Region : Drained(r)

(***************************************************************************)
(* Handlers: the store write, then enqueue, which waits for a free slot.   *)
(***************************************************************************)
Write(r, ev) ==
    /\ r \in Writers /\ up[r] /\ writes < MaxWrites /\ writes' = writes + 1
    /\ ev \notin pending[r]
    /\ pending' = [pending EXCEPT ![r] = @ \cup {ev}]
    /\ raced' = (raced \/ pending[r] # {} \/ \E s \in Region \ {r} : ~Drained(s))
    /\ UNCHANGED <<queue, worker, net, breaker, up, health, faults, lost, late>>

\* complete_blob_upload
UploadLayer(r, m) ==
    /\ m \notin layers[r]
    /\ layers' = [layers EXCEPT ![r] = @ \cup {m}]
    /\ Write(r, Event("blob", m, FALSE))
    /\ UNCHANGED <<mans, tag>>

\* put_manifest: a client uploads the layers first.
PushManifest(r, m, ref) ==
    /\ m \in layers[r]
    /\ mans' = [mans EXCEPT ![r] = @ \cup {m}]
    /\ tag' = IF ref THEN [tag EXCEPT ![r] = m] ELSE tag
    /\ Write(r, Event("manifest", m, ref))
    /\ UNCHANGED layers

\* delete_manifest by tag removes the link, by digest also every link to it.
DeleteTag(r) ==
    /\ tag[r] # NoTag
    /\ tag' = [tag EXCEPT ![r] = NoTag]
    /\ Write(r, Event("delete", tag[r], TRUE))
    /\ UNCHANGED <<mans, layers>>

Untagged(r, m) == IF tag[r] = m THEN [tag EXCEPT ![r] = NoTag] ELSE tag

DeleteManifest(r, m) ==
    /\ m \in mans[r]
    /\ mans' = [mans EXCEPT ![r] = @ \ {m}]
    /\ tag' = Untagged(r, m)
    /\ Write(r, Event("delete", m, FALSE))
    /\ UNCHANGED layers

\* Mutant: the newest event goes first.
EnqueueInFront(r, ev) ==
    /\ ev \in pending[r] /\ Len(queue[r]) < Capacity + 1
    /\ queue' = [queue EXCEPT ![r] = <<ev>> \o @]
    /\ pending' = [pending EXCEPT ![r] = @ \ {ev}]
    /\ UNCHANGED <<stores, worker, net, breaker, up, health, writes, faults, lost, raced, late>>

Enqueue(r, ev) ==
    /\ ev \in pending[r] /\ Len(queue[r]) < Capacity
    /\ queue' = [queue EXCEPT ![r] = Append(@, ev)]
    /\ pending' = [pending EXCEPT ![r] = @ \ {ev}]
    /\ UNCHANGED <<stores, worker, net, breaker, up, health, writes, faults, lost, raced, late>>

\* The client goes away while its handler waits: the event is never queued.
DropRequest(r, ev) ==
    /\ ev \in pending[r] /\ Fault
    /\ pending' = [pending EXCEPT ![r] = @ \ {ev}]
    /\ lost' = TRUE
    /\ UNCHANGED <<stores, queue, worker, net, breaker, up, health, writes, raced, late>>

(***************************************************************************)
(* Replicator::run.                                                        *)
(***************************************************************************)
Receive(r) ==
    /\ up[r] /\ worker[r].pc = "idle" /\ queue[r] # <<>>
    /\ worker' = [worker EXCEPT ![r] = [pc |-> "next", ev |-> Head(queue[r]),
                                        todo |-> Region \ {r}, tries |-> 0]]
    /\ queue' = [queue EXCEPT ![r] = Tail(@)]
    /\ UNCHANGED <<stores, pending, net, breaker, up, health, writes, faults, lost, raced, late>>

Target(r) == CHOOSE s \in worker[r].todo : TRUE

\* The loop is done with one region: Ok, or an error that is only logged.
Advance(r) ==
    LET rest == worker[r].todo \ {Target(r)}
    IN worker' = [worker EXCEPT ![r] = IF rest = {} THEN IdleLoop
                    ELSE [@ EXCEPT !.pc = "next", !.todo = rest, !.tries = 0]]

\* The content is read when its turn comes: a manifest deleted since is a
\* storage error, and so the event ends here.  The delete that follows makes up
\* for it, except that it leaves a link to another digest alone: the region
\* keeps the tag that the push would have moved.
Skip(r) ==
    LET w == worker[r]
    IN /\ up[r] /\ w.pc = "next" /\ w.ev.kind = "manifest" /\ w.ev.m \notin mans[r]
       /\ Advance(r)
       /\ lost' = (lost \/ (w.ev.ref /\ tag[Target(r)] \notin {NoTag, w.ev.m}))
       /\ UNCHANGED <<stores, pending, queue, net, breaker, up, health, writes, faults,
                      raced, late>>

HasContent(r) == worker[r].ev.kind = "manifest" => worker[r].ev.m \in mans[r]

\* The local store fails to read a manifest or a layer that is there: an error
\* that is logged, before the breaker and the retries, and the event is over.
ReadFails(r) ==
    /\ up[r] /\ worker[r].pc = "next" /\ worker[r].ev.kind # "delete" /\ HasContent(r)
    /\ Fault
    /\ Advance(r) /\ lost' = TRUE
    /\ UNCHANGED <<stores, pending, queue, net, breaker, up, health, writes, raced, late>>

\* CircuitBreaker::call admits the call unless it is open.
Send(r) ==
    LET w == worker[r]
        s == Target(r)
    IN /\ up[r] /\ \/ w.pc = "next" /\ HasContent(r)
                   \/ w.pc = "again"
       /\ IF w.pc = "next" /\ breaker[r][s].st = "open"
          THEN /\ Advance(r) /\ lost' = TRUE
               /\ UNCHANGED net
          ELSE /\ worker' = [worker EXCEPT ![r].pc = "sent"]
               /\ net' = net \cup {[from |-> r, to |-> s, ev |-> w.ev, try |-> w.tries]}
               /\ UNCHANGED lost
       /\ UNCHANGED <<stores, pending, queue, breaker, up, health, writes, faults, raced, late>>

\* record_success and record_failure of the breaker around all the attempts.
Succeeded(b) ==
    IF b.st = "half" /\ b.n = 0 THEN [b EXCEPT !.n = 1] ELSE Closed
Failed(b) ==
    IF b.st = "closed" /\ b.n + 1 < Threshold THEN [b EXCEPT !.n = @ + 1]
                                              ELSE [st |-> "open", n |-> 0]

\* Mutant: the event is tried until the region takes it.
RetryForever(r) ==
    worker' = [worker EXCEPT ![r].pc = "again"] /\ UNCHANGED <<breaker, lost>>

\* An attempt failed (timeout, refused, an error status): the policy retries.
Retry(r) ==
    LET w == worker[r]
        s == Target(r)
    IN IF w.tries < Retries
       THEN /\ worker' = [worker EXCEPT ![r].pc = "again", ![r].tries = @ + 1]
            /\ UNCHANGED <<breaker, lost>>
       ELSE /\ Advance(r)
            /\ breaker' = [breaker EXCEPT ![r][s] = Failed(@)]
            /\ lost' = TRUE

\* The attempt in flight is the worker's own, not one it has given up.
Awaited(msg) ==
    LET w == worker[msg.from]
    IN w.pc = "sent" /\ w.ev = msg.ev /\ w.tries = msg.try /\ Target(msg.from) = msg.to

\* The loop has left the attempt's event behind.
GivenUp(msg) ==
    LET w == worker[msg.from]
    IN w.pc = "idle" \/ w.ev # msg.ev \/ Target(msg.from) # msg.to

\* What the remote handlers do to the store.
ReplicateManifest(s, ev) ==
    /\ ev.kind = "manifest"
    /\ mans' = [mans EXCEPT ![s] = @ \cup {ev.m}]
    /\ tag' = IF ev.ref THEN [tag EXCEPT ![s] = ev.m] ELSE tag
    /\ UNCHANGED layers

ReplicateBlob(s, ev) ==
    /\ ev.kind = "blob"
    /\ layers' = [layers EXCEPT ![s] = @ \cup {ev.m}]
    /\ UNCHANGED <<mans, tag>>

\* Mutant: a replicated delete by digest leaves the tags.
ReplicateDeleteLeavesTags(s, ev) ==
    /\ ev.kind = "delete"
    /\ IF ev.ref THEN tag' = [tag EXCEPT ![s] = NoTag] /\ UNCHANGED mans
       ELSE mans' = [mans EXCEPT ![s] = @ \ {ev.m}] /\ UNCHANGED tag
    /\ UNCHANGED layers

ReplicateDelete(s, ev) ==
    /\ ev.kind = "delete"
    /\ IF ev.ref THEN tag' = [tag EXCEPT ![s] = NoTag] /\ UNCHANGED mans
       ELSE mans' = [mans EXCEPT ![s] = @ \ {ev.m}] /\ tag' = Untagged(s, ev.m)
    /\ UNCHANGED layers

\* The handler ran; its 200 is received if the worker still waits for it.
Apply(msg) ==
    LET r == msg.from
    IN /\ up[msg.to]
       /\ net' = net \ {msg}
       /\ \/ ReplicateManifest(msg.to, msg.ev)
          \/ ReplicateBlob(msg.to, msg.ev)
          \/ ReplicateDelete(msg.to, msg.ev)
       /\ IF Awaited(msg)
          THEN Advance(r) /\ breaker' = [breaker EXCEPT ![r][msg.to] = Succeeded(@)]
          ELSE UNCHANGED <<worker, breaker>>
       /\ late' = (late \/ GivenUp(msg))
       /\ UNCHANGED <<pending, queue, up, health, writes, faults, lost, raced>>

\* The manifest is stored and the link (or the audit row) is not.
ApplyHalf(msg) ==
    /\ up[msg.to] /\ msg.ev.kind = "manifest" /\ Awaited(msg) /\ Fault
    /\ mans' = [mans EXCEPT ![msg.to] = @ \cup {msg.ev.m}]
    /\ net' = net \ {msg}
    /\ Retry(msg.from)
    /\ UNCHANGED <<layers, tag, pending, queue, up, health, writes, raced, late>>

\* No answer in time, or none at all from a region that is down.  The attempt
\* is lost, or it is still on its way.
TimeOut(r, arrives) ==
    LET mine == {msg \in net : msg.from = r /\ Awaited(msg)}
    IN /\ worker[r].pc = "sent"
       /\ IF up[Target(r)] THEN Fault ELSE UNCHANGED faults
       /\ net' = IF arrives THEN net ELSE net \ mine
       /\ Retry(r)
       /\ UNCHANGED <<stores, pending, queue, up, health, writes, raced, late>>

\* open_duration_secs passed: half-open, the next call is a probe.
Cool(r, s) ==
    /\ breaker[r][s].st = "open"
    /\ breaker' = [breaker EXCEPT ![r][s] = [st |-> "half", n |-> 0]]
    /\ UNCHANGED <<stores, pending, queue, worker, net, up, health, writes, faults, lost,
                   raced, late>>

\* The process stops: the channel and the handlers go with it.
Stop(r) ==
    /\ up[r] /\ Fault
    /\ up' = [up EXCEPT ![r] = FALSE]
    /\ lost' = (lost \/ pending[r] # {} \/ queue[r] # <<>> \/ worker[r] # IdleLoop)
    /\ pending' = [pending EXCEPT ![r] = {}] /\ queue' = [queue EXCEPT ![r] = <<>>]
    /\ worker' = [worker EXCEPT ![r] = IdleLoop]
    /\ breaker' = [breaker EXCEPT ![r] = [s \in Region \ {r} |-> Closed]]
    /\ health' = [health EXCEPT ![r] =
                     [s \in Region \ {r} |-> [healthy |-> TRUE, n |-> 0]]]
    /\ UNCHANGED <<stores, net, writes, raced, late>>

Start(r) ==
    /\ ~up[r]
    /\ up' = [up EXCEPT ![r] = TRUE]
    /\ UNCHANGED <<stores, pending, queue, worker, net, breaker, health, writes, faults,
                   lost, raced, late>>

-----------------------------------------------------------------------------
\* FailoverManager

\* GET /health.  The count stops at the threshold: above it nothing changes.
\* The primary's table is left out: only the status page reads it.
CheckHealth(r, s) ==
    /\ up[r] /\ r # Primary
    /\ health' = [health EXCEPT ![r][s] =
          IF up[s] THEN [healthy |-> TRUE, n |-> 0]
          ELSE LET n == IF @.n < Threshold THEN @.n + 1 ELSE @.n
               IN [healthy |-> @.healthy /\ n < Threshold, n |-> n]]
    /\ UNCHANGED <<stores, pending, queue, worker, net, breaker, up, writes, faults, lost,
                   raced, late>>

\* next_healthy_region
NextHealthy(r) == {s \in Region \ {r} : health[r][s].healthy}

\* The answer of a region to a proxied read, which carries no Authorization
\* header: the extractor of every pull handler rejects it.
ProxyGet(s) == IF up[s] THEN 401 ELSE 0

\* failover_read: 2xx is content; anything else is a miss.
FailoverRead(r) ==
    IF r # Primary /\ NextHealthy(r) # {} /\ ProxyGet(CHOOSE s \in NextHealthy(r) : TRUE) = 200
    THEN 200 ELSE 404

\* get_manifest of a digest in a region without a mirror.
GetManifest(r, m) == IF m \in mans[r] THEN 200 ELSE FailoverRead(r)

\* get_blob, likewise.
GetBlob(r, m) == IF m \in layers[r] THEN 200 ELSE FailoverRead(r)

\* head_manifest and head_blob look at the local store alone.
HeadManifest(r, m) == IF m \in mans[r] THEN 200 ELSE 404
HeadBlob(r, m) == IF m \in layers[r] THEN 200 ELSE 404

\* resolve_manifest_path: a tag's digest, from its link.
Resolve(r) == IF tag[r] = NoTag THEN {} ELSE {tag[r]}

\* image_status: the manifest and everything it names are in the store.
Available(r, m) == HeadManifest(r, m) = 200 /\ HeadBlob(r, m) = 200

Deliver(r) ==
    \/ Receive(r) \/ Skip(r) \/ ReadFails(r) \/ Send(r)
    \/ \E msg \in net : msg.from = r /\ (Apply(msg) \/ ApplyHalf(msg))
    \/ \E arrives \in BOOLEAN : TimeOut(r, arrives)

RegionNext ==
    \/ \E r \in Region :
          \/ \E m \in Manifest :
                \/ UploadLayer(r, m) \/ DeleteManifest(r, m)
                \/ \E ref \in BOOLEAN : PushManifest(r, m, ref)
          \/ DeleteTag(r)
          \/ \E ev \in pending[r] : Enqueue(r, ev) \/ DropRequest(r, ev)
          \/ Receive(r) \/ Skip(r) \/ ReadFails(r) \/ Send(r)
          \/ \E arrives \in BOOLEAN : TimeOut(r, arrives)
          \/ Stop(r) \/ Start(r)
          \/ \E s \in Region \ {r} : Cool(r, s) \/ CheckHealth(r, s)
    \/ \E msg \in net : Apply(msg) \/ ApplyHalf(msg)

\* The worker's timeouts and retries are bounded, health checks repeat, and
\* the channel hands its free slots to the handlers in the order they wait.
RegionFairness ==
    \A r \in Region :
       /\ WF_regionVars(Deliver(r))
       /\ SF_regionVars(\E ev \in pending[r] : Enqueue(r, ev))
       /\ \A s \in Region \ {r} : WF_regionVars(CheckHealth(r, s))

RegionSpec == RegionInit /\ [][RegionNext]_regionVars /\ RegionFairness
-----------------------------------------------------------------------------
\* Every region's loop sends its events in the order they were queued, and an
\* event not sent because its manifest is gone is made up for by the delete
\* that follows: once nothing is under way, all regions hold the same, unless
\* an event was dropped (or was to move a tag and its manifest is gone), writes
\* overlapped, or an attempt arrived after its time.
RegionsConverge ==
    Quiet /\ ~lost /\ ~raced /\ ~late =>
        \A r, s \in Region : mans[r] = mans[s] /\ layers[r] = layers[s] /\ tag[r] = tag[s]

\* image_status says available for every manifest a region has: the layer's
\* event is ahead of the manifest's in the same queue, over every retry.
LayersArriveFirst ==
    \A r \in Region, m \in Manifest :
        HeadManifest(r, m) = 200 => Available(r, m) \/ lost \/ raced

\* A handler that waits for room in the channel gets it, however often the
\* other region fails: the worker never stays with an event.
HandlersReturn == \A r \in Region : []<>(pending[r] = {})

\* The README: when a region goes down, reads are served from healthy ones.
HealthyRegionsServe ==
    \A r \in Region \ {Primary} : \A s \in NextHealthy(r) :
        \A m \in (IF up[s] THEN mans[s] \cup Resolve(s) ELSE {}) :
            GetManifest(r, m) = 200 /\ (Available(s, m) => GetBlob(r, m) = 200)
=============================================================================
