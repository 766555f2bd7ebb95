------------------------------ MODULE LazyJobs ------------------------------
(***************************************************************************)
(* The lazy-pull queue of specton-lazy: every push of a layer inserts a    *)
(* job of its own, claimed by the workers of all replicas, that ends with  *)
(* the layer's index row and referrer or, after max_attempts, in failure.  *)
(***************************************************************************)
EXTENDS Naturals

CONSTANTS
    LazyRows,       \* the ids of the jobs: a new uuid at every push
    LayerOf,        \* the layer and format each of them is for
    LazyWorkers,
    Shape,          \* what a job is like, see Shapes
    MaxAttempts,    \* WorkerConfig.max_attempts
    NoJob,
    MaxLazyFaults   \* workers that die or lose the database within a job

\* a job to be indexed, one whose layer the store does not have, one for a format without
\* an indexer, one without the path of its repository, one whose format does not parse
Shapes == {"plain", "layerless", "unindexed", "pathless", "unparsed"}

ASSUME LazyAssumption ==
    /\ Shape \in [LazyRows -> Shapes]
    /\ MaxAttempts \in Nat \ {0} /\ MaxLazyFaults \in Nat
    /\ NoJob \notin LazyRows /\ DOMAIN LayerOf = LazyRows

VARIABLES
    job,        \* the lazy_jobs row: status and attempts
    holds,      \* the job each worker runs
    indexed,    \* layers with a lazy_index row
    referrers,  \* layers with a TOC in the referrers table
    orphaned,   \* history: jobs whose worker went away
    lazyFaults

lazyVars == <<job, holds, indexed, referrers, orphaned, lazyFaults>>

LazyInit ==
    /\ job = [j \in LazyRows |-> [status |-> "none", attempts |-> 0]]
    /\ holds = [w \in LazyWorkers |-> NoJob]
    /\ indexed = {} /\ referrers = {}
    /\ orphaned = {}
    /\ lazyFaults = 0

\* A push of a layer that is indexed or queued already adds a row as well.
EnqueueLazy(j) ==
    /\ job[j].status = "none"
    /\ job' = [job EXCEPT ![j].status = "queued"]
    /\ UNCHANGED <<holds, indexed, referrers, orphaned, lazyFaults>>

\* the attempt is not counted
ClaimUncounted(w, j) ==
    /\ holds[w] = NoJob /\ job[j].status = "queued"
    /\ job' = [job EXCEPT ![j].status = "running"]
    /\ holds' = [holds EXCEPT ![w] = j]
    /\ UNCHANGED <<indexed, referrers, orphaned, lazyFaults>>

\* One statement: the oldest queued row nobody has locked becomes running.
Claim(w, j) ==
    /\ holds[w] = NoJob /\ job[j].status = "queued"
    /\ job' = [job EXCEPT ![j] = [status |-> "running", attempts |-> @.attempts + 1]]
    /\ holds' = [holds EXCEPT ![w] = j]
    /\ UNCHANGED <<indexed, referrers, orphaned, lazyFaults>>

\* What a job that cannot be indexed becomes: rejected jobs fail at once, the others
\* after max_attempts.  A format that does not parse leaves the row as it is.
Outcome(j) ==
    CASE Shape[j] = "unparsed" -> "running"
      [] Shape[j] \in {"unindexed", "pathless"} -> "failed"
      [] OTHER -> IF job[j].attempts >= MaxAttempts THEN "failed" ELSE "queued"

\* mark_failed, requeue
GiveUp(w, j) ==
    /\ holds[w] = j
    /\ job' = [job EXCEPT ![j].status = Outcome(j)]
    /\ holds' = [holds EXCEPT ![w] = NoJob]
    /\ UNCHANGED <<indexed, referrers, orphaned>>

\* the layer is fetched and the indexer of its format accepts it
Indexable(j) == Shape[j] = "plain"

CannotIndex(w, j) == ~Indexable(j) /\ GiveUp(w, j) /\ UNCHANGED lazyFaults

\* the TOC becomes a referrer of the layer
Register(j) == referrers' = referrers \cup {LayerOf[j]}

\* persist_success: the index row and the status in one transaction, then the referrer,
\* whose loss is only logged
PersistSuccess(w, j, registered) ==
    /\ holds[w] = j /\ Indexable(j)
    /\ indexed' = indexed \cup {LayerOf[j]}
    /\ job' = [job EXCEPT ![j].status = "done"]
    /\ IF registered THEN Register(j) ELSE UNCHANGED referrers
    /\ holds' = [holds EXCEPT ![w] = NoJob]
    /\ UNCHANGED orphaned

\* The worker dies, or the statement that would end the job fails.
LoseJob(w) ==
    /\ holds[w] # NoJob
    /\ orphaned' = orphaned \cup {holds[w]}
    /\ holds' = [holds EXCEPT ![w] = NoJob]
    /\ UNCHANGED <<job, indexed, referrers>>

LazyStep(w) ==
    \E j \in LazyRows :
        \/ Claim(w, j) \/ CannotIndex(w, j)
        \/ (PersistSuccess(w, j, TRUE) /\ UNCHANGED lazyFaults)

LazyFault(w) ==
    /\ lazyFaults < MaxLazyFaults
    /\ lazyFaults' = lazyFaults + 1
    /\ \/ LoseJob(w)
       \/ \E j \in LazyRows : (Indexable(j) /\ GiveUp(w, j)) \/ PersistSuccess(w, j, FALSE)

LazyNext ==
    \/ \E j \in LazyRows : EnqueueLazy(j)
    \/ \E w \in LazyWorkers : LazyStep(w) \/ LazyFault(w)

\* A worker looks for a job after every idle_sleep.
LazyFairness == \A w \in LazyWorkers : WF_lazyVars(LazyStep(w))

LazySpec == LazyInit /\ [][LazyNext]_lazyVars /\ LazyFairness
-----------------------------------------------------------------------------
(* Properties *)

OwnedOnce(j) ==
    /\ job[j].status = "running" =>
           j \in orphaned \/ Shape[j] = "unparsed" \/ \E w \in LazyWorkers : holds[w] = j
    /\ \A w, x \in LazyWorkers : holds[w] = j /\ holds[x] = j => w = x
    /\ job[j].attempts <= MaxAttempts

\* No job is left without an owner and none has two: a running row is in the hands of one
\* worker, or its worker went away, or its format does not parse, and requeue never lets it
\* be claimed more than max_attempts times.  A layer has its index row exactly when one of
\* the jobs its pushes inserted is done, however many there are and whatever the others
\* come to (persist_success).
LazyJobsAreOwned ==
    \A j \in LazyRows :
        /\ OwnedOnce(j)
        /\ LayerOf[j] \in indexed <=>
               \E i \in LazyRows : LayerOf[i] = LayerOf[j] /\ job[i].status = "done"

Ended(j) == job[j].status = "failed" \/ (job[j].status = "done" /\ LayerOf[j] \in indexed)

\* Every job ends, indexed or failed, however often its layer cannot be read, unless its
\* worker went away or its format does not parse: such a row stays running for good
\* (claim_and_run_one).
LazyJobsEnd ==
    <>[](\A j \in LazyRows :
            job[j].status # "none" => Ended(j) \/ j \in orphaned \/ Shape[j] = "unparsed")
=============================================================================
