------------------------------- MODULE OnlineGC -------------------------------
(***************************************************************************)
(* Online garbage collection: the manifest handlers of ManifestStore with  *)
(* the Postgres refcounter (PgBlobRefCounter), blob objects in the store,  *)
(* and the continuous reapers of one or more registry pods.                *)
(*                                                                         *)
(* Transactions run statement by statement under READ COMMITTED.  A        *)
(* transaction's writes are private until it commits, a row it wrote is    *)
(* locked until then, and a statement that meets a row another transaction *)
(* wrote waits for it.  The reaper holds the refcount row of its candidate *)
(* while it deletes objects from the store.                                *)
(*                                                                         *)
(* gc_reaps, last_seen_at and bytes are statistics that no code reads back *)
(* into a decision; ReaperControl.stop is never set by the registry.       *)
(***************************************************************************)
EXTENDS ManifestStore, Integers

CONSTANTS Blobs,           \* blob digests
          BlobsOf,         \* extract_blob_digests of each manifest
          Reapers,         \* one continuous reaper per registry pod
          BatchSize,       \* ReaperConfig.batch_size
          MaxReaperFaults  \* bound on failed reaps and reaper crashes

ASSUME GCAssumption ==
    /\ BlobsOf \in [Manifests -> SUBSET Blobs]
    /\ None \notin Blobs
    /\ BatchSize \in Nat \ {0}
    /\ MaxReaperFaults \in Nat

VARIABLES objects,   \* blob objects in the store, <<repo, blob>>
          edges, refcount, zeroed,
                     \* manifest_blob_refs and blob_refcounts, as in BlobRefs
          paths,     \* blob_paths: <<repo, blob>> rows
          tx,        \* the refcount transaction of each request
          reaper,    \* where each reaper is
          paused,    \* the pods whose ReaperControl.paused is set
          faults     \* failed reaps and reaper crashes so far

Tables == INSTANCE BlobRefs

tableVars == <<edges, refcount, zeroed, paths>>
reaperVars == <<reaper, paused, faults>>
vars == <<storeVars, objects, tableVars, tx, reaperVars>>

\* todo: blobs the loop has not reached.  newPaths: blob_paths rows inserted.
\* rows: edges of the request's manifest inserted or deleted.  held: refcount
\* rows updated.
Closed == [open |-> FALSE, todo |-> {}, newPaths |-> {}, rows |-> {}, held |-> {}]
IdleReaper == [pc |-> "idle", batch |-> {}, blob |-> None, todo |-> {}]

TypeOK ==
    /\ StoreTypeOK
    /\ Tables!RefTypeOK
    /\ objects \subseteq Repos \X Blobs
    /\ paths \subseteq Repos \X Blobs
    /\ tx \in [Clients -> [open : BOOLEAN, todo : SUBSET Blobs, newPaths : SUBSET Blobs,
                           rows : SUBSET Blobs, held : SUBSET Blobs]]
    /\ reaper \in [Reapers -> [pc : {"idle", "batch", "delete"}, batch : SUBSET Blobs,
                               blob : Blobs \cup {None}, todo : SUBSET Repos]]
    /\ paused \subseteq Reapers
    /\ faults \in 0..MaxReaperFaults

Init ==
    /\ StoreInit
    /\ Tables!RefInit
    /\ objects = {}
    /\ paths = {}
    /\ tx = [c \in Clients |-> Closed]
    /\ reaper = [r \in Reapers |-> IdleReaper]
    /\ paused = {}
    /\ faults = 0

(***************************************************************************)
(* Locks.                                                                  *)
(***************************************************************************)
\* Mutant: the reaper re-reads the count without FOR UPDATE.
RowFreeOfRequests(b) == \A c \in Clients : b \notin tx[c].held

RowFree(b) ==
    /\ \A c \in Clients : b \notin tx[c].held
    /\ \A r \in Reapers : reaper[r].pc = "delete" => reaper[r].blob # b

\* No other transaction has an uncommitted insert or delete of <<man, b>>.
EdgeFree(c, b) ==
    \A d \in Clients \ {c} : req[d].man = req[c].man => b \notin tx[d].rows

PathFree(c, b) ==
    \A d \in Clients \ {c} : req[d].repo = req[c].repo => b \notin tx[d].newPaths

(***************************************************************************)
(* complete_blob_upload: the verified bytes are stored under their digest. *)
(***************************************************************************)
UploadBlob(repo, b) ==
    /\ <<repo, b>> \notin objects
    /\ objects' = objects \cup {<<repo, b>>}
    /\ UNCHANGED <<storeVars, tableVars, tx, reaperVars>>

(***************************************************************************)
(* add_refs.  An empty blob list opens a transaction that writes nothing,  *)
(* which is the early return of the code.                                  *)
(***************************************************************************)
BeginAddRefs(c) ==
    /\ At(c, "add_refs") /\ ~tx[c].open
    /\ tx' = [tx EXCEPT ![c].open = TRUE, ![c].todo = BlobsOf[req[c].man]]
    /\ UNCHANGED <<storeVars, objects, tableVars, reaperVars>>

\* INSERT blob_paths and INSERT manifest_blob_refs, both ON CONFLICT DO
\* NOTHING; a row that conflicts is not written.
InsertRef(c, b) ==
    /\ At(c, "add_refs") /\ tx[c].open
    /\ tx[c].rows = tx[c].held
    /\ b \in tx[c].todo
    /\ PathFree(c, b) /\ EdgeFree(c, b)
    /\ tx' = [tx EXCEPT ![c].todo = @ \ {b},
                        ![c].newPaths = IF <<req[c].repo, b>> \in paths THEN @ ELSE @ \cup {b},
                        ![c].rows = IF <<req[c].man, b>> \in edges THEN @ ELSE @ \cup {b}]
    /\ UNCHANGED <<storeVars, objects, tableVars, reaperVars>>

\* The upsert (add_refs) or UPDATE (remove_refs) of one refcount row.
UpdateRefcount(c, b) ==
    /\ b \in tx[c].rows \ tx[c].held
    /\ RowFree(b)
    /\ tx' = [tx EXCEPT ![c].held = @ \cup {b}]
    /\ UNCHANGED <<storeVars, objects, tableVars, reaperVars>>

CommitAddRefs(c) ==
    /\ At(c, "add_refs") /\ tx[c].open
    /\ tx[c].todo = {} /\ tx[c].rows = tx[c].held
    /\ paths' = paths \cup ({req[c].repo} \X tx[c].newPaths)
    /\ edges' = edges \cup ({req[c].man} \X tx[c].rows)
    /\ refcount' = [b \in Blobs |-> IF b \notin tx[c].held THEN refcount[b]
                                    ELSE IF refcount[b] = Tables!NoRow THEN 1
                                    ELSE refcount[b] + 1]
    /\ zeroed' = [b \in Blobs |-> IF b \in tx[c].held THEN "null" ELSE zeroed[b]]
    /\ tx' = [tx EXCEPT ![c] = Closed]
    /\ Finish(c)
    /\ UNCHANGED <<manifests, tagLink, objects, reaperVars>>

(***************************************************************************)
(* remove_refs.  The DELETE waits for another remove_refs of the same      *)
(* manifest; edges an open add_refs has inserted are invisible to it.      *)
(***************************************************************************)
BeginRemoveRefs(c) ==
    /\ At(c, "remove_refs") /\ ~tx[c].open
    /\ \A b \in Tables!BlobsOfEdges(req[c].man) : EdgeFree(c, b)
    /\ tx' = [tx EXCEPT ![c].open = TRUE, ![c].rows = Tables!BlobsOfEdges(req[c].man)]
    /\ UNCHANGED <<storeVars, objects, tableVars, reaperVars>>

CommitRemoveRefs(c) ==
    /\ At(c, "remove_refs") /\ tx[c].open
    /\ tx[c].rows = tx[c].held
    /\ edges' = edges \ ({req[c].man} \X tx[c].rows)
    /\ refcount' = [b \in Blobs |-> IF b \in tx[c].held /\ refcount[b] > 0
                                    THEN refcount[b] - 1 ELSE refcount[b]]
    /\ zeroed' = [b \in Blobs |-> IF b \in tx[c].held /\ refcount[b] = 1
                                  THEN "grace" ELSE zeroed[b]]
    /\ tx' = [tx EXCEPT ![c] = Closed]
    /\ Finish(c)
    /\ UNCHANGED <<manifests, tagLink, objects, paths, reaperVars>>

\* The next statement of c's transaction waits for another transaction.
Blocked(c) ==
    \/ \E b \in tx[c].rows \ tx[c].held : ~RowFree(b)
    \/ \E b \in tx[c].todo : ~(PathFree(c, b) /\ EdgeFree(c, b))

\* A database error, or a deadlock in which c is the victim (a reaper locks one
\* row and waits for none, so only transactions of requests form a cycle): the
\* transaction rolls back, the handler logs it and reports success.
RefsFail(c) ==
    /\ tx[c].open
    /\ Faults \/ (Blocked(c) /\ \E d \in Clients \ {c} : Blocked(d))
    /\ tx' = [tx EXCEPT ![c] = Closed]
    /\ Finish(c)
    /\ UNCHANGED <<manifests, tagLink, objects, tableVars, reaperVars>>

\* A handler step of ManifestStore, outside any transaction.
StoreStep(c) ==
    /\ Arrive(c) \/ HandlerStep(c)
    /\ UNCHANGED <<objects, tableVars, tx, reaperVars>>

\* The request ends early; an open transaction rolls back with it.
AbandonRequest(c) ==
    /\ Abandon(c)
    /\ tx' = [tx EXCEPT ![c] = Closed]
    /\ UNCHANGED <<objects, tableVars, reaperVars>>

TxStep(c) ==
    \/ BeginAddRefs(c)
    \/ \E b \in Blobs : InsertRef(c, b) \/ UpdateRefcount(c, b)
    \/ CommitAddRefs(c)
    \/ BeginRemoveRefs(c)
    \/ CommitRemoveRefs(c)

(***************************************************************************)
(* The continuous reaper.                                                  *)
(***************************************************************************)
GraceElapses(b) ==
    /\ zeroed[b] = "grace"
    /\ zeroed' = [zeroed EXCEPT ![b] = "expired"]
    /\ UNCHANGED <<storeVars, objects, edges, refcount, paths, tx, reaperVars>>

\* Mutant: the grace comparison is reversed.
EligibleTooYoung == {b \in Blobs : refcount[b] = 0 /\ zeroed[b] = "grace" /\ RowFree(b)}

Eligible == {b \in Blobs : refcount[b] = 0 /\ zeroed[b] = "expired" /\ RowFree(b)}

\* The candidate query: its locks end with the statement.
SelectBatch(r) ==
    /\ reaper[r].pc = "idle" /\ r \notin paused
    /\ \E batch \in SUBSET Eligible :
        /\ batch # {}
        /\ Cardinality(batch) <= BatchSize
        /\ batch = Eligible \/ Cardinality(batch) = BatchSize
        /\ reaper' = [reaper EXCEPT ![r].pc = "batch", ![r].batch = batch]
    /\ UNCHANGED <<storeVars, objects, tableVars, tx, paused, faults>>

\* Mutant: reap_blob trusts the candidate query and does not read the count again.
LockCandidateBlindly(r, b) ==
    /\ reaper[r].pc = "batch" /\ b \in reaper[r].batch
    /\ r \notin paused
    /\ RowFree(b)
    /\ reaper' = [reaper EXCEPT ![r].pc = "delete", ![r].blob = b,
                                ![r].todo = {repo \in Repos : <<repo, b>> \in paths}]
    /\ UNCHANGED <<storeVars, objects, tableVars, tx, paused, faults>>

\* reap_blob begins: the row is locked and its count read again.  The pause
\* check before it is part of the step: a pause that lands between the two
\* commutes with everything up to the lock.
LockCandidate(r, b) ==
    /\ reaper[r].pc = "batch" /\ b \in reaper[r].batch
    /\ r \notin paused
    /\ refcount[b] # Tables!NoRow => RowFree(b)
    /\ \/ /\ refcount[b] = 0
          /\ reaper' = [reaper EXCEPT ![r].pc = "delete", ![r].blob = b,
                                      ![r].todo = {repo \in Repos : <<repo, b>> \in paths}]
       \/ /\ refcount[b] # 0
          /\ reaper' = [reaper EXCEPT ![r].batch = @ \ {b}]
    /\ UNCHANGED <<storeVars, objects, tableVars, tx, paused, faults>>

\* One store.delete; an object that is already gone is not an error.
DeleteObject(r, repo) ==
    /\ reaper[r].pc = "delete" /\ repo \in reaper[r].todo
    /\ objects' = objects \ {<<repo, reaper[r].blob>>}
    /\ reaper' = [reaper EXCEPT ![r].todo = @ \ {repo}]
    /\ UNCHANGED <<storeVars, tableVars, tx, paused, faults>>

NextCandidate(r) ==
    reaper' = [reaper EXCEPT ![r] = [IdleReaper EXCEPT !.pc = "batch",
                                                       !.batch = reaper[r].batch \ {reaper[r].blob}]]

\* reap_blob commits: bookkeeping rows go, the row lock is released.
CommitReap(r) ==
    /\ reaper[r].pc = "delete" /\ reaper[r].todo = {}
    /\ paths' = paths \ (Repos \X {reaper[r].blob})
    /\ refcount' = [refcount EXCEPT ![reaper[r].blob] = Tables!NoRow]
    /\ zeroed' = [zeroed EXCEPT ![reaper[r].blob] = "null"]
    /\ NextCandidate(r)
    /\ UNCHANGED <<storeVars, objects, edges, tx, paused, faults>>

\* A store.delete or a statement fails: rollback, bookkeeping stays, a later
\* cycle retries; the objects deleted so far are gone.
ReapFails(r) ==
    /\ faults < MaxReaperFaults
    /\ reaper[r].pc = "delete"
    /\ NextCandidate(r)
    /\ faults' = faults + 1
    /\ UNCHANGED <<storeVars, objects, tableVars, tx, paused>>

EndBatch(r) ==
    /\ reaper[r].pc = "batch"
    /\ r \in paused \/ reaper[r].batch = {}
    /\ reaper' = [reaper EXCEPT ![r] = IdleReaper]
    /\ UNCHANGED <<storeVars, objects, tableVars, tx, paused, faults>>

\* The pod dies; its transaction rolls back and a new pod starts idle.
ReaperCrash(r) ==
    /\ faults < MaxReaperFaults
    /\ reaper[r].pc # "idle"
    /\ reaper' = [reaper EXCEPT ![r] = IdleReaper]
    /\ faults' = faults + 1
    /\ UNCHANGED <<storeVars, objects, tableVars, tx, paused>>

\* POST /v2/_gc/pause and /v2/_gc/resume set the flag of the pod that answers.
Pause(r) ==
    /\ r \notin paused
    /\ paused' = paused \cup {r}
    /\ UNCHANGED <<storeVars, objects, tableVars, tx, reaper, faults>>

Resume(r) ==
    /\ r \in paused
    /\ paused' = paused \ {r}
    /\ UNCHANGED <<storeVars, objects, tableVars, tx, reaper, faults>>

ReaperStep(r) ==
    \/ SelectBatch(r)
    \/ \E b \in Blobs : LockCandidate(r, b)
    \/ \E repo \in Repos : DeleteObject(r, repo)
    \/ CommitReap(r)
    \/ EndBatch(r)

Next ==
    \/ \E c \in Clients : \/ StoreStep(c)
                          \/ TxStep(c)
                          \/ RefsFail(c)
                          \/ AbandonRequest(c)
    \/ \E repo \in Repos, b \in Blobs : UploadBlob(repo, b)
    \/ \E b \in Blobs : GraceElapses(b)
    \/ \E r \in Reapers : \/ ReaperStep(r)
                          \/ ReapFails(r)
                          \/ ReaperCrash(r)
                          \/ Pause(r)
                          \/ Resume(r)

(***************************************************************************)
(* Handlers and reapers are tasks that the runtime polls until they end; a *)
(* transaction that waits for ever is aborted by Postgres; time passes.    *)
(* Nothing makes requests arrive, be abandoned, or the operator act.       *)
(***************************************************************************)
Fairness ==
    /\ \A c \in Clients : WF_vars((HandlerStep(c) /\ StoreStep(c)) \/ TxStep(c) \/ RefsFail(c))
    /\ \A b \in Blobs : WF_vars(GraceElapses(b))
    /\ \A r \in Reapers : WF_vars(ReaperStep(r))

Spec == Init /\ [][Next]_vars /\ Fairness

(***************************************************************************)
(* Properties.                                                             *)
(***************************************************************************)

\* Every step of the tables is one committed transaction of BlobRefs: no
\* interleaving of statements, rollbacks and reaps loses, doubles or reorders
\* an update (add_refs, remove_refs, reap_blob).
ImplementsBlobRefs == Tables!RefSpec

\* Counts equal edges in every committed state (the reconciler's comparison
\* never finds drift that this code made).
CountsMatchEdges == Tables!RefcountMatchesEdges

\* reap_blob never deletes an object of a blob that has a committed reference,
\* whatever commits between the candidate query and the delete.
ReaperSparesReferenced ==
    [][\A x \in objects \ objects' : Tables!Referrers(x[2]) = {}]_vars

\* An unreferenced blob's row does not stay for ever: it is reaped, unless the
\* operator pauses a reaper or a request's transaction holds the row.
UnreferencedIsReaped ==
    \A b \in Blobs :
        refcount[b] = 0 ~> (refcount[b] # 0 \/ paused # {} \/ \E c \in Clients : b \in tx[c].held)

\* refcount.rs: add_refs "called twice for the same manifest re-pushes the same
\* edges, which is fine".  With no request running and nothing failed, the
\* reaper deletes no object that a manifest stored in its repository needs.
ReaperSparesStoredManifests ==
    [][(\A c \in Clients : At(c, "idle")) =>
        \A x \in objects \ objects' :
            ~\E m \in Manifests : <<x[1], m>> \in manifests /\ x[2] \in BlobsOf[m]]_vars
=============================================================================
