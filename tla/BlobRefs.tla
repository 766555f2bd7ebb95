------------------------------- MODULE BlobRefs -------------------------------
(***************************************************************************)
(* The reference-count tables of specton-gc (migration 0004_online_gc) at  *)
(* the granularity of committed transactions: what add_refs, remove_refs   *)
(* and the reaper promise each other.  OnlineGC implements this            *)
(* specification statement by statement.                                   *)
(*                                                                         *)
(* One tenant is modelled: every key and every WHERE clause starts with    *)
(* the tenant.                                                             *)
(***************************************************************************)
EXTENDS Integers, FiniteSets

CONSTANTS Manifests,  \* manifest digests
          Blobs,      \* blob digests
          BlobsOf     \* extract_blob_digests of each manifest

ASSUME BlobsOfAssumption == BlobsOf \in [Manifests -> SUBSET Blobs]

VARIABLES edges,     \* manifest_blob_refs: <<manifest, blob>> rows
          refcount,  \* blob_refcounts.refcount, NoRow when there is no row
          zeroed     \* blob_refcounts.zeroed_at, as the reaper's query reads it

refVars == <<edges, refcount, zeroed>>

NoRow == -1

\* zeroed_at is NULL, younger than the grace period, or older.
ZeroedStates == {"null", "grace", "expired"}

RefTypeOK ==
    /\ edges \subseteq Manifests \X Blobs
    /\ refcount \in [Blobs -> Nat \cup {NoRow}]
    /\ zeroed \in [Blobs -> ZeroedStates]

RefInit ==
    /\ edges = {}
    /\ refcount = [b \in Blobs |-> NoRow]
    /\ zeroed = [b \in Blobs |-> "null"]

Referrers(b) == {m \in Manifests : <<m, b>> \in edges}
BlobsOfEdges(m) == {b \in Blobs : <<m, b>> \in edges}
Count(b) == IF refcount[b] = NoRow THEN 0 ELSE refcount[b]

(***************************************************************************)
(* add_refs commits: the edges it inserted (those that existed are left    *)
(* out by ON CONFLICT DO NOTHING) and one increment per inserted edge.     *)
(***************************************************************************)
AddRefs(m, inserted) ==
    /\ inserted \subseteq BlobsOf[m] \ BlobsOfEdges(m)
    /\ edges' = edges \cup ({m} \X inserted)
    /\ refcount' = [b \in Blobs |-> IF b \in inserted THEN Count(b) + 1 ELSE refcount[b]]
    /\ zeroed' = [b \in Blobs |-> IF b \in inserted THEN "null" ELSE zeroed[b]]

(***************************************************************************)
(* remove_refs commits: the edges it deleted and one decrement per edge,   *)
(* guarded by refcount > 0; a count that reaches zero starts the grace.    *)
(***************************************************************************)
Decremented(b, deleted) == b \in deleted /\ refcount[b] > 0

RemoveRefs(m, deleted) ==
    /\ deleted \subseteq BlobsOfEdges(m)
    /\ edges' = edges \ ({m} \X deleted)
    /\ refcount' = [b \in Blobs |-> IF Decremented(b, deleted) THEN refcount[b] - 1
                                                               ELSE refcount[b]]
    /\ zeroed' = [b \in Blobs |-> IF Decremented(b, deleted) /\ refcount[b] = 1
                                  THEN "grace" ELSE zeroed[b]]

\* The grace period of a zeroed row runs out.
GraceElapses(b) ==
    /\ zeroed[b] = "grace"
    /\ zeroed' = [zeroed EXCEPT ![b] = "expired"]
    /\ UNCHANGED <<edges, refcount>>

\* reap_blob commits: the row is dropped after the re-check under its lock.
Reap(b) ==
    /\ refcount[b] = 0
    /\ refcount' = [refcount EXCEPT ![b] = NoRow]
    /\ zeroed' = [zeroed EXCEPT ![b] = "null"]
    /\ UNCHANGED edges

RefNext ==
    \/ \E m \in Manifests, bs \in SUBSET Blobs : AddRefs(m, bs) \/ RemoveRefs(m, bs)
    \/ \E b \in Blobs : GraceElapses(b) \/ Reap(b)

RefSpec == RefInit /\ [][RefNext]_refVars

(***************************************************************************)
(* The count of a blob is the number of manifests that reference it, and a *)
(* blob with no row has no reference: add_refs, remove_refs and reap_blob  *)
(* never lose or double an increment.  This is what lets the reaper trust  *)
(* blob_refcounts and what the reconciler recomputes.                      *)
(***************************************************************************)
RefcountMatchesEdges == \A b \in Blobs : Count(b) = Cardinality(Referrers(b))

(***************************************************************************)
(* A row waits for the reaper exactly when its count is zero: a zero row   *)
(* with a NULL zeroed_at would never be selected and leak its bytes, and a *)
(* referenced row with a zeroed_at would be.                               *)
(***************************************************************************)
ZeroedIffUnreferenced == \A b \in Blobs : refcount[b] = 0 <=> zeroed[b] # "null"
=============================================================================
