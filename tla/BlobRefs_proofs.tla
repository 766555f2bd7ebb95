--------------------------- MODULE BlobRefs_proofs ---------------------------
(***************************************************************************)
(* The counts of BlobRefs are exact, for every set of manifests and blobs. *)
(* The inductive invariant adds to the two properties only that a blob has *)
(* finitely many referrers, which the cardinality facts need: an edge set  *)
(* starts empty and a commit adds one manifest.                            *)
(***************************************************************************)
EXTENDS BlobRefs, FiniteSetTheorems, TLAPS

FiniteReferrers == \A b \in Blobs : IsFiniteSet(Referrers(b))

RefInv ==
    /\ RefTypeOK
    /\ FiniteReferrers
    /\ RefcountMatchesEdges
    /\ ZeroedIffUnreferenced

\* The tables start empty and consistent.
LEMMA RefInvInit == RefInit => RefInv
<1> SUFFICES ASSUME RefInit PROVE RefInv
  OBVIOUS
<1>1. \A b \in Blobs : Referrers(b) = {}
  BY DEF RefInit, Referrers
<1>2. RefTypeOK
  BY DEF RefInit, RefTypeOK, ZeroedStates, NoRow
<1>3. FiniteReferrers /\ RefcountMatchesEdges
  BY <1>1, FS_EmptySet DEF FiniteReferrers, RefcountMatchesEdges, Count, RefInit, NoRow
<1>4. ZeroedIffUnreferenced
  BY DEF RefInit, ZeroedIffUnreferenced, NoRow
<1> QED BY <1>2, <1>3, <1>4 DEF RefInv

\* Count is a natural number whether or not the row exists.
LEMMA CountType == RefTypeOK => \A b \in Blobs : Count(b) \in Nat
  BY DEF RefTypeOK, Count, NoRow

\* add_refs: one new referrer and one increment for each inserted edge.
LEMMA AddRefsInv ==
  ASSUME RefInv, NEW m \in Manifests, NEW inserted, AddRefs(m, inserted)
  PROVE  RefInv'
<1> USE DEF RefInv
<1>1. inserted \subseteq Blobs /\ \A b \in inserted : <<m, b>> \notin edges
  BY BlobsOfAssumption DEF AddRefs, BlobsOfEdges
<1>2. RefTypeOK'
  BY <1>1, CountType DEF AddRefs, RefTypeOK, ZeroedStates
<1>3. \A b \in inserted : Referrers(b)' = Referrers(b) \cup {m} /\ m \notin Referrers(b)
  BY <1>1 DEF AddRefs, Referrers
<1>4. \A b \in Blobs \ inserted : Referrers(b)' = Referrers(b)
  BY <1>1 DEF AddRefs, Referrers
<1>5. \A b \in inserted : /\ IsFiniteSet(Referrers(b)')
                          /\ Cardinality(Referrers(b)') = Cardinality(Referrers(b)) + 1
  BY <1>1, <1>3, FS_AddElement DEF FiniteReferrers
<1>6. FiniteReferrers'
  BY <1>4, <1>5 DEF FiniteReferrers
<1>7. RefcountMatchesEdges'
  <2> SUFFICES ASSUME NEW b \in Blobs PROVE Count(b)' = Cardinality(Referrers(b))'
    BY DEF RefcountMatchesEdges
  <2>1. CASE b \in inserted
    BY <2>1, <1>5, CountType DEF AddRefs, RefcountMatchesEdges, Count, NoRow
  <2>2. CASE b \notin inserted
    BY <2>2, <1>4 DEF AddRefs, RefcountMatchesEdges, Count
  <2> QED BY <2>1, <2>2
<1>8. ZeroedIffUnreferenced'
  BY <1>1, CountType DEF AddRefs, ZeroedIffUnreferenced
<1> QED BY <1>2, <1>6, <1>7, <1>8

\* remove_refs: every deleted edge had been counted, so the decrement's guard
\* refcount > 0 never suppresses one.
LEMMA RemoveRefsInv ==
  ASSUME RefInv, NEW m \in Manifests, NEW deleted, RemoveRefs(m, deleted)
  PROVE  RefInv'
<1> USE DEF RefInv
<1>1. deleted \subseteq Blobs /\ \A b \in deleted : m \in Referrers(b)
  BY DEF RemoveRefs, BlobsOfEdges, Referrers
<1>2. \A b \in deleted : /\ IsFiniteSet(Referrers(b) \ {m})
                         /\ Cardinality(Referrers(b) \ {m}) = Cardinality(Referrers(b)) - 1
  BY <1>1, FS_RemoveElement DEF FiniteReferrers
<1>3. \A b \in deleted : Referrers(b)' = Referrers(b) \ {m}
  BY <1>1 DEF RemoveRefs, Referrers
<1>4. \A b \in Blobs \ deleted : Referrers(b)' = Referrers(b)
  BY DEF RemoveRefs, Referrers
<1>5. \A b \in deleted : refcount[b] \in Nat /\ refcount[b] > 0 /\ refcount[b] = Cardinality(Referrers(b))
  <2> SUFFICES ASSUME NEW b \in deleted
               PROVE refcount[b] \in Nat /\ refcount[b] > 0 /\ refcount[b] = Cardinality(Referrers(b))
    OBVIOUS
  <2>1. IsFiniteSet(Referrers(b)) /\ Referrers(b) # {}
    BY <1>1 DEF FiniteReferrers
  <2>2. Cardinality(Referrers(b)) \in Nat /\ Cardinality(Referrers(b)) # 0
    BY <2>1, FS_CardinalityType, FS_EmptySet
  <2> QED BY <2>2, <1>1 DEF RefcountMatchesEdges, Count, RefTypeOK, NoRow
<1>6. RefTypeOK'
  BY <1>1, <1>5 DEF RemoveRefs, RefTypeOK, ZeroedStates, Decremented, NoRow
<1>7. FiniteReferrers'
  BY <1>2, <1>3, <1>4 DEF FiniteReferrers
<1>8. RefcountMatchesEdges'
  <2> SUFFICES ASSUME NEW b \in Blobs PROVE Count(b)' = Cardinality(Referrers(b))'
    BY DEF RefcountMatchesEdges
  <2>1. CASE b \in deleted
    BY <2>1, <1>2, <1>3, <1>5 DEF RemoveRefs, Count, Decremented, NoRow
  <2>2. CASE b \notin deleted
    BY <2>2, <1>4 DEF RemoveRefs, RefcountMatchesEdges, Count, Decremented
  <2> QED BY <2>1, <2>2
<1>9. ZeroedIffUnreferenced'
  BY <1>1, <1>5 DEF RemoveRefs, ZeroedIffUnreferenced, Decremented
<1> QED BY <1>6, <1>7, <1>8, <1>9

\* The clock and the reaper touch no edge; a reaped row was unreferenced.
LEMMA ReapInv ==
  ASSUME RefInv, NEW b \in Blobs, GraceElapses(b) \/ Reap(b)
  PROVE  RefInv'
<1> USE DEF RefInv
<1>1. \A x \in Blobs : Referrers(x)' = Referrers(x)
  BY DEF GraceElapses, Reap, Referrers
<1>2. RefTypeOK'
  BY DEF GraceElapses, Reap, RefTypeOK, ZeroedStates, NoRow
<1>3. \A x \in Blobs : Count(x)' = Count(x)
  BY DEF GraceElapses, Reap, Count, RefTypeOK, NoRow
<1>4. FiniteReferrers' /\ RefcountMatchesEdges'
  BY <1>1, <1>3 DEF FiniteReferrers, RefcountMatchesEdges
<1>5. ZeroedIffUnreferenced'
  BY DEF GraceElapses, Reap, ZeroedIffUnreferenced, RefTypeOK, NoRow
<1> QED BY <1>2, <1>4, <1>5

\* Every committed transaction keeps the tables consistent.
LEMMA RefInvNext == RefInv /\ [RefNext]_refVars => RefInv'
<1> SUFFICES ASSUME RefInv, [RefNext]_refVars PROVE RefInv'
  OBVIOUS
<1>1. ASSUME NEW m \in Manifests, NEW bs \in SUBSET Blobs, AddRefs(m, bs) PROVE RefInv'
  BY <1>1, AddRefsInv
<1>2. ASSUME NEW m \in Manifests, NEW bs \in SUBSET Blobs, RemoveRefs(m, bs) PROVE RefInv'
  BY <1>2, RemoveRefsInv
<1>3. ASSUME NEW b \in Blobs, GraceElapses(b) \/ Reap(b) PROVE RefInv'
  BY <1>3, ReapInv
<1>4. CASE UNCHANGED refVars
  BY <1>4 DEF RefInv, RefTypeOK, FiniteReferrers, RefcountMatchesEdges, ZeroedIffUnreferenced,
              Referrers, Count, refVars
<1> QED BY <1>1, <1>2, <1>3, <1>4 DEF RefNext

\* A count of zero means that no manifest references the blob.
LEMMA ZeroIsUnreferenced == RefInv => \A b \in Blobs : refcount[b] = 0 => Referrers(b) = {}
<1> SUFFICES ASSUME RefInv, NEW b \in Blobs, refcount[b] = 0 PROVE Referrers(b) = {}
  OBVIOUS
<1>1. Cardinality(Referrers(b)) = 0
  BY DEF RefInv, RefcountMatchesEdges, Count
<1>2. IsFiniteSet(Referrers(b))
  BY DEF RefInv, FiniteReferrers
<1> QED BY <1>1, <1>2, FS_EmptySet

\* The refcount tables are consistent in every state that add_refs, remove_refs
\* and reap_blob reach.
THEOREM TablesConsistent == RefSpec => [](RefcountMatchesEdges /\ ZeroedIffUnreferenced)
<1>1. RefInv => RefcountMatchesEdges /\ ZeroedIffUnreferenced
  BY DEF RefInv
<1> QED BY <1>1, RefInvInit, RefInvNext, PTL DEF RefSpec
=============================================================================
