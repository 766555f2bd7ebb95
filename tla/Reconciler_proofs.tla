-------------------------- MODULE Reconciler_proofs --------------------------
(***************************************************************************)
(* On tables that only the registry writes, a reconcile pass finds no      *)
(* drift and corrects nothing.  The argument is the invariant of           *)
(* BlobRefs_proofs: as long as no operator has rewritten a row, it holds,  *)
(* so the query returns equal counts and a pass has no rows to process.    *)
(***************************************************************************)
EXTENDS Reconciler, BlobRefs_proofs

\* A pass that has no rows to record and none to correct.
CleanPass == [pc : {"idle", "rows"}, apply : BOOLEAN, todo : {{}}, fixing : {{}},
              examined : SUBSET Blobs, quiet : BOOLEAN]

CleanInv == RefInv /\ drift = {} /\ pass \in CleanPass

RecInv == surgeries \in Nat /\ (surgeries = 0 => CleanInv)

\* Exact counts fall through to the last arm of the match.
LEMMA ExactIsClean == RefInv => \A b \in Blobs : ~Drifted(b)
<1> SUFFICES ASSUME RefInv, NEW b \in Blobs PROVE ~Drifted(b)
  OBVIOUS
<1>1. Count(b) = Expected(b)
  BY DEF RefInv, RefcountMatchesEdges, Expected
<1>2. refcount[b] \in Nat \cup {NoRow}
  BY DEF RefInv, RefTypeOK
<1> QED BY <1>1, <1>2 DEF Count, Drifted, NoRow

\* Init: empty tables, no pass, no drift.
LEMMA RecInvInit == Init => RecInv
<1> SUFFICES ASSUME Init PROVE RecInv
  OBVIOUS
<1>1. RefInv
  BY RefInvInit DEF Init
<1>2. pass \in CleanPass
  BY DEF Init, IdlePass, CleanPass
<1> QED BY <1>1, <1>2 DEF RecInv, CleanInv, Init

\* A committed transaction of the registry keeps exact tables exact.
LEMMA LiveInv ==
  ASSUME CleanInv, RefNext, pass' = [pass EXCEPT !.quiet = FALSE], drift' = drift
  PROVE  CleanInv'
<1>1. RefInv'
  BY RefInvNext DEF CleanInv
<1>2. pass' \in CleanPass
  BY DEF CleanInv, CleanPass
<1> QED BY <1>1, <1>2 DEF CleanInv

\* A pass over exact tables starts and ends without a row to process.
LEMMA PassInv ==
  ASSUME CleanInv,
         \/ \E apply \in BOOLEAN, examined \in SUBSET Digests : BeginPass(apply, examined)
         \/ EndPass
  PROVE  CleanInv'
<1>1. RefInv' /\ drift' = {}
  <2>1. UNCHANGED <<refVars, drift>>
    BY DEF BeginPass, EndPass
  <2> QED BY <2>1, RefInvNext DEF CleanInv
<1>2. pass' \in CleanPass
  <2>1. ASSUME NEW apply \in BOOLEAN, NEW examined \in SUBSET Digests,
               BeginPass(apply, examined)
        PROVE  pass' \in CleanPass
    <3>1. examined \subseteq Blobs
      BY DEF Digests
    <3>2. {d \in examined : Drifted(d)} = {}
      BY <3>1, ExactIsClean DEF CleanInv
    <3>3. {<<b, Kind(b), Expected(b)>> : b \in {d \in examined : Drifted(d)}} = {}
      BY <3>2
    <3> QED BY <2>1, <3>1, <3>3 DEF BeginPass, CleanPass
  <2>2. CASE EndPass
    BY <2>2 DEF EndPass, IdlePass, CleanPass
  <2> QED BY <2>1, <2>2
<1> QED BY <1>1, <1>2 DEF CleanInv

\* Every step keeps the invariant; only Surgery leaves its premise.
LEMMA RecInvNext == RecInv /\ [Next]_vars => RecInv'
<1> SUFFICES ASSUME RecInv, [Next]_vars PROVE RecInv'
  OBVIOUS
<1>1. ASSUME NEW b \in Blobs, NEW n \in SurgeryCounts \cup {NoRow}, Surgery(b, n) PROVE RecInv'
  BY <1>1 DEF Surgery, RecInv
<1>2. ASSUME surgeries' = surgeries, CleanInv => CleanInv' PROVE RecInv'
  BY <1>2 DEF RecInv
<1>3. ASSUME NEW m \in Manifests, NEW bs \in SUBSET Blobs,
             Live(AddRefs(m, bs)) \/ Live(RemoveRefs(m, bs))
      PROVE  RecInv'
  <2>1. RefNext
    BY <1>3 DEF Live, RefNext
  <2> QED BY <1>2, <1>3, <2>1, LiveInv DEF Live
<1>4. ASSUME NEW b \in Blobs, Live(GraceElapses(b)) \/ Live(Reap(b)) PROVE RecInv'
  <2>1. RefNext
    BY <1>4 DEF Live, RefNext
  <2> QED BY <1>2, <1>4, <2>1, LiveInv DEF Live
<1>5. ASSUME NEW apply \in BOOLEAN, NEW examined \in SUBSET Digests, BeginPass(apply, examined)
      PROVE  RecInv'
  BY <1>2, <1>5, PassInv DEF BeginPass
<1>6. CASE EndPass
  BY <1>2, <1>6, PassInv DEF EndPass
<1>7. ASSUME NEW row \in pass.todo, RecordDrift(row) PROVE RecInv'
  BY <1>2, <1>7 DEF RecordDrift, CleanInv, CleanPass
<1>8. ASSUME NEW row \in pass.fixing, FixRow(row) PROVE RecInv'
  BY <1>2, <1>8 DEF FixRow, CleanInv, CleanPass
<1>9. ASSUME NEW b \in Blobs, MarkDriftCorrected(b) PROVE RecInv'
  <2>1. ASSUME CleanInv PROVE CleanInv'
    BY <1>9, <2>1, RefInvNext DEF MarkDriftCorrected, CleanInv
  <2> QED BY <1>2, <1>9, <2>1 DEF MarkDriftCorrected
<1>10. CASE UNCHANGED vars
  <2>1. ASSUME CleanInv PROVE CleanInv'
    BY <1>10, <2>1, RefInvNext DEF vars, CleanInv
  <2> QED BY <1>2, <1>10, <2>1 DEF vars
<1> QED BY <1>1, <1>3, <1>4, <1>5, <1>6, <1>7, <1>8, <1>9, <1>10 DEF Next

\* Without manual surgery reconcile records nothing, corrects nothing, and the
\* counts stay exact, for any number of manifests, blobs and passes.
THEOREM ReconcileIsQuiet == Spec => []NoDriftWithoutSurgery
<1>1. RecInv => NoDriftWithoutSurgery
  BY DEF RecInv, CleanInv, CleanPass, RefInv, NoDriftWithoutSurgery
<1> QED BY <1>1, RecInvInit, RecInvNext, PTL DEF Spec

(***************************************************************************)
(* What a pass repairs, over tables of any content.  A row carries what the *)
(* query saw: while nothing else commits, its expected count stays right    *)
(* and a row said to drift upwards still exists when it is corrected.       *)
(***************************************************************************)

\* The tables are typed whatever an operator wrote, and counts can be taken.
TablesTyped == RefTypeOK /\ FiniteReferrers

\* A reconcile call, typed.
PassState == [pc : {"idle", "rows"}, apply : BOOLEAN, todo : SUBSET DriftRows,
              fixing : SUBSET DriftRows, examined : SUBSET Blobs, quiet : BOOLEAN]

\* A row of the pass that its correction will repair.
Repairable(row) ==
    /\ row[3] = Expected(row[1])
    /\ row[2] # "missing" => refcount[row[1]] # NoRow

\* The rows of a quiet pass that will apply its corrections are repairable, one
\* at a time is being corrected, and all others are repaired.
QuietPass ==
    pass.pc = "rows" /\ pass.apply /\ pass.quiet =>
        /\ \A row \in pass.todo \cup pass.fixing : Repairable(row)
        /\ \A x, y \in pass.fixing : x = y
        /\ QuietPassRepairs

RepairInv == TablesTyped /\ pass \in PassState /\ QuietPass

\* An expected count is a number.
LEMMA ExpectedType == TablesTyped => \A b \in Blobs : Expected(b) \in Nat
  BY FS_CardinalityType DEF TablesTyped, FiniteReferrers, Expected

\* Transactions of the registry keep the tables typed, from any counts.
LEMMA LiveTyped == TablesTyped /\ RefNext => TablesTyped'
<1> SUFFICES ASSUME TablesTyped, RefNext PROVE TablesTyped'
  OBVIOUS
<1>1. RefTypeOK /\ FiniteReferrers
  BY DEF TablesTyped
<1>2. ASSUME NEW m \in Manifests, NEW bs \in SUBSET Blobs, AddRefs(m, bs) PROVE TablesTyped'
  <2>1. RefTypeOK'
    BY <1>1, <1>2, CountType DEF AddRefs, RefTypeOK, ZeroedStates
  <2>2. ASSUME NEW b \in Blobs PROVE IsFiniteSet(Referrers(b)')
    <3>1. Referrers(b)' \subseteq Referrers(b) \cup {m}
      BY <1>2 DEF AddRefs, Referrers
    <3>2. IsFiniteSet(Referrers(b) \cup {m})
      BY <1>1, FS_AddElement DEF FiniteReferrers
    <3> QED BY <3>1, <3>2, FS_Subset
  <2> QED BY <2>1, <2>2 DEF TablesTyped, FiniteReferrers
<1>3. ASSUME NEW m \in Manifests, NEW bs \in SUBSET Blobs, RemoveRefs(m, bs) PROVE TablesTyped'
  <2>1. edges' \subseteq Manifests \X Blobs /\ zeroed' \in [Blobs -> ZeroedStates]
    BY <1>1, <1>3 DEF RemoveRefs, RefTypeOK, ZeroedStates
  <2>2. \A b \in Blobs : refcount[b] > 0 => refcount[b] - 1 \in Nat
    BY <1>1 DEF RefTypeOK, NoRow
  <2>3. refcount' \in [Blobs -> Nat \cup {NoRow}]
    BY <1>1, <1>3, <2>2 DEF RemoveRefs, RefTypeOK, Decremented
  <2>4. ASSUME NEW b \in Blobs PROVE IsFiniteSet(Referrers(b)')
    <3>1. Referrers(b)' \subseteq Referrers(b)
      BY <1>3 DEF RemoveRefs, Referrers
    <3> QED BY <1>1, <3>1, FS_Subset DEF FiniteReferrers
  <2> QED BY <2>1, <2>3, <2>4 DEF TablesTyped, FiniteReferrers, RefTypeOK
<1>4. ASSUME NEW b \in Blobs, GraceElapses(b) \/ Reap(b) PROVE TablesTyped'
  <2>1. RefTypeOK'
    BY <1>1, <1>4 DEF GraceElapses, Reap, RefTypeOK, ZeroedStates
  <2>2. \A x \in Blobs : Referrers(x)' = Referrers(x)
    BY <1>4 DEF GraceElapses, Reap, Referrers
  <2> QED BY <1>1, <2>1, <2>2 DEF TablesTyped, FiniteReferrers
<1> QED BY <1>2, <1>3, <1>4 DEF RefNext

\* A commit beside the pass, of the registry or by hand, ends its quiet.
LEMMA LoudKeeps ==
  ASSUME RepairInv, TablesTyped', pass' = [pass EXCEPT !.quiet = FALSE]
  PROVE  RepairInv'
<1>1. pass' \in PassState /\ ~pass'.quiet
  BY DEF RepairInv, PassState
<1> QED BY <1>1 DEF RepairInv, QuietPass

\* Manual surgery leaves typed tables.
LEMMA SurgeryKeeps ==
  ASSUME RepairInv, NEW b \in Blobs, NEW n \in SurgeryCounts \cup {NoRow}, Surgery(b, n)
  PROVE  RepairInv'
<1>1. n \in Nat \cup {NoRow}
  BY SurgeryAssumption
<1>2. RefTypeOK'
  BY <1>1 DEF Surgery, RepairInv, TablesTyped, RefTypeOK, ZeroedStates
<1>3. \A x \in Blobs : Referrers(x)' = Referrers(x)
  BY DEF Surgery, Referrers
<1>4. TablesTyped'
  BY <1>2, <1>3 DEF RepairInv, TablesTyped, FiniteReferrers
<1> QED BY <1>4, LoudKeeps DEF Surgery

\* The query: a digest it returns is listed with what it saw, or needs nothing.
LEMMA QueryKeeps ==
  ASSUME RepairInv, NEW apply \in BOOLEAN, NEW examined \in SUBSET Digests, BeginPass(apply, examined)
  PROVE  RepairInv'
<1>1. UNCHANGED refVars /\ RefTypeOK /\ examined \in SUBSET Blobs
  BY DEF BeginPass, RepairInv, TablesTyped, Digests
<1>2. TablesTyped'
  BY <1>1 DEF RepairInv, TablesTyped, RefTypeOK, FiniteReferrers, refVars, Referrers
<1>3. \A b \in Blobs : Expected(b)' = Expected(b) /\ refcount'[b] = refcount[b] /\ Expected(b) \in Nat
  BY <1>1, ExpectedType DEF refVars, Expected, Referrers, RepairInv
<1> DEFINE rows == {<<b, Kind(b), Expected(b)>> : b \in {d \in examined : Drifted(d)}}
<1>4. rows \in SUBSET DriftRows
  <2>1. \A b \in Blobs : Kind(b) \in Kinds
    BY DEF Kind, Kinds
  <2> QED BY <1>1, <1>3, <2>1 DEF DriftRows
<1>5. pass' = [pc |-> "rows", apply |-> apply, fixing |-> {}, examined |-> examined, quiet |-> TRUE, todo |-> rows]
  BY DEF BeginPass
<1>6. pass' \in PassState
  BY <1>1, <1>4, <1>5 DEF PassState
<1>7. \A row \in rows : Repairable(row)'
  <2> SUFFICES ASSUME NEW row \in rows PROVE Repairable(row)'
    OBVIOUS
  <2>1. PICK b \in examined : row = <<b, Kind(b), Expected(b)>>
    OBVIOUS
  <2>2. PICK k \in Kinds, n \in Nat : k = Kind(b) /\ n = Expected(b)
    BY <1>1, <1>3 DEF Kind, Kinds
  <2>3. ASSUME refcount[b] = NoRow PROVE Kind(b) = "missing"
    <3>1. ~(refcount[b] > 0)
      BY <2>3 DEF NoRow
    <3> QED BY <2>3, <3>1 DEF Kind
  <2>4. row[1] = b /\ row[2] = k /\ row[3] = n
    BY <2>1, <2>2
  <2>5. n = Expected(b)' /\ refcount'[b] = refcount[b]
    BY <1>1, <1>3, <2>2
  <2>6. k # "missing" => refcount'[b] # NoRow
    BY <2>2, <2>3, <2>5
  <2> QED BY <2>4, <2>5, <2>6 DEF Repairable
<1>8. ASSUME NEW b \in examined
      PROVE  \/ \E row \in rows : row[1] = b
             \/ refcount'[b] # NoRow /\ refcount'[b] <= Expected(b)'
  <2>1. CASE Drifted(b)
    <3>1. <<b, Kind(b), Expected(b)>> \in rows
      BY <2>1
    <3> QED BY <3>1
  <2>2. CASE ~Drifted(b)
    <3>1. b \in Blobs /\ (refcount[b] # NoRow \/ Expected(b) > 0) /\ refcount[b] \in Nat \cup {NoRow}
      BY <1>1 DEF Digests, RefTypeOK
    <3>2. refcount[b] # NoRow /\ ~(refcount[b] > Expected(b))
      BY <2>2, <3>1 DEF Drifted
    <3>3. refcount[b] \in Nat /\ Expected(b) \in Nat
      BY <1>3, <3>1, <3>2
    <3> QED BY <1>3, <3>1, <3>2, <3>3
  <2> QED BY <2>1, <2>2
<1> HIDE DEF rows
<1>9. QuietPassRepairs'
  BY <1>5, <1>8 DEF QuietPassRepairs
<1>10. QuietPass'
  BY <1>5, <1>7, <1>9 DEF QuietPass
<1> QED BY <1>2, <1>6, <1>10 DEF RepairInv

\* The row goes from one list to the other.
LEMMA RecordKeeps ==
  ASSUME RepairInv, NEW row \in pass.todo, RecordDrift(row)
  PROVE  RepairInv'
<1>1. PICK p \in PassState : p = pass
  BY DEF RepairInv
<1>2. PICK todo \in SUBSET DriftRows, fixing \in SUBSET DriftRows :
         todo = p.todo \ {row} /\ fixing = IF p.apply THEN {row} ELSE {}
  BY <1>1 DEF PassState
<1>3. pass' = [p EXCEPT !.todo = todo, !.fixing = fixing] /\ UNCHANGED refVars
  BY <1>1, <1>2 DEF RecordDrift
<1>4. /\ pass' \in PassState /\ pass'.pc = p.pc /\ pass'.apply = p.apply /\ pass'.quiet = p.quiet
      /\ pass'.examined = p.examined /\ pass'.todo = todo /\ pass'.fixing = fixing
  BY <1>3 DEF PassState
<1>5. TablesTyped'
  BY <1>3 DEF RepairInv, TablesTyped, RefTypeOK, FiniteReferrers, refVars, Referrers
<1>6. \A b : Expected(b)' = Expected(b) /\ refcount'[b] = refcount[b]
  BY <1>3 DEF refVars, Expected, Referrers
<1>7. ASSUME pass'.pc = "rows", pass'.apply, pass'.quiet
      PROVE  /\ \A x \in pass'.todo \cup pass'.fixing : Repairable(x)'
             /\ \A x, y \in pass'.fixing : x = y
             /\ QuietPassRepairs'
  <2>1. /\ \A x \in p.todo \cup p.fixing : Repairable(x)
        /\ QuietPassRepairs
    BY <1>1, <1>4, <1>7 DEF RepairInv, QuietPass
  <2>2. p.fixing = {} /\ pass'.todo \cup pass'.fixing = p.todo \cup p.fixing
    BY <1>1, <1>2, <1>4, <1>7 DEF RecordDrift
  <2>3. \A x \in pass'.todo \cup pass'.fixing : Repairable(x)'
    BY <1>6, <2>1, <2>2 DEF Repairable
  <2>4. QuietPassRepairs'
    BY <1>1, <1>4, <1>6, <1>7, <2>1, <2>2 DEF QuietPassRepairs
  <2> QED BY <1>2, <1>4, <2>3, <2>4
<1> QED BY <1>4, <1>5, <1>7 DEF RepairInv, QuietPass

\* A correction repairs its row and touches no other.
LEMMA FixKeeps ==
  ASSUME RepairInv, NEW row \in pass.fixing, FixRow(row)
  PROVE  RepairInv'
<1>1. PICK p \in PassState : p = pass
  BY DEF RepairInv
<1>2. PICK b \in Blobs, kind \in Kinds, n \in Nat : row = <<b, kind, n>>
  BY <1>1 DEF PassState, DriftRows
<1>3. /\ Fix(b, kind, n) /\ pass' = [p EXCEPT !.fixing = {}]
  BY <1>1, <1>2 DEF FixRow
<1>4. /\ pass' \in PassState /\ pass'.pc = p.pc /\ pass'.apply = p.apply /\ pass'.quiet = p.quiet
      /\ pass'.examined = p.examined /\ pass'.todo = p.todo /\ pass'.fixing = {}
  BY <1>3 DEF PassState
<1>5. RefTypeOK /\ edges' = edges
  BY <1>3 DEF RepairInv, TablesTyped, Fix
<1>6. \A x : Expected(x)' = Expected(x) /\ Referrers(x)' = Referrers(x)
  BY <1>5 DEF Expected, Referrers
<1>7. /\ refcount' \in [Blobs -> Nat \cup {NoRow}]
      /\ \A x \in Blobs \ {b} : refcount'[x] = refcount[x]
      /\ refcount'[b] = CASE kind = "missing" -> n
                          [] kind = "orphan" -> IF refcount[b] = NoRow THEN refcount[b] ELSE 0
                          [] kind = "underflow" -> IF refcount[b] = NoRow THEN refcount[b] ELSE n
  BY <1>3, <1>5 DEF Fix, RefTypeOK, Kinds
<1>8. zeroed' \in [Blobs -> ZeroedStates]
  BY <1>3, <1>5 DEF Fix, RefTypeOK, Kinds, ZeroedStates
<1>9. TablesTyped'
  BY <1>5, <1>6, <1>7, <1>8 DEF RepairInv, TablesTyped, RefTypeOK, FiniteReferrers
<1>10. refcount[b] # NoRow => refcount'[b] # NoRow
  BY <1>7 DEF Kinds, NoRow
<1>11. ASSUME pass'.pc = "rows", pass'.apply, pass'.quiet
       PROVE  /\ \A x \in pass'.todo \cup pass'.fixing : Repairable(x)'
              /\ \A x, y \in pass'.fixing : x = y
              /\ QuietPassRepairs'
  <2>1. /\ \A x \in p.todo \cup p.fixing : Repairable(x)
        /\ \A x, y \in p.fixing : x = y
        /\ QuietPassRepairs
    BY <1>1, <1>4, <1>11 DEF RepairInv, QuietPass
  <2>2. p.fixing = {row} /\ n = Expected(b) /\ (kind # "missing" => refcount[b] # NoRow)
    BY <1>1, <1>2, <2>1 DEF Repairable
  <2>3. refcount'[b] # NoRow /\ refcount'[b] <= Expected(b)
    <3>1. refcount'[b] \in {0, n}
      BY <1>7, <2>2 DEF Kinds
    <3> QED BY <2>2, <3>1 DEF NoRow
  <2>4. \A x \in p.todo : Repairable(x)'
    <3> SUFFICES ASSUME NEW x \in p.todo PROVE Repairable(x)'
      OBVIOUS
    <3>1. x[1] \in Blobs /\ Repairable(x)
      BY <2>1 DEF PassState, DriftRows
    <3> QED BY <1>6, <1>7, <1>10, <3>1 DEF Repairable
  <2>5. ASSUME NEW x \in p.examined
        PROVE  \/ \E r \in p.todo : r[1] = x
               \/ refcount'[x] # NoRow /\ refcount'[x] <= Expected(x)
    <3>1. CASE x = b
      BY <2>3, <3>1
    <3>2. CASE x # b
      <4>1. \/ \E r \in p.todo \cup p.fixing : r[1] = x
            \/ refcount[x] # NoRow /\ refcount[x] <= Expected(x)
        BY <1>1, <1>4, <1>11, <2>1, <2>5 DEF QuietPassRepairs
      <4>2. x \in Blobs /\ row[1] # x
        BY <1>2, <2>5, <3>2 DEF PassState
      <4> QED BY <1>7, <2>2, <3>2, <4>1, <4>2
    <3> QED BY <3>1, <3>2
  <2>6. QuietPassRepairs'
    BY <1>4, <1>6, <2>5 DEF QuietPassRepairs
  <2> QED BY <1>4, <2>4, <2>6
<1> QED BY <1>4, <1>9, <1>11 DEF RepairInv, QuietPass

\* Empty tables, no pass.
LEMMA RepairInvInit == Init => RepairInv
<1> SUFFICES ASSUME Init PROVE RepairInv
  OBVIOUS
<1>1. RefInv
  BY RefInvInit DEF Init
<1>2. pass \in PassState /\ pass.pc = "idle"
  BY DEF Init, IdlePass, PassState
<1> QED BY <1>1, <1>2 DEF RefInv, TablesTyped, RepairInv, QuietPass

\* Every step keeps the invariant.
LEMMA RepairInvNext == RepairInv /\ [Next]_vars => RepairInv'
<1> SUFFICES ASSUME RepairInv, [Next]_vars PROVE RepairInv'
  OBVIOUS
<1>1. ASSUME NEW m \in Manifests, NEW bs \in SUBSET Blobs,
             Live(AddRefs(m, bs)) \/ Live(RemoveRefs(m, bs))
      PROVE  RepairInv'
  <2>1. RefNext
    BY <1>1 DEF Live, RefNext
  <2> QED BY <1>1, <2>1, LiveTyped, LoudKeeps DEF Live, RepairInv
<1>2. ASSUME NEW b \in Blobs, Live(GraceElapses(b)) \/ Live(Reap(b)) PROVE RepairInv'
  <2>1. RefNext
    BY <1>2 DEF Live, RefNext
  <2> QED BY <1>2, <2>1, LiveTyped, LoudKeeps DEF Live, RepairInv
<1>3. CASE EndPass
  <2>1. pass' \in PassState /\ pass'.pc = "idle" /\ UNCHANGED refVars
    BY <1>3 DEF EndPass, IdlePass, PassState
  <2>2. TablesTyped'
    BY <2>1 DEF RepairInv, TablesTyped, RefTypeOK, FiniteReferrers, refVars, Referrers
  <2> QED BY <2>1, <2>2 DEF RepairInv, QuietPass
<1>4. CASE UNCHANGED <<refVars, pass>>
  BY <1>4 DEF RepairInv, TablesTyped, RefTypeOK, FiniteReferrers, refVars, Referrers, QuietPass,
              Repairable, QuietPassRepairs, Expected
<1>5. (\E b \in Blobs : MarkDriftCorrected(b)) \/ UNCHANGED vars => UNCHANGED <<refVars, pass>>
  BY DEF MarkDriftCorrected, vars
<1> QED BY <1>1, <1>2, <1>3, <1>4, <1>5, SurgeryKeeps, QueryKeeps, RecordKeeps, FixKeeps DEF Next

\* A pass in apply mode that nothing commits beside repairs every row it has
\* processed, whatever an operator had written into the tables before.
THEOREM QuietPassesRepair == Spec => []QuietPassRepairs
<1>1. RepairInv => QuietPassRepairs
  BY DEF RepairInv, QuietPass, QuietPassRepairs
<1> QED BY <1>1, RepairInvInit, RepairInvNext, PTL DEF Spec
=============================================================================
