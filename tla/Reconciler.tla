------------------------------ MODULE Reconciler ------------------------------
(***************************************************************************)
(* The reconciler of specton-gc (POST /v2/_gc/reconcile) over the tables   *)
(* of BlobRefs, beside live pushes, deletes and reaps.  One query reads    *)
(* the observed and the expected count of every digest; each row that      *)
(* drifted is then recorded and, in apply mode, corrected by statements of *)
(* its own, from the values the query read.                                *)
(*                                                                         *)
(* Since add_refs, remove_refs and reap_blob keep the tables consistent,   *)
(* drift comes from outside: "manual operator surgery" (reconciler.rs)     *)
(* rewrites a refcount row by hand.                                        *)
(***************************************************************************)
EXTENDS BlobRefs

CONSTANTS MaxSurgeries,  \* bound on manual rewrites of a refcount row
          SurgeryCounts  \* refcounts an operator may write

ASSUME SurgeryAssumption == MaxSurgeries \in Nat /\ SurgeryCounts \subseteq Nat

VARIABLES pass,      \* the reconcile call in progress
          drift,     \* open gc_drift rows, <<blob, kind>>
          surgeries  \* rewrites so far

vars == <<refVars, pass, drift, surgeries>>

Kinds == {"missing", "orphan", "underflow"}

\* todo: drifted rows <<blob, kind, expected>> still to be recorded.  fixing:
\* the row recorded and not corrected yet.  examined: digests the query
\* returned.  quiet: no transaction has committed since the query (history,
\* read by properties only).
IdlePass == [pc |-> "idle", apply |-> FALSE, todo |-> {}, fixing |-> {},
             examined |-> {}, quiet |-> TRUE]
DriftRows == Blobs \X Kinds \X Nat

TypeOK ==
    /\ RefTypeOK
    /\ pass \in [pc : {"idle", "rows"}, apply : BOOLEAN, todo : SUBSET DriftRows,
                 fixing : SUBSET DriftRows, examined : SUBSET Blobs, quiet : BOOLEAN]
    /\ drift \subseteq Blobs \X Kinds
    /\ surgeries \in 0..MaxSurgeries

Init ==
    /\ RefInit
    /\ pass = IdlePass
    /\ drift = {}
    /\ surgeries = 0

Expected(b) == Cardinality(Referrers(b))

\* The digests known to either table.
Digests == {b \in Blobs : refcount[b] # NoRow \/ Expected(b) > 0}

\* Mutants: an off-by-one in the last arm; a missing row taken for a zero count.
DriftedOrEqual(b) ==
    \/ refcount[b] = NoRow /\ Expected(b) > 0
    \/ refcount[b] # NoRow /\ refcount[b] >= Expected(b)

DriftedIgnoresMissing(b) == refcount[b] # NoRow /\ refcount[b] > Expected(b)

\* The arms of the match on (observed, expected), in order.
Drifted(b) ==
    \/ refcount[b] = NoRow /\ Expected(b) > 0
    \/ refcount[b] > 0 /\ Expected(b) = 0
    \/ refcount[b] # NoRow /\ refcount[b] > Expected(b)

Kind(b) ==
    CASE refcount[b] = NoRow -> "missing"
      [] refcount[b] > 0 /\ Expected(b) = 0 -> "orphan"
      [] OTHER -> "underflow"

\* One query.  It returns the digests in order and LIMIT max_blobs may cut them
\* short: since digests are not ordered here, any subset may be returned and
\* its rows taken in any order.
BeginPass(apply, examined) ==
    /\ pass.pc = "idle"
    /\ pass' = [pc |-> "rows", apply |-> apply, fixing |-> {},
                examined |-> examined, quiet |-> TRUE,
                todo |-> {<<b, Kind(b), Expected(b)>> : b \in {d \in examined : Drifted(d)}}]
    /\ UNCHANGED <<refVars, drift, surgeries>>

\* fix_missing, fix_orphan and fix_underflow.
Fix(b, kind, expected) ==
    /\ refcount' = [refcount EXCEPT
          ![b] = CASE kind = "missing" -> expected
                   [] kind = "orphan" -> IF @ = NoRow THEN @ ELSE 0
                   [] kind = "underflow" -> IF @ = NoRow THEN @ ELSE expected]
    /\ zeroed' = [zeroed EXCEPT
          ![b] = CASE kind = "missing" -> "null"
                   [] kind = "orphan" -> IF refcount[b] # NoRow /\ @ = "null" THEN "grace" ELSE @
                   [] kind = "underflow" -> IF refcount[b] = NoRow THEN @
                                            ELSE IF expected = 0 THEN "grace" ELSE "null"]
    /\ UNCHANGED edges

\* record_drift of the next row.
RecordDrift(row) ==
    /\ row \in pass.todo /\ pass.fixing = {}
    /\ drift' = drift \cup {<<row[1], row[2]>>}
    /\ pass' = [pass EXCEPT !.todo = @ \ {row}, !.fixing = IF pass.apply THEN {row} ELSE {}]
    /\ UNCHANGED <<refVars, surgeries>>

\* The correction of the row just recorded, in apply mode.
FixRow(row) ==
    /\ row \in pass.fixing
    /\ Fix(row[1], row[2], row[3])
    /\ pass' = [pass EXCEPT !.fixing = {}]
    /\ UNCHANGED <<drift, surgeries>>

\* The pass returns after its last row; an error of a statement ends it early.
EndPass ==
    /\ pass.pc = "rows"
    /\ pass' = IdlePass
    /\ UNCHANGED <<refVars, drift, surgeries>>

MarkDriftCorrected(b) ==
    /\ drift' = {d \in drift : d[1] # b}
    /\ drift' # drift
    /\ UNCHANGED <<refVars, pass, surgeries>>

Surgery(b, n) ==
    /\ surgeries < MaxSurgeries
    /\ surgeries' = surgeries + 1
    /\ refcount' = [refcount EXCEPT ![b] = n]
    /\ zeroed' = [zeroed EXCEPT ![b] = IF n = NoRow THEN "null" ELSE @]
    /\ pass' = [pass EXCEPT !.quiet = FALSE]
    /\ UNCHANGED <<edges, drift>>

\* A transaction of the registry commits, or the clock moves.
Live(step) == step /\ pass' = [pass EXCEPT !.quiet = FALSE] /\ UNCHANGED <<drift, surgeries>>

Next ==
    \/ \E m \in Manifests, bs \in SUBSET Blobs :
          Live(AddRefs(m, bs)) \/ Live(RemoveRefs(m, bs))
    \/ \E b \in Blobs : Live(GraceElapses(b)) \/ Live(Reap(b))
    \/ \E apply \in BOOLEAN, examined \in SUBSET Digests : BeginPass(apply, examined)
    \/ \E row \in pass.todo : RecordDrift(row)
    \/ \E row \in pass.fixing : FixRow(row)
    \/ EndPass
    \/ \E b \in Blobs : MarkDriftCorrected(b)
    \/ \E b \in Blobs, n \in SurgeryCounts \cup {NoRow} : Surgery(b, n)

Spec == Init /\ [][Next]_vars

(***************************************************************************)
(* On tables that only the registry has written, reconcile reports no      *)
(* drift and changes nothing, whatever commits between its query and its   *)
(* statements: scheduled "apply: true" passes (docs/online-gc.md) are safe *)
(* there.                                                                  *)
(***************************************************************************)
NoDriftWithoutSurgery ==
    surgeries = 0 => drift = {} /\ pass.todo = {} /\ pass.fixing = {} /\ RefcountMatchesEdges

(***************************************************************************)
(* A pass in apply mode that nothing commits beside leaves every row it    *)
(* has processed with no count above its edges and no row missing.         *)
(***************************************************************************)
QuietPassRepairs ==
    pass.pc = "rows" /\ pass.apply /\ pass.quiet =>
        \A b \in pass.examined :
            \/ \E row \in pass.todo \cup pass.fixing : row[1] = b
            \/ refcount[b] # NoRow /\ refcount[b] <= Expected(b)

=============================================================================
