----------------------------- MODULE MCController -----------------------------
(* specton-controller for TLC.  The operator and the reconcilers of the other  *)
(* kinds share no state, so a behaviour runs one of the two.                   *)
EXTENDS Operator, PolicySync

VARIABLE part
controllerVars == <<opVars, syncVars, part>>

(* A tenant, an object that names it and is edited again, and an object of     *)
(* policies.rs with a Secret.                                                  *)
MCNames == [r \in Resources |-> IF r \in Tenancy THEN {} ELSE Secrets]
MCGenerations == [r \in Objects |-> IF r = "access" THEN 2 ELSE 1]

Init ==
    /\ OpInit /\ SyncInit
    /\ part \in {"operator", "sync"}
    /\ part = "operator" => deployed.auth /\ deployed.registry /\ ~cr.paused
    /\ part = "sync" => cr.paused /\ ~cr.auto

Next ==
    /\ UNCHANGED part
    /\ \/ part = "operator" /\ OpNext /\ UNCHANGED syncVars
       \/ part = "sync" /\ SyncNext /\ UNCHANGED opVars

Spec ==
    /\ Init /\ [][Next]_controllerVars
    /\ WF_opVars(part = "operator" /\ Passing) /\ ClusterFairness
    /\ SyncFairness
=============================================================================
