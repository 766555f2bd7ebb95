------------------------------- MODULE MCAuth -------------------------------
(* The auth service for TLC: provisioning, identity and the life of a token   *)
(* share no state but the process, so a behaviour runs one of the three and   *)
(* freezes the others.                                                        *)
EXTENDS Provisioning, Identity, TokenScopes

VARIABLE part
avars == <<pvars, ivars, tvars, part>>

(* "ops*": the prefix pattern also grants through the substring test.         *)
MCMappings(g1, g2) ==
    << [matches |-> {g1}, grants |-> {g1, g2}, role |-> Maintainer, tenant |-> TRUE,
        project |-> "unknown"],
       [matches |-> {g2}, grants |-> {g2}, role |-> Admin, tenant |-> TRUE, project |-> "known"],
       [matches |-> {g1}, grants |-> {g1}, role |-> Admin, tenant |-> FALSE, project |-> "none"] >>
ThreeMappings == MCMappings("ops-eu", "devops")

Init ==
    /\ ProvInit /\ IdentInit /\ TokenInit
    /\ part \in {"provisioning", "identity", "token"}
    /\ part # "identity" => up

Next ==
    /\ UNCHANGED part
    /\ \/ part = "provisioning" /\ ProvNext /\ UNCHANGED <<ivars, tvars>>
       \/ part = "identity" /\ IdentNext /\ UNCHANGED <<pvars, tvars>>
       \/ part = "token" /\ TokenNext /\ UNCHANGED <<pvars, ivars>>

Spec == Init /\ [][Next]_avars /\ (part = "identity" => IdentFairness)

(* RotatedKeyIsLearned, in the behaviours that run the identity part.         *)
KeysAreLearned == part = "identity" => RotatedKeyIsLearned
=============================================================================
