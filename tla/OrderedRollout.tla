--------------------------- MODULE OrderedRollout ---------------------------
(***************************************************************************)
(* What the operator promises of an upgrade, whatever its passes, crashes  *)
(* and the edits of the resource: the registry, which runs the schema      *)
(* migrations when it starts, is moved to an image only when no auth pod   *)
(* runs another one.  Nothing is said of the order in which auth moves,    *)
(* nor of objects that are created or deleted.                             *)
(***************************************************************************)
CONSTANTS Images, Absent

VARIABLES authImage, authPods, registryImage

rolloutVars == <<authImage, authPods, registryImage>>

RolloutInit ==
    /\ authImage = Absent
    /\ authPods = {}
    /\ registryImage = Absent

\* auth is created or takes another image: its pods may start
MoveAuth ==
    /\ authImage' \in Images
    /\ authPods' = authPods \cup {authImage'}
    /\ UNCHANGED registryImage

\* pods of other images stop
RollAuth ==
    /\ authPods' \subseteq authPods
    /\ UNCHANGED <<authImage, registryImage>>

RemoveAuth ==
    /\ authImage' = Absent
    /\ authPods' = {}
    /\ UNCHANGED registryImage

CreateRegistry ==
    /\ registryImage = Absent
    /\ registryImage' \in Images
    /\ UNCHANGED <<authImage, authPods>>

MoveRegistry ==
    /\ registryImage' \in Images
    /\ authImage \in {Absent, registryImage'}
    /\ authPods \subseteq {registryImage'}
    /\ UNCHANGED <<authImage, authPods>>

RemoveRegistry ==
    /\ registryImage' = Absent
    /\ UNCHANGED <<authImage, authPods>>

RolloutNext ==
    MoveAuth \/ RollAuth \/ RemoveAuth \/ CreateRegistry \/ MoveRegistry \/ RemoveRegistry

RolloutSpec == RolloutInit /\ [][RolloutNext]_rolloutVars
=============================================================================
