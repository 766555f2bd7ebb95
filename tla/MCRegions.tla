------------------------------ MODULE MCRegions ------------------------------
(***************************************************************************)
(* The two ways a registry gets content it was not pushed: replication and *)
(* failover between regions, or a pull-through mirror.  get_manifest and   *)
(* get_blob use the mirror when there is one and failover otherwise, so a  *)
(* deployment is one or the other.                                         *)
(***************************************************************************)
EXTENDS Regions, Mirror

VARIABLE mirrored  \* state.mirror_service.is_some()

vars == <<regionVars, mirrorVars, mirrored>>

MCUpstreams == <<"hub", "quay">>

\* Replication starts from nothing or from one tagged image that every region has.
Init ==
    /\ RegionInit /\ MirrorInit /\ mirrored \in BOOLEAN
    /\ mans[Primary] \subseteq (IF mirrored THEN {} ELSE {CHOOSE m \in Manifest : TRUE})
    /\ tag[Primary] = NoTag => mans[Primary] = {}
    /\ ~mirrored => mtag = NoImage /\ scope = "private" /\ \E u \in Up : remote[u].tag = CHOOSE d \in Image : TRUE

Next ==
    \/ ~mirrored /\ RegionNext /\ UNCHANGED <<mirrorVars, mirrored>>
    \/ mirrored /\ MirrorNext /\ UNCHANGED <<regionVars, mirrored>>

Spec == Init /\ [][Next]_vars /\ RegionFairness

=============================================================================
