------------------------------ MODULE MCPlatform ------------------------------
(* Uploads, tag expiry, the lazy-pull queue, the importer, usage telemetry,    *)
(* the assistant and the circuit breaker for TLC.  They share no state, so a   *)
(* behaviour runs one of the Parts.                                            *)
EXTENDS Uploads, Expiry, LazyJobs, Importer, Usage, Pilot, ResilientStore

CONSTANT Parts

VARIABLE part
platformVars == <<upVars, ttlVars, lazyVars, impVars, usageVars, pilotVars, vars, part>>

(* Two chunks, the second of which may also come with a completing PUT; the    *)
(* PUT without a body is repeated.                                             *)
MCBody == [r \in Requests |->
    CASE r = "patch1" -> <<1>> [] r \in {"put", "retry"} -> <<>> [] OTHER -> <<2>>]
MCWhole == <<1, 2>>
MCEndpoints == <<TRUE, FALSE>>

(* A push that expires at once and, in turn, one that lives on, one without a  *)
(* TTL and one of another tag, with which it competes for the batch.           *)
MCTagOf == [p \in Pushes |-> IF p = "other" THEN "second" ELSE "tag"]
MCTtl == [p \in Pushes |-> CASE p \in {"short", "other"} -> 0 [] p = "long" -> 1 [] OTHER -> NoTtl]
MCSecond == [expiry |-> "long", untimed |-> "plain", batch |-> "other"]

(* Two pushes of one layer, and a job of three of the other shapes.            *)
MCShape == [j \in LazyRows |-> IF j = "again" THEN "plain" ELSE j]
MCLayerOf == MCShape

MCSourceTags == [r \in SourceRepos |-> IF r = "a" THEN {"t1", "t2"} ELSE {"t1"}]
MCLists == [r \in SourceRepos |-> [t \in {"t1", "t2"} |-> IF t = "t1" THEN {"x", "y"} ELSE {"y"}]]
MCOpaque == {<<"a", "t2">>}

(* One turn may ask for a promotion and for a repair of the counts; the other  *)
(* is answered at once.                                                        *)
MCAsks == [t \in Turns |->
    IF t = "writer" THEN {<<"promote_tag", FALSE>>, <<"run_gc_reconcile", TRUE>>}
    ELSE {}]
MCTenantOf == [t \in Turns |-> "acme"]

PlatformInit ==
    /\ UpInit /\ TtlInit /\ LazyInit /\ ImpInit /\ UsageInit /\ PilotInit /\ Init
    /\ part \in Parts
    /\ serves["writer"] = "n1"   \* the replicas are alike
    /\ part # "pilot" => capped /\ serves["reader"] = "n1"

PlatformNext ==
    /\ UNCHANGED part
    /\ \/ /\ part = "uploads" /\ UpNext
          /\ UNCHANGED <<ttlVars, lazyVars, impVars, usageVars, pilotVars, vars>>
       \/ /\ part \in DOMAIN MCSecond /\ TtlNext
          /\ \A p \in Pushes \ {"short", MCSecond[part]} : push'[p].pc = "unsent"
          /\ UNCHANGED <<upVars, lazyVars, impVars, usageVars, pilotVars, vars>>
       \/ /\ part = "lazy" /\ LazyNext
          /\ UNCHANGED <<upVars, ttlVars, impVars, usageVars, pilotVars, vars>>
       \/ /\ part = "import" /\ ImpNext
          /\ UNCHANGED <<upVars, ttlVars, lazyVars, usageVars, pilotVars, vars>>
       \/ /\ part = "usage" /\ UsageNext
          /\ UNCHANGED <<upVars, ttlVars, lazyVars, impVars, pilotVars, vars>>
       \/ /\ part = "pilot" /\ PilotNext
          /\ UNCHANGED <<upVars, ttlVars, lazyVars, impVars, usageVars, vars>>
       \/ /\ part = "breaker" /\ Next
          /\ UNCHANGED <<upVars, ttlVars, lazyVars, impVars, usageVars, pilotVars>>

PlatformSpec ==
    /\ PlatformInit /\ [][PlatformNext]_platformVars
    /\ UpFairness /\ TtlFairness /\ LazyFairness /\ UsageFairness /\ Fairness
=============================================================================
