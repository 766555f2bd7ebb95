------------------------------- MODULE MCTags -------------------------------
(* Links and what they name, for TLC: the manifests and tags of repositories  *)
(* under PUT and DELETE, and a promotion with its signatures between two      *)
(* repositories.  The modules share no state, so a behaviour runs one.        *)
EXTENDS TagSafety, Promotion

VARIABLE part
tagsVars == <<vars, promVars, part>>

(* An image of two layers, and an index that lists it.                        *)
MCRefs == [m \in {"image", "index"} |-> IF m = "image" THEN <<"config", "layer">> ELSE <<"image">>]

TagsInit == Init /\ PromInit /\ part \in {"store", "promotion"}

TagsNext ==
    /\ UNCHANGED part
    /\ \/ part = "store" /\ Next /\ UNCHANGED promVars
       \/ part = "promotion" /\ PromNext /\ UNCHANGED vars
       \/ part = "promotion" /\ pushes = MaxPushes /\ UNCHANGED <<vars, promVars>>

TagsSpec == TagsInit /\ [][TagsNext]_tagsVars
=============================================================================
