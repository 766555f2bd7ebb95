------------------------------ MODULE TagSafety ------------------------------
(***************************************************************************)
(* What PUT and DELETE promise about tags.  The comment in delete_manifest *)
(* says a DELETE by digest removes the manifest and every tag pointing at  *)
(* it "so no tag is left dangling", and no request should lose a tag that  *)
(* it does not name.  This module adds to ManifestStore two histories and  *)
(* states exactly how far these promises go: raced has a digest once a PUT *)
(* and a DELETE of it were in flight together or a DELETE of it was cut    *)
(* short; settled has <<repo, tag, digest>> once a PUT has linked them     *)
(* while no other request was about to touch the tag, until one arrives    *)
(* that names the tag or deletes the digest.                               *)
(***************************************************************************)
EXTENDS ManifestStore

VARIABLES raced, settled

vars == <<storeVars, raced, settled>>

\* A DELETE cut short before its tags were all visited.
CutShort(c, r, m) ==
    Scanning(c, r, m) /\ At(c, "idle")' /\ ~(At(c, "scan_tags") /\ req[c].links = {})

RecordRaces ==
    raced' = raced \cup
        {rm \in Repos \X Manifests :
            \/ \E c, d \in Clients : Putting(c, rm[1], rm[2])' /\ Scanning(d, rm[1], rm[2])'
            \/ \E c \in Clients : CutShort(c, rm[1], rm[2])}

\* A request names the tag, or is a DELETE by the digest.
Names(c, r, t, m) ==
    \/ Scanning(c, r, m)
    \/ req[c].pc \in {"put_tag", "drop_tag"} /\ req[c].repo = r /\ req[c].ref = t

\* A DELETE by any digest has read the link of t and deletes it next.
InWindow(c, r, t) == At(c, "delete_link") /\ req[c].repo = r /\ req[c].ref = t

\* The step is the tag write of c.
Linked(c, r, t, m) == Putting(c, r, m) /\ req[c].ref = t /\ At(c, "put_tag") /\ At(c, "add_refs")'

RecordSettled ==
    settled' =
        {s \in Repos \X Tags \X Manifests :
            /\ \A d \in Clients : ~Names(d, s[1], s[2], s[3])'
            /\ \/ s \in settled
               \/ /\ \E c \in Clients : Linked(c, s[1], s[2], s[3])
                  /\ \A d \in Clients : ~InWindow(d, s[1], s[2])'}

Record == RecordRaces /\ RecordSettled

Init == StoreInit /\ raced = {} /\ settled = {}
Next ==
    \E c \in Clients :
        \/ Arrive(c) /\ Record
        \/ HandlerStep(c) /\ Record
        \/ Return(c) /\ Record
        \/ Abandon(c) /\ Record
Spec == Init /\ [][Next]_vars /\ StoreFairness

TypeOK ==
    /\ StoreTypeOK
    /\ raced \subseteq Repos \X Manifests
    /\ settled \subseteq Repos \X Tags \X Manifests

(***************************************************************************)
(* A DELETE of the digest is on its way to remove tag t: it has not listed *)
(* the tags yet, or t is in its listing.                                   *)
(***************************************************************************)
WillVisit(c, r, t, m) ==
    Scanning(c, r, m) /\ (At(c, "list_tags") \/ t \in req[c].links)

(***************************************************************************)
(* delete_manifest's promise, with its exact scope: a tag dangles only     *)
(* while a DELETE that will still remove it is running, or when a PUT and  *)
(* a DELETE of the same digest overlapped, or a DELETE was cut short.      *)
(***************************************************************************)
DanglingOnlyIfRaced ==
    \A r \in Repos, t \in Tags :
        Dangling(r, t) =>
            \/ <<r, tagLink[<<r, t>>]>> \in raced
            \/ \E c \in Clients : WillVisit(c, r, t, tagLink[<<r, t>>])

(***************************************************************************)
(* A tag that a PUT has linked while no other request was about to touch   *)
(* it keeps its link until a request arrives that names the tag or deletes *)
(* the digest: the tag loops of DELETEs by other digests, wherever they    *)
(* are in their listings, pass it by.  A DELETE that had read the tag's    *)
(* old link when the PUT wrote the new one takes the new one, which is why *)
(* such a PUT does not settle.                                             *)
(***************************************************************************)
SettledTagsHold == \A s \in settled : tagLink[<<s[1], s[2]>>] = s[3]

(***************************************************************************)
(* Both halves: a tag that is there is not left dangling, and a tag that   *)
(* was pushed does not vanish, outside the overlaps that the two histories *)
(* record.                                                                 *)
(***************************************************************************)
TagsAreExplained == DanglingOnlyIfRaced /\ SettledTagsHold
=============================================================================
