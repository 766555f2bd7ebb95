------------------------------- MODULE Promotion -------------------------------
(* Promotion of an image from a source to a destination repository            *)
(* (specton-registry/src/promote.rs, promote_handler) and the signatures that *)
(* go with it (persist_signature, enforce_pull_signature_policy).             *)
(*                                                                            *)
(* Neither holds a lock: a promotion is a sequence of object-store calls, any *)
(* of which may fail, while images are pushed to either repository, deleted   *)
(* by digest and reaped.  The repositories are of two tenants: the collector  *)
(* counts each by itself.                                                     *)
(* An object is its path: a digest under blobs/ or under manifests/.          *)
EXTENDS Naturals, Sequences, FiniteSets

CONSTANTS Images,      \* manifest digests
          Layers,      \* digests of configs and layers
          Refs,        \* manifest -> the digests collect_referenced_digests lists, in order
          Signatures,  \* digests of signature artifacts
          Promoters, Signers,
          MaxPushes,   \* bound: pushes and DELETEs
          MaxCallFaults, \* bound: failed calls
          Nothing

ASSUME RefsAssumption ==
    /\ \A m \in Images : Refs[m] \in Seq(Layers \cup Images)
    /\ Signatures \cap (Layers \cup Images) = {}

VARIABLES src, dst,   \* the two repositories: objects and links
          sigRows,    \* signatures: <<subject, signature>> -> the repository of its row, or Nothing
          prom,       \* promoter -> its progress
          signer,     \* signer -> its progress
          removing,   \* DELETEs that have removed the manifest and not yet its links
          pushes, callFaults,
          removed,    \* history: what DELETEs and the reaper took from dst, until stored again
          unseen      \* history: manifests whose DELETE at dst could not see every link

deleteVars == <<removing, removed, unseen>>
promVars == <<src, dst, sigRows, prom, signer, pushes, callFaults, deleteVars>>

(* counted and paths are what add_refs leaves of a push: the manifests the    *)
(* collector counts references of, and the layers whose path it knows.        *)
EmptyRepo == [blobs |-> {}, manifests |-> {}, tag |-> Nothing,
              sig |-> [m \in Images |-> Nothing], counted |-> {}, paths |-> {}]
Waiting == [pc |-> "idle"]

PromInit ==
    /\ src = EmptyRepo /\ dst = EmptyRepo
    /\ sigRows = [row \in Images \X Signatures |-> Nothing]
    /\ prom = [p \in Promoters |-> Waiting]
    /\ signer = [g \in Signers |-> Waiting]
    /\ removing = {} /\ removed = {} /\ unseen = {}
    /\ pushes = 0 /\ callFaults = 0

(* What a manifest lists, and what its pull needs: an index lists images.     *)
Listed(m) == {Refs[m][i] : i \in DOMAIN Refs[m]}
Reachable(m) == Listed(m) \cup UNION {Listed(c) : c \in Listed(m) \cap Images}

PromTypeOK ==
    /\ \A r \in {src, dst} : /\ r.blobs \subseteq Layers \cup Signatures
                             /\ r.manifests \subseteq Images \cup Signatures
                             /\ r.tag \in Images \cup {Nothing}
    /\ removing \subseteq {"src", "dst"} \X (Images \cup Signatures)
    /\ pushes \in 0..MaxPushes /\ callFaults \in 0..MaxCallFaults

----------------------------------------------------------------------------
(* The repositories' own traffic: put_manifest, delete_manifest and the       *)
(* collector, which have modules of their own.  Here an image arrives whole;  *)
(* what matters to a promotion is what goes away, and when.                   *)

Repo(side) == IF side = "src" THEN src ELSE dst
Becomes(side, repo) ==
    IF side = "src" THEN src' = repo /\ UNCHANGED dst ELSE dst' = repo /\ UNCHANGED src

(* What is stored at the destination again is no longer missing there.        *)
StoredAgain(side, blobs, manifests) ==
    /\ removed' = IF side = "dst" THEN removed \ (blobs \cup manifests) ELSE removed
    /\ unseen' = IF side = "dst" THEN unseen \ manifests ELSE unseen
    /\ UNCHANGED removing

PushImage(side, m) ==
    /\ pushes < MaxPushes /\ pushes' = pushes + 1
    /\ LET layers == Reachable(m) \cap Layers
           images == {m} \cup (Reachable(m) \cap Images)
       IN  /\ Becomes(side, [Repo(side) EXCEPT !.blobs = @ \cup layers, !.manifests = @ \cup images,
                                             !.tag = m, !.counted = @ \cup images, !.paths = @ \cup layers])
           /\ StoredAgain(side, layers, images)
    /\ UNCHANGED <<sigRows, prom, signer, callFaults>>

(* Between storing x at the destination and linking it.                       *)
StillToLink(x) ==
    \/ \E p \in Promoters : /\ prom[p].pc \in {"sig", "siglink", "tag"}
                            /\ prom[p].m = x \/ (prom[p].pc = "siglink" /\ prom[p].s = x)
    \/ \E g \in Signers : signer[g].pc = "link" /\ signer[g].side = "dst" /\ signer[g].s = x

(* DELETE by digest, of an image or of a signature artifact: the manifest is  *)
(* deleted first, tagged or not.                                              *)
DeleteManifest(side, x) ==
    /\ pushes < MaxPushes /\ pushes' = pushes + 1
    /\ x \in Repo(side).manifests /\ <<side, x>> \notin removing
    /\ Becomes(side, [Repo(side) EXCEPT !.manifests = @ \ {x}])
    /\ removing' = removing \cup {<<side, x>>}
    /\ removed' = IF side = "dst" THEN removed \cup {x} ELSE removed
    /\ unseen' = IF side = "dst" /\ StillToLink(x) THEN unseen \cup {x} ELSE unseen
    /\ UNCHANGED <<sigRows, prom, signer, callFaults>>

(* Then every link that names it, the `.sig` links among them, and its        *)
(* references in the collector's tables.                                      *)
DeleteTagsForDigest(side, x) ==
    /\ <<side, x>> \in removing
    /\ removing' = removing \ {<<side, x>>}
    /\ LET r == Repo(side)
       IN  Becomes(side, [r EXCEPT !.tag = IF @ = x THEN Nothing ELSE @,
                                   !.sig = [m \in Images |-> IF r.sig[m] = x THEN Nothing ELSE r.sig[m]],
                                   !.counted = @ \ {x}])
    /\ UNCHANGED <<sigRows, prom, signer, pushes, callFaults, removed, unseen>>

(* A failed listing or delete ends the DELETE with its links in place.        *)
DeleteFails(side, x) ==
    /\ callFaults < MaxCallFaults /\ callFaults' = callFaults + 1
    /\ <<side, x>> \in removing
    /\ removing' = removing \ {<<side, x>>}
    /\ unseen' = IF side = "dst" THEN unseen \cup {x} ELSE unseen
    /\ UNCHANGED <<src, dst, sigRows, prom, signer, pushes, removed>>

(* The reaper deletes the layers whose path a push left and that no counted   *)
(* manifest lists.  promote adds no reference.                                *)
ReapLayer(side, d) ==
    /\ d \in Repo(side).paths \ UNION {Listed(m) : m \in Repo(side).counted}
    /\ Becomes(side, [Repo(side) EXCEPT !.blobs = @ \ {d}, !.paths = @ \ {d}])
    /\ removed' = IF side = "dst" THEN removed \cup {d} ELSE removed
    /\ UNCHANGED <<sigRows, prom, signer, pushes, callFaults, removing, unseen>>

----------------------------------------------------------------------------
(* persist_signature: blob, manifest, `.sig` link, row                        *)

UploadSignature(g, side, m, s) ==
    /\ signer[g].pc = "idle"
    /\ signer' = [signer EXCEPT ![g] = [pc |-> "blob", side |-> side, m |-> m, s |-> s]]
    /\ UNCHANGED <<src, dst, sigRows, prom, pushes, callFaults, deleteVars>>

SignStep(g, from, to) ==
    /\ signer[g].pc = from
    /\ signer' = [signer EXCEPT ![g].pc = to]
    /\ UNCHANGED <<prom, pushes, callFaults>>

PersistSignature(g) ==
    LET s == signer[g].s  m == signer[g].m  side == signer[g].side
    IN  \/ SignStep(g, "blob", "manifest") /\ UNCHANGED <<sigRows, deleteVars>>
           /\ Becomes(side, [Repo(side) EXCEPT !.blobs = @ \cup {s}])
        \/ SignStep(g, "manifest", "link") /\ UNCHANGED sigRows
           /\ Becomes(side, [Repo(side) EXCEPT !.manifests = @ \cup {s}])
           /\ StoredAgain(side, {}, {s})
        \/ SignStep(g, "link", "row") /\ UNCHANGED <<sigRows, deleteVars>>
           /\ Becomes(side, [Repo(side) EXCEPT !.sig[m] = s])

(* ON CONFLICT (subject, signature): the row that is there keeps the          *)
(* repository it has.                                                         *)
PutSignatureRow(m, s, side) ==
    sigRows' = IF sigRows[<<m, s>>] = Nothing THEN [sigRows EXCEPT ![<<m, s>>] = side] ELSE sigRows

(* The row; errors of the referrer and of the audit events are ignored.       *)
RegisterSignatureMetadata(g) ==
    /\ SignStep(g, "row", "done")
    /\ PutSignatureRow(signer[g].m, signer[g].s, signer[g].side)
    /\ UNCHANGED <<src, dst, deleteVars>>

(* A failed call ends the upload where it is; what was written stays.         *)
SignFails(g) ==
    /\ signer[g].pc \in {"blob", "manifest", "link", "row"}
    /\ callFaults < MaxCallFaults /\ callFaults' = callFaults + 1
    /\ signer' = [signer EXCEPT ![g] = Waiting]
    /\ UNCHANGED <<src, dst, sigRows, prom, pushes, deleteVars>>

----------------------------------------------------------------------------
(* promote_handler and promote *)

Step(p, rec) == prom' = [prom EXCEPT ![p] = rec]

(* The call that fails with an error, and any guard of promote that returns   *)
(* one, leaves the copied objects and the row in state 'copying'.             *)
GiveUp(p) ==
    /\ Step(p, Waiting)
    /\ UNCHANGED <<dst, removed, unseen>>

(* What a promotion never touches.                                            *)
Untouched == UNCHANGED <<src, sigRows, signer, pushes, removing>>

Resolves == src.tag # Nothing /\ src.tag \in src.manifests

(* Mode on_policy_pass resolves the tag and asks the gate about that digest   *)
(* (a refusal ends the request); promote is then called in mode Force and     *)
(* resolves the tag again.  Mode dry_run ends at the resolution.              *)
PromoteHandler(p) ==
    /\ prom[p] = Waiting
    /\ src.tag # Nothing
    /\ Step(p, [pc |-> "resolve"])
    /\ Untouched /\ UNCHANGED <<dst, removed, unseen, callFaults>>

ResolveDigest(p) ==
    /\ prom[p].pc = "resolve"
    /\ IF Resolves
       THEN /\ Step(p, [pc |-> "copy", m |-> src.tag, todo |-> Refs[src.tag]])
            /\ UNCHANGED <<dst, removed, unseen>>
       ELSE GiveUp(p)
    /\ Untouched /\ UNCHANGED callFaults

(* copy_object's put; nothing changes when the destination has the object.    *)
StoreBlob(d) ==
    dst' = [dst EXCEPT !.blobs = @ \cup {d}] /\ removed' = removed \ {d} /\ unseen' = unseen
StoreManifest(x) ==
    dst' = [dst EXCEPT !.manifests = @ \cup {x}] /\ removed' = removed \ {x} /\ unseen' = unseen \ {x}

(* blobs/ first, manifests/ otherwise: the layers a child manifest of an      *)
(* index lists are not copied.                                                *)
CopyReferenced(p) ==
    /\ prom[p].pc = "copy" /\ prom[p].todo # <<>>
    /\ LET d == Head(prom[p].todo)
           next == [prom[p] EXCEPT !.todo = Tail(@)]
       IN  CASE d \in src.blobs -> StoreBlob(d) /\ Step(p, next)
             [] d \notin src.blobs /\ d \in src.manifests -> StoreManifest(d) /\ Step(p, next)
             [] OTHER -> GiveUp(p)
    /\ Untouched /\ UNCHANGED callFaults

TagBeforeManifest(p) ==
    /\ prom[p].pc = "copy" /\ prom[p].todo = <<>>
    /\ dst' = [dst EXCEPT !.tag = prom[p].m]
    /\ Step(p, [pc |-> "sig", m |-> prom[p].m])
    /\ Untouched /\ UNCHANGED <<removed, unseen, callFaults>>

(* copy_object skips what the destination has, and fails without a source.    *)
CopyManifest(p) ==
    /\ prom[p].pc = "copy" /\ prom[p].todo = <<>>
    /\ IF prom[p].m \in src.manifests \cup dst.manifests
       THEN /\ StoreManifest(prom[p].m)
            /\ Step(p, [pc |-> "sig", m |-> prom[p].m])
       ELSE GiveUp(p)
    /\ Untouched /\ UNCHANGED callFaults

(* The signature manifest, then its link.  A signature artifact lists no      *)
(* digest, so its blob is not copied; its row in Postgres is not either.      *)
CopySignature(p) ==
    /\ prom[p].pc = "sig"
    /\ LET s == src.sig[prom[p].m]
       IN  IF s # Nothing /\ s \in src.manifests
           THEN /\ StoreManifest(s)
                /\ Step(p, [pc |-> "siglink", m |-> prom[p].m, s |-> s])
           ELSE /\ Step(p, [pc |-> "tag", m |-> prom[p].m])
                /\ UNCHANGED <<dst, removed, unseen>>
    /\ Untouched /\ UNCHANGED callFaults

PutSignatureLink(p) ==
    /\ prom[p].pc = "siglink"
    /\ dst' = [dst EXCEPT !.sig[prom[p].m] = prom[p].s]
    /\ Step(p, [pc |-> "tag", m |-> prom[p].m])
    /\ Untouched /\ UNCHANGED <<removed, unseen, callFaults>>

(* The tag link is written last; the row then reads 'done'.                   *)
PutTagLink(p) ==
    /\ prom[p].pc = "tag"
    /\ dst' = [dst EXCEPT !.tag = prom[p].m]
    /\ Step(p, Waiting)
    /\ Untouched /\ UNCHANGED <<removed, unseen, callFaults>>

CallFails(p) ==
    /\ prom[p].pc \in {"resolve", "copy", "sig", "siglink", "tag"}
    /\ callFaults < MaxCallFaults /\ callFaults' = callFaults + 1
    /\ GiveUp(p)
    /\ Untouched

PromNext ==
    \/ \E side \in {"src", "dst"} :
        \/ \E m \in Images : PushImage(side, m)
        \/ \E x \in Images \cup Signatures : DeleteManifest(side, x)
        \/ \E x \in Images \cup Signatures : DeleteTagsForDigest(side, x) \/ DeleteFails(side, x)
        \/ \E d \in Layers : ReapLayer(side, d)
    \/ \E g \in Signers, side \in {"src", "dst"}, m \in Images, s \in Signatures :
        UploadSignature(g, side, m, s)
    \/ \E g \in Signers : PersistSignature(g) \/ RegisterSignatureMetadata(g)
    \/ \E g \in Signers : SignFails(g)
    \/ \E p \in Promoters : PromoteHandler(p)
    \/ \E p \in Promoters : ResolveDigest(p) \/ CopyReferenced(p) \/ CopyManifest(p)
    \/ \E p \in Promoters : CopySignature(p) \/ PutSignatureLink(p) \/ PutTagLink(p)
    \/ \E p \in Promoters : CallFails(p)

PromSpec == PromInit /\ [][PromNext]_promVars

----------------------------------------------------------------------------
(* enforce_pull_signature_policy with trusted keys: some signature listed for *)
(* the digest in this repository can be read back and verified.               *)
EnforcePullSignaturePolicy(side, m) ==
    \E s \in Signatures : sigRows[<<m, s>>] = side /\ s \in Repo(side).blobs

(* A link of the destination names a manifest that is there, unless the       *)
(* DELETE of that manifest is about to take the link away, could not see it   *)
(* (it came between a promotion's or an upload's last store and its link) or  *)
(* was cut short.                                                             *)
LinkLeads(x) == x \in dst.manifests \cup unseen \/ <<"dst", x>> \in removing

(* What links and rows name is there: the tag's manifest with every digest it *)
(* lists, except those a DELETE or the reaper took from the destination       *)
(* since; the signature manifest of a `.sig` link; and behind every row of a  *)
(* signature the artifact the next pull verifies.  Holds at every moment of   *)
(* promotions, signature uploads, pushes and DELETEs, failed ones included.   *)
PromotedIsComplete ==
    /\ dst.tag # Nothing =>
        LinkLeads(dst.tag) /\ Listed(dst.tag) \subseteq dst.blobs \cup dst.manifests \cup removed
    /\ \A m \in Images : dst.sig[m] # Nothing => LinkLeads(dst.sig[m])
    /\ \A m \in Images, s \in Signatures :
          sigRows[<<m, s>>] # Nothing => EnforcePullSignaturePolicy(sigRows[<<m, s>>], m)
=============================================================================
