---------------------------- MODULE ManifestStore ----------------------------
(***************************************************************************)
(* The manifest endpoints of specton-registry: PUT and DELETE of           *)
(* /v2/{tenant}/{project}/{name}/manifests/{reference}.                    *)
(*                                                                         *)
(* A manifest is an object at .../manifests/<digest>, a tag is an object   *)
(* at .../tags/<tag> whose content is a digest.  The object store is       *)
(* atomic per object and offers no transaction over two of them, so each   *)
(* handler is a sequence of store calls and requests interleave between    *)
(* any two calls.  A handler may stop after any call: a store error makes  *)
(* it return early, a lost connection drops its future, a crash ends it.   *)
(*                                                                         *)
(* One tenant is modelled: every key starts with the tenant, so tenants    *)
(* share nothing here.  A repo stands for a project/name pair.  What a     *)
(* handler does after its last store call (replication event, webhook,     *)
(* scan job, audit record) touches none of this state and ends with        *)
(* Return.                                                                 *)
(***************************************************************************)
EXTENDS Naturals, FiniteSets

CONSTANTS Repos,      \* project/name pairs of one tenant
          Manifests,  \* manifest digests clients push
          Tags,       \* tag names
          Clients,    \* concurrent requests
          None,       \* absence of a tag link, of a tag in a reference
          Faults      \* may a request be cut short between two store calls

ASSUME NoneAssumption == None \notin Manifests /\ None \notin Tags /\ None \notin Repos
ASSUME FaultsAssumption == Faults \in BOOLEAN

VARIABLES manifests,  \* the manifest objects that exist, <<repo, digest>>
          tagLink,    \* content of each tag object, None when there is none
          req         \* where the handler of each client's request is

storeVars == <<manifests, tagLink, req>>

PutSteps    == {"put_tag", "add_refs"}
ScanSteps   == {"list_tags", "scan_tags", "delete_link"}
DeleteSteps == ScanSteps \cup {"remove_refs"}
Steps       == {"idle", "drop_tag"} \cup PutSteps \cup DeleteSteps

\* found: the DELETE met the manifest or one of its tags (manifest_existed,
\* removed_tags).  links: tags of the listing not visited yet.
Requests == [pc : Steps, repo : Repos \cup {None}, man : Manifests \cup {None},
             ref : Tags \cup {None}, links : SUBSET Tags, found : BOOLEAN]

IdleReq == [pc |-> "idle", repo |-> None, man |-> None, ref |-> None,
            links |-> {}, found |-> FALSE]

StoreTypeOK ==
    /\ manifests \subseteq Repos \X Manifests
    /\ tagLink \in [Repos \X Tags -> Manifests \cup {None}]
    /\ req \in [Clients -> Requests]

StoreInit ==
    /\ manifests = {}
    /\ tagLink = [rt \in Repos \X Tags |-> None]
    /\ req = [c \in Clients |-> IdleReq]

At(c, pc) == req[c].pc = pc
GoTo(c, pc) == req' = [req EXCEPT ![c].pc = pc]
Finish(c) == req' = [req EXCEPT ![c] = IdleReq]
Link(c, t) == tagLink[<<req[c].repo, t>>]
SetLink(c, t, m) == tagLink' = [tagLink EXCEPT ![<<req[c].repo, t>>] = m]

(***************************************************************************)
(* put_manifest: the manifest object, then the tag link when the reference *)
(* is a tag, then the refcount hook.                                       *)
(***************************************************************************)
PutManifest(c, r, m, ref) ==
    /\ At(c, "idle")
    /\ manifests' = manifests \cup {<<r, m>>}
    /\ req' = [req EXCEPT ![c] =
                  [IdleReq EXCEPT !.pc = IF ref = None THEN "add_refs" ELSE "put_tag",
                                  !.repo = r, !.man = m, !.ref = ref]]
    /\ UNCHANGED tagLink

PutTag(c) ==
    /\ At(c, "put_tag")
    /\ SetLink(c, req[c].ref, req[c].man)
    /\ GoTo(c, "add_refs")
    /\ UNCHANGED manifests

(***************************************************************************)
(* delete_manifest by digest: the manifest, then every tag of a listing    *)
(* whose link reads as the digest; 404 when neither existed.               *)
(***************************************************************************)
DeleteByDigest(c, r, m) ==
    /\ At(c, "idle")
    /\ manifests' = manifests \ {<<r, m>>}
    /\ req' = [req EXCEPT ![c] = [IdleReq EXCEPT !.pc = "list_tags", !.repo = r, !.man = m,
                                                 !.found = <<r, m>> \in manifests]]
    /\ UNCHANGED tagLink

ListTags(c) ==
    /\ At(c, "list_tags")
    /\ req' = [req EXCEPT ![c].pc = "scan_tags",
                          ![c].links = {t \in Tags : Link(c, t) # None}]
    /\ UNCHANGED <<manifests, tagLink>>

\* Mutant: the loop takes every tag of the listing.
ReadAny(c, t) ==
    /\ At(c, "scan_tags")
    /\ t \in req[c].links
    /\ req' = [req EXCEPT ![c].pc = "delete_link", ![c].ref = t]
    /\ UNCHANGED <<manifests, tagLink>>

\* read_tag_link: a link that reads as the digest is deleted by the next call.
ReadLink(c, t) ==
    /\ At(c, "scan_tags")
    /\ t \in req[c].links
    /\ req' = IF Link(c, t) = req[c].man
              THEN [req EXCEPT ![c].pc = "delete_link", ![c].ref = t]
              ELSE [req EXCEPT ![c].links = @ \ {t}]
    /\ UNCHANGED <<manifests, tagLink>>

\* Deletes whatever the link holds by now; NotFound is not an error.
DeleteLink(c) ==
    /\ At(c, "delete_link")
    /\ req' = [req EXCEPT ![c].pc = "scan_tags", ![c].ref = None,
                          ![c].links = @ \ {req[c].ref},
                          ![c].found = @ \/ Link(c, req[c].ref) # None]
    /\ SetLink(c, req[c].ref, None)
    /\ UNCHANGED manifests

\* Mutant: the loop stops before the end of the listing.
EndScanEarly(c) ==
    /\ At(c, "scan_tags")
    /\ IF req[c].found THEN GoTo(c, "remove_refs") ELSE Finish(c)
    /\ UNCHANGED <<manifests, tagLink>>

EndScan(c) ==
    /\ At(c, "scan_tags")
    /\ req[c].links = {}
    /\ IF req[c].found THEN GoTo(c, "remove_refs") ELSE Finish(c)
    /\ UNCHANGED <<manifests, tagLink>>

(***************************************************************************)
(* delete_manifest by tag: the link is read (404 when there is none) and   *)
(* deleted; the manifest and its references stay.                          *)
(***************************************************************************)
DeleteByTag(c, r, t) ==
    /\ At(c, "idle")
    /\ tagLink[<<r, t>>] # None
    /\ req' = [req EXCEPT ![c] = [IdleReq EXCEPT !.pc = "drop_tag", !.repo = r, !.ref = t,
                                                 !.man = tagLink[<<r, t>>]]]
    /\ UNCHANGED <<manifests, tagLink>>

DropTag(c) ==
    /\ At(c, "drop_tag")
    /\ SetLink(c, req[c].ref, None)
    /\ Finish(c)
    /\ UNCHANGED manifests

\* The rest of a handler when online GC is off: NoopBlobRefCounter.
Return(c) ==
    /\ req[c].pc \in {"add_refs", "remove_refs"}
    /\ Finish(c)
    /\ UNCHANGED <<manifests, tagLink>>

\* The request ends between two store calls.
Abandon(c) ==
    /\ Faults
    /\ ~At(c, "idle")
    /\ Finish(c)
    /\ UNCHANGED <<manifests, tagLink>>

HandlerStep(c) ==
    \/ PutTag(c)
    \/ ListTags(c)
    \/ \E t \in Tags : ReadLink(c, t)
    \/ DeleteLink(c)
    \/ EndScan(c)
    \/ DropTag(c)

Arrive(c) ==
    \E r \in Repos :
        \/ \E m \in Manifests, ref \in Tags \cup {None} : PutManifest(c, r, m, ref)
        \/ \E m \in Manifests : DeleteByDigest(c, r, m)
        \/ \E t \in Tags : DeleteByTag(c, r, t)

StoreNext == \E c \in Clients : Arrive(c) \/ HandlerStep(c) \/ Return(c) \/ Abandon(c)

(***************************************************************************)
(* A handler is polled until it returns: the runtime schedules every task  *)
(* that is ready and a store call ends, with an answer or an error.        *)
(***************************************************************************)
StoreFairness == \A c \in Clients : WF_storeVars(HandlerStep(c) \/ Return(c))

StoreSpec == StoreInit /\ [][StoreNext]_storeVars /\ StoreFairness

Putting(c, r, m) == req[c].pc \in PutSteps /\ req[c].repo = r /\ req[c].man = m
Scanning(c, r, m) == req[c].pc \in ScanSteps /\ req[c].repo = r /\ req[c].man = m

\* A tag of r that points at a manifest r does not hold.
Dangling(r, t) == tagLink[<<r, t>>] # None /\ <<r, tagLink[<<r, t>>]>> \notin manifests
=============================================================================
