------------------------------ MODULE Importer ------------------------------
(***************************************************************************)
(* ImportRunner of specton-import: copies repositories from another        *)
(* registry, blobs before manifests, and counts what it could not copy.    *)
(* The adapters differ in how they list; each call may fail.               *)
(***************************************************************************)
EXTENDS Naturals, FiniteSets

CONSTANTS
    SourceRepos,    \* what list_repositories returns
    Selected,       \* those with include_prefix
    SourceTags,     \* the tags of each repository
    Lists,          \* the digests the manifest of a tag lists
    Opaque,         \* the <<repository, tag>> whose manifest does not parse
    MaxImports,     \* runs of the importer
    MaxCallErrors   \* calls that fail, over all runs

ASSUME ImportAssumption ==
    /\ Selected \subseteq SourceRepos /\ IsFiniteSet(Selected)
    /\ MaxImports \in Nat /\ MaxCallErrors \in Nat

VARIABLES
    at,         \* what is being copied
    todo,       \* repositories, tags and digests still to copy
    failures,   \* ImportRunReport.failures
    copied,     \* blobs and tags at the destination
    imports,
    callErrors

impVars == <<at, todo, failures, copied, imports, callErrors>>

Nowhere == [pc |-> "idle", repo |-> "none", tag |-> "none"]
NothingToDo == [repos |-> {}, tags |-> {}, digests |-> {}]

ImpInit ==
    /\ at = Nowhere
    /\ todo = NothingToDo
    /\ failures = 0
    /\ copied = [blobs |-> {}, tags |-> {}]
    /\ imports = 0
    /\ callErrors = 0

\* run: without a catalog there is no report
StartImport ==
    /\ at.pc \in {"idle", "done"} /\ imports < MaxImports
    /\ imports' = imports + 1
    /\ at' = [Nowhere EXCEPT !.pc = "run"]
    /\ todo' = [NothingToDo EXCEPT !.repos = Selected]
    /\ failures' = 0
    /\ UNCHANGED <<copied, callErrors>>

\* copy_repo
ListTags(r) ==
    /\ at.pc = "run" /\ r \in todo.repos
    /\ at' = [at EXCEPT !.pc = "repo", !.repo = r]
    /\ todo' = [todo EXCEPT !.repos = @ \ {r}, !.tags = SourceTags[r]]
    /\ UNCHANGED <<failures, copied, imports>>

\* Config, layers and, of an index, child manifests.  A manifest that does not parse, or
\* that lists its layers elsewhere (schema 1), gives an empty list and no error.
ParseDescriptors(r, t) == IF <<r, t>> \in Opaque THEN {} ELSE Lists[r][t]

FetchManifest(t) ==
    /\ at.pc = "repo" /\ t \in todo.tags
    /\ at' = [at EXCEPT !.pc = "tag", !.tag = t]
    /\ todo' = [todo EXCEPT !.tags = @ \ {t}, !.digests = ParseDescriptors(at.repo, t)]
    /\ UNCHANGED <<failures, copied, imports>>

CopyBlob(d) ==
    /\ at.pc = "tag" /\ d \in todo.digests
    /\ copied' = [copied EXCEPT !.blobs = @ \cup {<<at.repo, d>>}]
    /\ todo' = [todo EXCEPT !.digests = @ \ {d}]
    /\ UNCHANGED <<at, failures, imports>>

PutManifest ==
    /\ at.pc = "tag" /\ todo.digests = {}
    /\ copied' = [copied EXCEPT !.tags = @ \cup {<<at.repo, at.tag>>}]
    /\ at' = [at EXCEPT !.pc = "repo", !.tag = "none"]
    /\ UNCHANGED <<todo, failures, imports>>

EndRepo ==
    /\ at.pc = "repo" /\ todo.tags = {}
    /\ at' = [Nowhere EXCEPT !.pc = "run"]
    /\ UNCHANGED <<todo, failures, copied, imports>>

EndImport ==
    /\ at.pc = "run" /\ todo.repos = {}
    /\ at' = [Nowhere EXCEPT !.pc = "done"]
    /\ UNCHANGED <<todo, failures, copied, imports>>

-----------------------------------------------------------------------------
(* Calls that fail *)

ListTagsFails(r) ==
    /\ at.pc = "run" /\ r \in todo.repos
    /\ todo' = [todo EXCEPT !.repos = @ \ {r}]
    /\ failures' = failures + 1
    /\ UNCHANGED <<at, copied, imports>>

FetchManifestFails(t) ==
    /\ at.pc = "repo" /\ t \in todo.tags
    /\ todo' = [todo EXCEPT !.tags = @ \ {t}]
    /\ failures' = failures + 1
    /\ UNCHANGED <<at, copied, imports>>

\* a blob that cannot be fetched is only logged
SkipBlob(d) ==
    /\ at.pc = "tag" /\ d \in todo.digests
    /\ todo' = [todo EXCEPT !.digests = @ \ {d}]
    /\ UNCHANGED <<at, failures, copied, imports>>

\* The other blobs and the manifest are copied all the same.
FetchBlobFails(d) ==
    /\ at.pc = "tag" /\ d \in todo.digests
    /\ todo' = [todo EXCEPT !.digests = @ \ {d}]
    /\ failures' = failures + 1
    /\ UNCHANGED <<at, copied, imports>>

\* put_blob or put_manifest fails: the tag is given up
PutFails ==
    /\ at.pc = "tag"
    /\ at' = [at EXCEPT !.pc = "repo", !.tag = "none"]
    /\ todo' = [todo EXCEPT !.digests = {}]
    /\ failures' = failures + 1
    /\ UNCHANGED <<copied, imports>>

ImportFault ==
    /\ callErrors < MaxCallErrors
    /\ callErrors' = callErrors + 1
    /\ \/ \E r \in todo.repos : ListTagsFails(r)
       \/ \E t \in todo.tags : FetchManifestFails(t)
       \/ \E d \in todo.digests : FetchBlobFails(d)
       \/ PutFails

ImpNext ==
    \/ StartImport
    \/ /\ \/ \E r \in todo.repos : ListTags(r)
          \/ \E t \in todo.tags : FetchManifest(t)
          \/ \E d \in todo.digests : CopyBlob(d)
          \/ PutManifest \/ EndRepo \/ EndImport
       /\ UNCHANGED callErrors
    \/ ImportFault

ImpSpec == ImpInit /\ [][ImpNext]_impVars
-----------------------------------------------------------------------------
(* Properties *)

Complete(r, t) ==
    /\ <<r, t>> \in copied.tags
    /\ <<r, t>> \notin Opaque => {r} \X Lists[r][t] \subseteq copied.blobs

\* A run that reports no failure has brought every tag of the selected repositories with
\* every blob its manifest lists, whichever calls failed in it or in the runs before it,
\* except that a manifest parse_descriptors does not read comes without its blobs.  A run
\* with failures reports at least as many as it leaves repositories with a gap, since
\* copy_tag goes on to the manifest when a blob is missing and copy_repo to the next tag.
ImportReportsGaps ==
    at.pc = "done" =>
        /\ failures = 0 => \A r \in Selected : \A t \in SourceTags[r] : Complete(r, t)
        /\ Cardinality({r \in Selected : \E t \in SourceTags[r] : ~Complete(r, t)}) <= failures
=============================================================================
