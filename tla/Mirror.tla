-------------------------------- MODULE Mirror --------------------------------
(***************************************************************************)
(* The pull-through mirror over one repository with one tag: MirrorService *)
(* (fetch_manifest, fetch_blob), the UpstreamClient's token cache, and     *)
(* CacheManager's index, beside clients that push to the same repository.  *)
(*                                                                         *)
(* A manifest and its only layer share one name.  An open breaker, a       *)
(* transport failure and a 5xx are one outcome for the caller: the         *)
(* upstream is unavailable.  The index is only ever read by the            *)
(* ManifestLinked scope: cached tags are not refreshed.                    *)
(***************************************************************************)
EXTENDS Integers, Sequences, FiniteSets

CONSTANTS Upstreams,   \* upstream names in the order they are tried
          Image,       \* manifest digests, each with one layer
          NoImage,     \* no manifest
          Pulls,       \* concurrent pull requests
          MaxChanges   \* bound: pushes, upstream changes and faults

ASSUME MirrorAssumption ==
    /\ NoImage \notin Image /\ MaxChanges \in Nat
    /\ Len(Upstreams) \in Nat \ {0}

VARIABLES scope,       \* MirrorScope, as it decides for this repository
          mmans, mtag, \* manifests and tag link in the local store
          mlayers,     \* layers in the local store
          index,       \* .mirror/cache-index.json
          remote,      \* what each upstream answers, and its tag
          token,       \* cached bearer token of each upstream
          pull,        \* where each request is
          cached,      \* history: entries whose record_cached was due
          pushed,      \* history: what a client last pushed to the tag
          clash,       \* history: the last push met a fetch of the tag, or a
                       \* fetch began because the link could not be read
          torn,        \* history: record_cached calls overlapped, were cut, or
                       \* did not get to read the index
          changes

mirrorVars == <<scope, mmans, mtag, mlayers, index, remote, token, pull, cached,
                pushed, clash, torn, changes>>

Up == {Upstreams[i] : i \in 1..Len(Upstreams)}
ManifestEntry(d) == <<"manifest", d>>
LayerEntry(d) == <<"layer", d>>
NoPull == [pc |-> "idle", i |-> 0, entry |-> ManifestEntry(NoImage), missing |-> TRUE, seen |-> {}]

\* The repository is empty or a client has pushed an image to it.
MirrorInit ==
    /\ scope \in {"eligible", "linked", "private"} /\ index = {}
    /\ mtag \in Image \cup {NoImage} /\ pushed = mtag
    /\ mmans = {mtag} \ {NoImage} /\ mlayers = mmans
    /\ \E d \in Image : remote = [u \in Up |-> [st |-> "ok", tag |-> IF u = Upstreams[1] THEN NoImage ELSE d]]
    /\ token = [u \in Up |-> "none"]
    /\ pull = [p \in Pulls |-> NoPull]
    /\ cached = {} /\ clash = FALSE /\ torn = FALSE /\ changes = 0

Change == changes < MaxChanges /\ changes' = changes + 1
PullStep(p, q) == pull' = [pull EXCEPT ![p] = q]

\* Mutant: the upstreams are asked before the local store.
BeginPullAnyway(p, unread) ==
    /\ pull[p].pc = "idle" /\ scope # "private" /\ ~unread
    /\ PullStep(p, [NoPull EXCEPT !.pc = "ask", !.i = 1])
    /\ UNCHANGED <<scope, mmans, mtag, mlayers, index, remote, token, cached, pushed,
                   clash, torn, changes>>

\* GET of the tag.  A local hit, a private project (NotInScope) and an
\* empty list of upstreams answer at once and change nothing.  No link, a link
\* to a manifest that is not there, and any error of the store while it reads
\* the link (unread) are all a local miss; a manifest that is there and cannot
\* be read is a 500.
BeginPull(p, unread) ==
    /\ pull[p].pc = "idle" /\ scope # "private"
    /\ IF unread THEN Change ELSE mtag \notin mmans /\ UNCHANGED changes
    /\ PullStep(p, [NoPull EXCEPT !.pc = "ask", !.i = 1])
    /\ clash' = (clash \/ (unread /\ mtag # NoImage))
    /\ UNCHANGED <<scope, mmans, mtag, mlayers, index, remote, token, cached, pushed, torn>>

\* ManifestLinked asks the index for the layer's own digest.
Eligible(d) == scope = "eligible" \/ (scope = "linked" /\ LayerEntry(d) \in index)

\* GET of a layer of a manifest that is there.
BeginLayer(p, d) ==
    /\ pull[p].pc = "idle" /\ Eligible(d)
    /\ d \in mmans \ mlayers
    /\ PullStep(p, [NoPull EXCEPT !.pc = "ask", !.i = 1, !.entry = LayerEntry(d)])
    /\ UNCHANGED <<scope, mmans, mtag, mlayers, index, remote, token, cached, pushed,
                   clash, torn, changes>>

\* authed_get: a cached token that is refused is dropped and a new one asked
\* for at the challenge's realm.
AuthedGet(u) ==
    token' = [token EXCEPT ![u] = CASE remote[u].st = "ok" -> "good"
                                    [] remote[u].st = "down" -> @
                                    [] remote[u].st = "refuses" -> "none"]

\* What the upstream holds of the entry asked for; a layer never goes away.
Found(u, entry) ==
    IF remote[u].st # "ok" THEN NoImage
    ELSE IF entry[1] = "layer" THEN entry[2] ELSE remote[u].tag

\* One upstream is asked; the next one follows an error, and after the last
\* the answer is 404 if every error is like not found and 502 otherwise.
AskUpstream(p) ==
    LET q == pull[p]
        u == Upstreams[q.i]
        d == Found(u, q.entry)
        missing == q.missing /\ remote[u].st # "refuses"
    IN /\ q.pc = "ask"
       /\ AuthedGet(u)
       /\ PullStep(p, IF d # NoImage
                      THEN [q EXCEPT !.pc = "put", !.entry = <<@[1], d>>]
                      ELSE IF q.i < Len(Upstreams)
                      THEN [q EXCEPT !.i = @ + 1, !.missing = missing]
                      ELSE NoPull)
       /\ UNCHANGED <<scope, mmans, mtag, mlayers, index, remote, cached, pushed, clash,
                      torn, changes>>

\* The object is cached; a failed put is only logged.
CacheObject(p, stored) ==
    LET d == pull[p].entry[2]
    IN /\ pull[p].pc = "put"
       /\ IF stored THEN UNCHANGED changes ELSE Change
       /\ IF pull[p].entry[1] = "layer"
          THEN mlayers' = (IF stored THEN mlayers \cup {d} ELSE mlayers) /\ UNCHANGED mmans
          ELSE mmans' = (IF stored THEN mmans \cup {d} ELSE mmans) /\ UNCHANGED mlayers
       /\ PullStep(p, [pull[p] EXCEPT !.pc = "link"])
       /\ UNCHANGED <<scope, mtag, index, remote, token, cached, pushed, clash, torn>>

\* load_index: an index that cannot be read or parsed is an empty one.
LoadIndex(read) == IF read THEN index ELSE {}

\* The tag link is written without another look at the store, a failed put is
\* only logged; record_cached then reads the whole index (nothing another
\* request does in between is seen by one of the two and not by the other) ...
LinkTag(p, linked, read) ==
    LET q == pull[p]
    IN /\ q.pc = "link"
       /\ IF linked /\ read THEN UNCHANGED changes ELSE Change
       /\ mtag' = IF linked /\ q.entry[1] = "manifest" THEN q.entry[2] ELSE mtag
       /\ PullStep(p, [q EXCEPT !.pc = "save", !.seen = LoadIndex(read)])
       /\ cached' = cached \cup {q.entry}
       /\ torn' = (torn \/ ~read \/ \E o \in Pulls \ {p} : pull[o].pc = "save")
       /\ UNCHANGED <<scope, mmans, mlayers, index, remote, token, pushed, clash>>

\* Mutant: the index is written with the new entry alone.
SaveIndexAlone(p) ==
    /\ pull[p].pc = "save"
    /\ index' = {pull[p].entry}
    /\ PullStep(p, NoPull)
    /\ UNCHANGED <<scope, mmans, mtag, mlayers, remote, token, cached, pushed, clash, torn,
                   changes>>

\* ... and writes it back with the entry.
SaveIndex(p) ==
    /\ pull[p].pc = "save"
    /\ index' = pull[p].seen \cup {pull[p].entry}
    /\ PullStep(p, NoPull)
    /\ UNCHANGED <<scope, mmans, mtag, mlayers, remote, token, cached, pushed, clash, torn,
                   changes>>

\* The client goes away, or the put of the index fails.
DropPull(p) ==
    /\ pull[p].pc # "idle" /\ Change
    /\ PullStep(p, NoPull)
    /\ torn' = (torn \/ pull[p].pc = "save")
    /\ UNCHANGED <<scope, mmans, mtag, mlayers, index, remote, token, cached, pushed, clash>>

\* put_manifest of a client of this registry.
PushLocal(d) ==
    /\ Change
    /\ mmans' = mmans \cup {d} /\ mtag' = d /\ pushed' = d
    /\ clash' = \E p \in Pulls : pull[p].pc # "idle" /\ pull[p].entry[1] = "manifest"
    /\ UNCHANGED <<scope, mlayers, index, remote, token, pull, cached, torn>>

\* An upstream's tag moves, it goes down, it refuses the credentials, or it
\* no longer takes a token it gave.
UpstreamChanges(u) ==
    /\ Change
    /\ \/ \E r \in [st : {"ok", "down", "refuses"}, tag : Image \cup {NoImage}] :
             remote' = [remote EXCEPT ![u] = r] /\ UNCHANGED token
       \/ token[u] = "good" /\ token' = [token EXCEPT ![u] = "stale"] /\ UNCHANGED remote
    /\ UNCHANGED <<scope, mmans, mtag, mlayers, index, pull, cached, pushed, clash, torn>>

MirrorNext ==
    \/ \E p \in Pulls :
          \/ AskUpstream(p) \/ SaveIndex(p) \/ DropPull(p)
          \/ \E unread \in BOOLEAN : BeginPull(p, unread)
          \/ \E linked, read \in BOOLEAN : LinkTag(p, linked, read)
          \/ \E d \in Image : BeginLayer(p, d)
          \/ \E stored \in BOOLEAN : CacheObject(p, stored)
    \/ \E d \in Image : PushLocal(d)
    \/ \E u \in Up : UpstreamChanges(u)

MirrorSpec == MirrorInit /\ [][MirrorNext]_mirrorVars
-----------------------------------------------------------------------------
\* What a client pushed to a tag is not replaced by what an upstream has under
\* that name, with two exceptions: a fetch of the tag was under way at the push,
\* whose link fetch_manifest writes without looking again; or the store failed
\* to read the link of a tag that is there, which get_manifest takes for a
\* local miss and fetches.
PushOutlivesMirror == pushed # NoImage /\ mtag # pushed => clash

\* Once no pull is running the index lists everything that was cached, unless
\* two record_cached calls overlapped, one was cut short, or one could not read
\* the index and so wrote one with its own entry alone.
IndexIsComplete == (\A p \in Pulls : pull[p].pc = "idle") /\ ~torn => cached \subseteq index
=============================================================================
