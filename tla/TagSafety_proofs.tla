--------------------------- MODULE TagSafety_proofs ---------------------------
(***************************************************************************)
(* DELETE by digest leaves no tag dangling unless a PUT of the digest      *)
(* overlapped it or it was cut short, and takes no tag that settled under  *)
(* another digest, for any number of repositories, tags, manifests and     *)
(* requests.                                                               *)
(*                                                                         *)
(* DanglingOnlyIfRaced is not inductive: a PUT about to write its tag link *)
(* would make a dangling one if its manifest were gone.  PutsStored says   *)
(* that the manifest is then marked raced, since only a DELETE that        *)
(* overlaps the PUT can have removed it.  Nor is SettledTagsHold:          *)
(* SettledAlone says that no request which could change the link is left,  *)
(* and a tag loop enters the window of a tag only if it reads its own      *)
(* digest there.                                                           *)
(***************************************************************************)
EXTENDS TagSafety, ManifestStore_proofs

PutsStored == \A c \in Clients :
    At(c, "put_tag") => <<req[c].repo, req[c].man>> \in manifests \cup raced

SettledAlone == \A s \in settled, c \in Clients :
    ~Names(c, s[1], s[2], s[3]) /\ ~InWindow(c, s[1], s[2])

TagInv ==
    /\ TypeOK
    /\ RequestsNamed
    /\ PutsStored
    /\ DanglingOnlyIfRaced
    /\ SettledAlone
    /\ SettledTagsHold

Step(c) == (Arrive(c) \/ HandlerStep(c) \/ Return(c) \/ Abandon(c)) /\ Record

\* Init: nothing is stored and no request runs.
LEMMA TagInvInit == Init => TagInv
<1> SUFFICES ASSUME Init PROVE TagInv
  OBVIOUS
<1> USE DEF Init, StoreInit
<1>1. TypeOK /\ RequestsNamed
  BY IdleReqType DEF TypeOK, StoreTypeOK, RequestsNamed
<1>2. PutsStored
  BY IdleReqType DEF PutsStored, At
<1>3. DanglingOnlyIfRaced
  BY DEF DanglingOnlyIfRaced, Dangling
<1>4. SettledAlone /\ SettledTagsHold
  BY DEF SettledAlone, SettledTagsHold
<1> QED BY <1>1, <1>2, <1>3, <1>4 DEF TagInv

\* A step changes one request, keeps all types, and only adds to raced.
LEMMA StepTyping ==
  ASSUME TagInv, NEW c \in Clients, Step(c)
  PROVE  /\ TypeOK' /\ RequestsNamed'
         /\ \A d \in Clients \ {c} : req'[d] = req[d]
         /\ raced \subseteq raced'
<1> USE DEF TagInv, Step
<1>1. /\ raced \subseteq raced' /\ raced' \subseteq Repos \X Manifests
      /\ settled' \subseteq Repos \X Tags \X Manifests
  BY DEF Record, RecordRaces, RecordSettled, TypeOK
<1>2. /\ manifests' \subseteq Repos \X Manifests
      /\ tagLink' \in [Repos \X Tags -> Manifests \cup {None}]
      /\ \E q : Becomes(c, q) /\ Named(q)
  <2>1. CASE Arrive(c) \/ HandlerStep(c)
    BY <2>1, HandlerTyping DEF TypeOK
  <2>2. CASE Return(c) \/ Abandon(c)
    BY <2>2, IdleReqType DEF Return, Abandon, Finish, Becomes, Named, TypeOK, StoreTypeOK
  <2> QED BY <2>1, <2>2
<1>3. PICK q : Becomes(c, q) /\ Named(q)
  BY <1>2
<1>4. req' \in [Clients -> Requests] /\ RequestsNamed'
  BY <1>3, BecomesTyping DEF TypeOK, StoreTypeOK
<1>5. \A d \in Clients \ {c} : req'[d] = req[d]
  BY <1>3 DEF Becomes, TypeOK, StoreTypeOK
<1> QED BY <1>1, <1>2, <1>4, <1>5 DEF TypeOK, StoreTypeOK

\* A manifest disappears only when a DELETE of it starts.
LEMMA ManifestLoss ==
  ASSUME TagInv, NEW c \in Clients, Step(c), NEW r \in Repos, NEW m \in Manifests,
         <<r, m>> \in manifests, <<r, m>> \notin manifests'
  PROVE  At(c, "idle") /\ Scanning(c, r, m)' /\ At(c, "list_tags")' /\ tagLink' = tagLink
<1>1. DeleteByDigest(c, r, m)
  BY DEF Step, Arrive, HandlerStep, PutManifest, DeleteByDigest, DeleteByTag, PutTag, ListTags,
     ReadLink, DeleteLink, EndScan, DropTag, Return, Abandon
<1>2. /\ req'[c] = [IdleReq EXCEPT !.pc = "list_tags", !.repo = r, !.man = m,
                                   !.found = <<r, m>> \in manifests]
      /\ At(c, "idle") /\ tagLink' = tagLink
  BY <1>1 DEF DeleteByDigest, TagInv, TypeOK, StoreTypeOK
<1>3. req'[c].pc = "list_tags" /\ req'[c].repo = r /\ req'[c].man = m
  BY <1>2 DEF IdleReq
<1> QED BY <1>2, <1>3 DEF Scanning, ScanSteps, At

\* A PUT that has not linked its tag yet still has its manifest, or it raced.
LEMMA PutsStoredStep ==
  ASSUME TagInv, NEW c \in Clients, Step(c)
  PROVE  PutsStored'
<1> SUFFICES ASSUME NEW d \in Clients, At(d, "put_tag")'
             PROVE  <<req'[d].repo, req'[d].man>> \in manifests' \cup raced'
  BY DEF PutsStored
<1>1. req'[d].repo \in Repos /\ req'[d].man \in Manifests
  BY StepTyping DEF RequestsNamed, At
<1>2. CASE d = c
  <2>1. \E r \in Repos, m \in Manifests, ref \in Tags \cup {None} : PutManifest(c, r, m, ref)
    <3>1. req \in [Clients -> Requests] /\ req[c] \in Requests
      BY DEF TagInv, TypeOK, StoreTypeOK
    <3>2. ~HandlerStep(c) /\ ~Return(c) /\ ~Abandon(c)
      BY <1>2, <3>1, IdleReqType DEF HandlerStep, PutTag, ListTags, ReadLink, DeleteLink, EndScan,
         DropTag, Return, Abandon, Finish, GoTo, At, Requests
    <3>3. \A r \in Repos, m \in Manifests : ~DeleteByDigest(c, r, m)
      BY <1>2, <3>1 DEF DeleteByDigest, IdleReq, At
    <3>4. \A r \in Repos, t \in Tags : ~DeleteByTag(c, r, t)
      BY <1>2, <3>1 DEF DeleteByTag, IdleReq, At
    <3> QED BY <3>2, <3>3, <3>4 DEF Step, Arrive
  <2>2. PICK r \in Repos, m \in Manifests, ref \in Tags \cup {None} : PutManifest(c, r, m, ref)
    BY <2>1
  <2>3. req'[c].repo = r /\ req'[c].man = m /\ <<r, m>> \in manifests'
    BY <2>2 DEF PutManifest, TagInv, TypeOK, StoreTypeOK, IdleReq
  <2> QED BY <1>2, <2>3
<1>3. CASE d # c
  <2>1. req'[d] = req[d] /\ raced \subseteq raced'
    BY <1>3, StepTyping
  <2>2. <<req[d].repo, req[d].man>> \in manifests \cup raced
    BY <2>1 DEF TagInv, PutsStored, At
  <2>3. CASE <<req[d].repo, req[d].man>> \in manifests /\ <<req[d].repo, req[d].man>> \notin manifests'
    <3>1. Scanning(c, req[d].repo, req[d].man)'
      BY <1>1, <2>1, <2>3, ManifestLoss
    <3>2. Putting(d, req[d].repo, req[d].man)'
      BY <2>1 DEF Putting, PutSteps, At
    <3> QED BY <1>1, <2>1, <3>1, <3>2 DEF Step, Record, RecordRaces
  <2> QED BY <2>1, <2>2, <2>3
<1> QED BY <1>2, <1>3

\* A DELETE on its way to tag t, which still holds its digest, stays on its way
\* or is cut short.
LEMMA VisitorStep ==
  ASSUME TagInv, NEW c \in Clients, Step(c), NEW r \in Repos, NEW t \in Tags, NEW m \in Manifests,
         WillVisit(c, r, t, m), tagLink[<<r, t>>] = m, tagLink'[<<r, t>>] = m
  PROVE  WillVisit(c, r, t, m)' \/ <<r, m>> \in raced'
<1>1. /\ req \in [Clients -> Requests] /\ req[c] \in Requests
      /\ tagLink \in [Repos \X Tags -> Manifests \cup {None}]
  BY DEF TagInv, TypeOK, StoreTypeOK
<1>2. /\ req[c].pc \in {"list_tags", "scan_tags", "delete_link"}
      /\ req[c].repo = r /\ req[c].man = m
      /\ req[c].pc = "list_tags" \/ t \in req[c].links
  BY DEF WillVisit, Scanning, ScanSteps, At
<1>3. \/ ListTags(c) \/ (\E u \in Tags : ReadLink(c, u)) \/ DeleteLink(c) \/ EndScan(c) \/ Abandon(c)
  BY <1>2 DEF Step, Arrive, HandlerStep, PutManifest, DeleteByDigest, DeleteByTag, PutTag, DropTag,
     Return, At
<1>4. m # None
  BY NoneAssumption
<1> USE DEF WillVisit, Scanning, ScanSteps, At
<1>5. CASE ListTags(c)
  <2>1. req'[c] = [req[c] EXCEPT !.pc = "scan_tags", !.links = {u \in Tags : Link(c, u) # None}]
    BY <1>1, <1>5 DEF ListTags
  <2>2. req'[c].pc = "scan_tags" /\ req'[c].repo = r /\ req'[c].man = m /\ t \in req'[c].links
    BY <1>1, <1>2, <1>4, <2>1 DEF Link, Requests
  <2> QED BY <2>2
<1>6. ASSUME NEW u \in Tags, ReadLink(c, u) PROVE WillVisit(c, r, t, m)'
  <2>1. CASE Link(c, u) = req[c].man
    <3>1. req'[c] = [req[c] EXCEPT !.pc = "delete_link", !.ref = u]
      BY <1>1, <1>6, <2>1 DEF ReadLink
    <3>2. /\ req'[c].pc = "delete_link" /\ req'[c].repo = r /\ req'[c].man = m
          /\ req'[c].links = req[c].links
      BY <1>1, <1>2, <3>1 DEF Requests
    <3> QED BY <1>2, <1>6, <3>2 DEF ReadLink
  <2>2. CASE Link(c, u) # req[c].man
    <3>1. req'[c] = [req[c] EXCEPT !.links = req[c].links \ {u}]
      BY <1>1, <1>6, <2>2 DEF ReadLink
    <3>2. u # t
      BY <1>2, <2>2 DEF Link
    <3>3. /\ req'[c].pc = "scan_tags" /\ req'[c].repo = r /\ req'[c].man = m
          /\ req'[c].links = req[c].links \ {u}
      BY <1>1, <1>2, <1>6, <3>1 DEF Requests, ReadLink
    <3> QED BY <1>2, <1>6, <3>2, <3>3 DEF ReadLink
  <2> QED BY <2>1, <2>2
<1>7. CASE DeleteLink(c)
  <2>1. req[c].ref # t
    BY <1>1, <1>2, <1>4, <1>7 DEF DeleteLink, SetLink
  <2>2. /\ req'[c].pc = "scan_tags" /\ req'[c].repo = r /\ req'[c].man = m
        /\ req'[c].links = req[c].links \ {req[c].ref}
    BY <1>1, <1>2, <1>7 DEF DeleteLink, Requests
  <2> QED BY <1>2, <1>7, <2>1, <2>2 DEF DeleteLink
<1>8. CASE EndScan(c)
  BY <1>2, <1>8 DEF EndScan
<1>9. CASE Abandon(c)
  <2>1. req'[c].pc = "idle"
    BY <1>1, <1>9, IdleReqType DEF Abandon, Finish
  <2>2. CutShort(c, r, m)
    BY <1>2, <2>1 DEF CutShort
  <2> QED BY <2>2 DEF Step, Record, RecordRaces
<1> QED BY <1>3, <1>5, <1>6, <1>7, <1>8, <1>9

\* The only step that points a tag at a manifest is the tag write of a PUT.
LEMMA LinkChange ==
  ASSUME TagInv, NEW c \in Clients, Step(c), NEW r \in Repos, NEW t \in Tags,
         tagLink'[<<r, t>>] # tagLink[<<r, t>>], tagLink'[<<r, t>>] # None
  PROVE  /\ At(c, "put_tag") /\ req[c].repo = r /\ req[c].man = tagLink'[<<r, t>>]
         /\ manifests' = manifests
<1>1. tagLink \in [Repos \X Tags -> Manifests \cup {None}]
  BY DEF TagInv, TypeOK, StoreTypeOK
<1>2. PutTag(c) \/ DeleteLink(c) \/ DropTag(c)
  BY DEF Step, Arrive, HandlerStep, PutManifest, DeleteByDigest, DeleteByTag, ListTags, ReadLink,
     EndScan, Return, Abandon
<1>3. ~DeleteLink(c) /\ ~DropTag(c)
  BY <1>1 DEF DeleteLink, DropTag, SetLink
<1> QED BY <1>1, <1>2, <1>3 DEF PutTag, SetLink

\* A tag that dangles after a step raced or is about to be visited.
LEMMA DanglingStep ==
  ASSUME TagInv, NEW c \in Clients, Step(c)
  PROVE  DanglingOnlyIfRaced'
<1> SUFFICES ASSUME NEW r \in Repos, NEW t \in Tags, Dangling(r, t)'
             PROVE  \/ <<r, tagLink'[<<r, t>>]>> \in raced'
                    \/ \E d \in Clients : WillVisit(d, r, t, tagLink[<<r, t>>])'
  BY DEF DanglingOnlyIfRaced
<1>1. PICK m \in Manifests : m = tagLink'[<<r, t>>] /\ <<r, m>> \notin manifests'
  BY StepTyping DEF TypeOK, StoreTypeOK, Dangling
<1>2. raced \subseteq raced' /\ \A d \in Clients \ {c} : req'[d] = req[d]
  BY StepTyping
<1>3. CASE m # tagLink[<<r, t>>]
  BY <1>1, <1>2, <1>3, LinkChange, NoneAssumption DEF TagInv, PutsStored
<1>4. CASE m = tagLink[<<r, t>>] /\ <<r, m>> \in manifests
  <2>1. Scanning(c, r, m)' /\ At(c, "list_tags")'
    BY <1>1, <1>4, ManifestLoss
  <2> QED BY <1>1, <2>1 DEF WillVisit
<1>5. CASE m = tagLink[<<r, t>>] /\ <<r, m>> \notin manifests
  <2>1. <<r, m>> \in raced \/ \E d \in Clients : WillVisit(d, r, t, m)
    BY <1>1, <1>5, NoneAssumption DEF TagInv, DanglingOnlyIfRaced, Dangling
  <2>2. ASSUME NEW d \in Clients, WillVisit(d, r, t, m), d # c
        PROVE  WillVisit(d, r, t, tagLink[<<r, t>>])'
    BY <1>1, <1>2, <2>2 DEF WillVisit, Scanning, At
  <2>3. ASSUME WillVisit(c, r, t, m)
        PROVE  WillVisit(c, r, t, m)' \/ <<r, m>> \in raced'
    BY <1>1, <1>5, <2>3, VisitorStep
  <2> QED BY <1>1, <1>2, <2>1, <2>2, <2>3
<1> QED BY <1>3, <1>4, <1>5

\* A settled tag keeps its link: what changes it would have named the tag, or
\* stood between its read and its delete.
LEMMA SettledLinkStep ==
  ASSUME TagInv, NEW c \in Clients, Step(c), NEW r \in Repos, NEW t \in Tags, NEW m \in Manifests,
         tagLink[<<r, t>>] = m, ~Names(c, r, t, m), ~InWindow(c, r, t)
  PROVE  tagLink'[<<r, t>>] = m
<1>1. tagLink \in [Repos \X Tags -> Manifests \cup {None}]
  BY DEF TagInv, TypeOK, StoreTypeOK
<1>2. CASE PutTag(c) \/ DropTag(c)
  BY <1>1, <1>2 DEF PutTag, DropTag, SetLink, Names, At
<1>3. CASE DeleteLink(c)
  BY <1>1, <1>3 DEF DeleteLink, SetLink, InWindow, At
<1>4. CASE tagLink' = tagLink
  BY <1>4
<1> QED
  BY <1>2, <1>3, <1>4 DEF Step, Arrive, HandlerStep, PutManifest, DeleteByDigest, DeleteByTag,
     ListTags, ReadLink, EndScan, Return, Abandon

\* A DELETE enters the window of a tag only when it reads its own digest there.
LEMMA WindowEntry ==
  ASSUME TagInv, NEW c \in Clients, Step(c), NEW r \in Repos, NEW t \in Tags,
         InWindow(c, r, t)'
  PROVE  Scanning(c, r, tagLink[<<r, t>>])
<1>1. req \in [Clients -> Requests] /\ req[c] \in Requests
  BY DEF TagInv, TypeOK, StoreTypeOK
<1>2. req'[c].pc = "delete_link" /\ req'[c].repo = r /\ req'[c].ref = t
  BY DEF InWindow, At
<1>3. ~Return(c) /\ ~Abandon(c)
  BY <1>1, <1>2, IdleReqType DEF Return, Abandon, Finish
<1>4. ~Arrive(c)
  <2>1. \A x \in Repos, m \in Manifests, ref \in Tags \cup {None} : ~PutManifest(c, x, m, ref)
    BY <1>1, <1>2 DEF PutManifest, IdleReq
  <2>2. \A x \in Repos, m \in Manifests : ~DeleteByDigest(c, x, m)
    BY <1>1, <1>2 DEF DeleteByDigest, IdleReq
  <2>3. \A x \in Repos, u \in Tags : ~DeleteByTag(c, x, u)
    BY <1>1, <1>2 DEF DeleteByTag, IdleReq
  <2> QED BY <2>1, <2>2, <2>3 DEF Arrive
<1>5. PICK u \in Tags : ReadLink(c, u)
  <2>1. ~PutTag(c) /\ ~ListTags(c) /\ ~DeleteLink(c) /\ ~EndScan(c) /\ ~DropTag(c)
    BY <1>1, <1>2, IdleReqType DEF PutTag, ListTags, DeleteLink, EndScan, DropTag, Finish, GoTo,
       Requests
  <2> QED BY <1>3, <1>4, <2>1 DEF Step, HandlerStep
<1>6. req[c].pc = "scan_tags"
  BY <1>5 DEF ReadLink, At
<1>7. CASE Link(c, u) = req[c].man
  <2>1. req'[c] = [req[c] EXCEPT !.pc = "delete_link", !.ref = u]
    BY <1>1, <1>5, <1>7 DEF ReadLink
  <2>2. u = t /\ req[c].repo = r
    BY <1>1, <1>2, <2>1 DEF Requests
  <2> QED BY <1>6, <1>7, <2>2 DEF Link, Scanning, ScanSteps
<1>8. CASE Link(c, u) # req[c].man
  <2>1. req'[c] = [req[c] EXCEPT !.links = req[c].links \ {u}]
    BY <1>1, <1>5, <1>8 DEF ReadLink
  <2>2. req'[c].pc = req[c].pc
    BY <1>1, <2>1 DEF Requests
  <2> QED BY <1>2, <1>6, <2>2
<1> QED BY <1>7, <1>8

\* What settles is linked, and what has settled stays as it is.
LEMMA SettledStep ==
  ASSUME TagInv, NEW c \in Clients, Step(c)
  PROVE  SettledAlone' /\ SettledTagsHold'
<1> SUFFICES ASSUME NEW s \in settled'
             PROVE  /\ \A d \in Clients : ~Names(d, s[1], s[2], s[3])' /\ ~InWindow(d, s[1], s[2])'
                    /\ tagLink'[<<s[1], s[2]>>] = s[3]
  BY DEF SettledAlone, SettledTagsHold
<1>1. PICK r \in Repos, t \in Tags, m \in Manifests : s = <<r, t, m>>
  BY StepTyping DEF TypeOK
<1>2. /\ \A d \in Clients : ~Names(d, r, t, m)'
      /\ \/ <<r, t, m>> \in settled
         \/ /\ \E d \in Clients : Linked(d, r, t, m)
            /\ \A d \in Clients : ~InWindow(d, r, t)'
  BY <1>1 DEF Step, Record, RecordSettled
<1>3. \A d \in Clients \ {c} : req'[d] = req[d]
  BY StepTyping
<1>4. CASE <<r, t, m>> \in settled
  <2>1. /\ \A d \in Clients : ~Names(d, r, t, m) /\ ~InWindow(d, r, t)
        /\ tagLink[<<r, t>>] = m
    BY <1>4 DEF TagInv, SettledAlone, SettledTagsHold
  <2>2. tagLink'[<<r, t>>] = m
    BY <2>1, SettledLinkStep
  <2>3. ~InWindow(c, r, t)'
    BY <2>1, WindowEntry DEF Names
  <2>4. ASSUME NEW d \in Clients, d # c PROVE ~InWindow(d, r, t)'
    BY <1>3, <2>1, <2>4 DEF InWindow, At
  <2> QED BY <1>1, <1>2, <2>2, <2>3, <2>4
<1>5. ASSUME NEW d \in Clients, Linked(d, r, t, m) PROVE tagLink'[<<r, t>>] = m
  <2>1. /\ req[d].pc = "put_tag" /\ req'[d].pc = "add_refs"
        /\ req[d].repo = r /\ req[d].ref = t /\ req[d].man = m
    BY <1>5 DEF Linked, Putting, At
  <2>2. d = c
    BY <1>3, <2>1
  <2>3. req \in [Clients -> Requests] /\ tagLink \in [Repos \X Tags -> Manifests \cup {None}]
    BY DEF TagInv, TypeOK, StoreTypeOK
  <2>4. ~Abandon(c)
    BY <2>1, <2>2, <2>3, IdleReqType DEF Abandon, Finish
  <2>5. PutTag(c)
    BY <2>1, <2>2, <2>4 DEF Step, Arrive, HandlerStep, PutManifest, DeleteByDigest, DeleteByTag,
       ListTags, ReadLink, DeleteLink, EndScan, DropTag, Return, At
  <2> QED BY <2>1, <2>2, <2>3, <2>5 DEF PutTag, SetLink
<1> QED BY <1>1, <1>2, <1>4, <1>5

\* Every step keeps the invariant.
LEMMA TagInvNext == TagInv /\ [Next]_vars => TagInv'
<1> SUFFICES ASSUME TagInv, [Next]_vars PROVE TagInv'
  OBVIOUS
<1>1. ASSUME NEW c \in Clients, Step(c) PROVE TagInv'
  BY <1>1, StepTyping, PutsStoredStep, DanglingStep, SettledStep DEF TagInv
<1>2. CASE UNCHANGED vars
  BY <1>2 DEF vars, storeVars, TagInv, TypeOK, StoreTypeOK, RequestsNamed, PutsStored, At,
     DanglingOnlyIfRaced, Dangling, WillVisit, Scanning, SettledAlone, SettledTagsHold, Names,
     InWindow
<1> QED BY <1>1, <1>2 DEF Next, Step

\* The scope of what PUT and DELETE promise about tags, for any number of
\* concurrent requests: a tag dangles only if a PUT of its digest overlapped
\* the DELETE, a DELETE was cut short, or a running DELETE will still remove
\* it; and a tag linked while no request was about to touch it keeps its link
\* until one arrives that names it or deletes its digest.
THEOREM TagsSafe == Spec => []TagsAreExplained
<1>1. TagInv => TagsAreExplained
  BY DEF TagInv, TagsAreExplained
<1> QED BY <1>1, TagInvInit, TagInvNext, PTL DEF Spec
=============================================================================
