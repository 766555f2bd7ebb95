------------------------- MODULE ManifestStore_proofs -------------------------
(***************************************************************************)
(* Typing of the manifest handlers: what every module built on             *)
(* ManifestStore uses of a handler step.                                   *)
(***************************************************************************)
EXTENDS ManifestStore, TLAPS

\* A running request names a repository and a digest.
RequestsNamed == \A c \in Clients :
    req[c].pc # "idle" => req[c].repo \in Repos /\ req[c].man \in Manifests

\* The request record of client c, and no other, is replaced by q.
Becomes(c, q) == q \in Requests /\ req' = [req EXCEPT ![c] = q]
Named(q) == q.pc # "idle" => q.repo \in Repos /\ q.man \in Manifests

\* The idle record is a request.
LEMMA IdleReqType == IdleReq \in Requests /\ IdleReq.pc = "idle"
  BY DEF IdleReq, Requests, Steps

\* Replacing one record by a well-formed one keeps all requests well-formed.
LEMMA BecomesTyping ==
  ASSUME req \in [Clients -> Requests], RequestsNamed, NEW c \in Clients, NEW q,
         Becomes(c, q), Named(q)
  PROVE  req' \in [Clients -> Requests] /\ RequestsNamed'
  BY DEF Becomes, Named, RequestsNamed

\* A handler step or an arrival changes one request, to a well-formed one, and
\* keeps the stored objects well-formed.
LEMMA HandlerTyping ==
  ASSUME StoreTypeOK, RequestsNamed, NEW c \in Clients, Arrive(c) \/ HandlerStep(c)
  PROVE  /\ manifests' \subseteq Repos \X Manifests
         /\ tagLink' \in [Repos \X Tags -> Manifests \cup {None}]
         /\ \E q : Becomes(c, q) /\ Named(q)
<1> USE DEF StoreTypeOK, Named, Becomes
<1>0. req[c] \in Requests
  OBVIOUS
<1> DEFINE Goal == /\ manifests' \subseteq Repos \X Manifests
                   /\ tagLink' \in [Repos \X Tags -> Manifests \cup {None}]
                   /\ \E q : Becomes(c, q) /\ Named(q)
<1>1. ASSUME NEW r \in Repos, NEW m \in Manifests, NEW ref \in Tags \cup {None},
             PutManifest(c, r, m, ref)
      PROVE  Goal
  <2> DEFINE q == [IdleReq EXCEPT !.pc = IF ref = None THEN "add_refs" ELSE "put_tag",
                                  !.repo = r, !.man = m, !.ref = ref]
  <2>1. q \in Requests /\ Named(q)
    BY DEF IdleReq, Requests, Steps, PutSteps
  <2>2. req' = [req EXCEPT ![c] = q]
    BY <1>1 DEF PutManifest
  <2>3. manifests' \subseteq Repos \X Manifests /\ tagLink' = tagLink
    BY <1>1 DEF PutManifest
  <2> HIDE DEF q
  <2> QED BY <2>1, <2>2, <2>3
<1>2. ASSUME NEW r \in Repos, NEW m \in Manifests, DeleteByDigest(c, r, m)
      PROVE  Goal
  <2> DEFINE f == <<r, m>> \in manifests
             q == [IdleReq EXCEPT !.pc = "list_tags", !.repo = r, !.man = m, !.found = f]
  <2>2. req' = [req EXCEPT ![c] = q]
    BY <1>2 DEF DeleteByDigest
  <2>0. f \in BOOLEAN
    OBVIOUS
  <2> HIDE DEF f
  <2>1. q \in Requests /\ Named(q)
    BY <2>0 DEF IdleReq, Requests, Steps, DeleteSteps, ScanSteps
  <2>3. manifests' \subseteq Repos \X Manifests /\ tagLink' = tagLink
    BY <1>2 DEF DeleteByDigest
  <2> HIDE DEF q
  <2> QED BY <2>1, <2>2, <2>3
<1>3. ASSUME NEW r \in Repos, NEW t \in Tags, DeleteByTag(c, r, t)
      PROVE  Goal
  <2> DEFINE q == [IdleReq EXCEPT !.pc = "drop_tag", !.repo = r, !.ref = t,
                                  !.man = tagLink[<<r, t>>]]
  <2>1. tagLink[<<r, t>>] \in Manifests
    BY <1>3 DEF DeleteByTag
  <2>2. q \in Requests /\ Named(q)
    BY <2>1 DEF IdleReq, Requests, Steps
  <2> QED BY <1>3, <2>2 DEF DeleteByTag
<1>4. CASE PutTag(c)
  <2> DEFINE q == [req[c] EXCEPT !.pc = "add_refs"]
  <2>1. q \in Requests /\ Named(q)
    BY <1>0, <1>4 DEF PutTag, At, RequestsNamed, Requests, Steps, PutSteps
  <2>2. req' = [req EXCEPT ![c] = q]
    BY <1>4 DEF PutTag, GoTo
  <2>3. tagLink' \in [Repos \X Tags -> Manifests \cup {None}]
    BY <1>0, <1>4 DEF PutTag, SetLink, Requests
  <2> QED BY <1>4, <2>1, <2>2, <2>3 DEF PutTag
<1>5. CASE ListTags(c)
  <2> DEFINE q == [req[c] EXCEPT !.pc = "scan_tags", !.links = {t \in Tags : Link(c, t) # None}]
  <2>1. q \in Requests /\ Named(q)
    BY <1>0, <1>5 DEF ListTags, At, RequestsNamed, Requests, Steps, DeleteSteps, ScanSteps
  <2>2. req' = [req EXCEPT ![c] = q]
    BY <1>5 DEF ListTags
  <2> QED BY <1>5, <2>1, <2>2 DEF ListTags
<1>6. ASSUME NEW t \in Tags, ReadLink(c, t)
      PROVE  Goal
  <2> DEFINE q == IF Link(c, t) = req[c].man
                  THEN [req[c] EXCEPT !.pc = "delete_link", !.ref = t]
                  ELSE [req[c] EXCEPT !.links = req[c].links \ {t}]
  <2>1. q \in Requests /\ Named(q)
    BY <1>0, <1>6 DEF ReadLink, At, RequestsNamed, Requests, Steps, DeleteSteps, ScanSteps
  <2>2. req' = [req EXCEPT ![c] = q]
    BY <1>6 DEF ReadLink
  <2> QED BY <1>6, <2>1, <2>2 DEF ReadLink
<1>7. CASE DeleteLink(c)
  <2> DEFINE q == [req[c] EXCEPT !.pc = "scan_tags", !.ref = None,
                                 !.links = req[c].links \ {req[c].ref},
                                 !.found = req[c].found \/ Link(c, req[c].ref) # None]
  <2>1. q \in Requests /\ Named(q)
    BY <1>0, <1>7 DEF DeleteLink, At, RequestsNamed, Requests, Steps, DeleteSteps, ScanSteps
  <2>2. req' = [req EXCEPT ![c] = q]
    BY <1>7 DEF DeleteLink
  <2>3. tagLink' \in [Repos \X Tags -> Manifests \cup {None}]
    BY <1>7 DEF DeleteLink, SetLink
  <2> QED BY <1>7, <2>1, <2>2, <2>3 DEF DeleteLink
<1>8. CASE EndScan(c)
  <2> DEFINE q == IF req[c].found THEN [req[c] EXCEPT !.pc = "remove_refs"] ELSE IdleReq
  <2>1. q \in Requests /\ Named(q)
    BY <1>0, <1>8, IdleReqType DEF EndScan, At, RequestsNamed, Requests, Steps, DeleteSteps
  <2>2. req' = [req EXCEPT ![c] = q]
    BY <1>8 DEF EndScan, GoTo, Finish
  <2> QED BY <1>8, <2>1, <2>2 DEF EndScan
<1>9. CASE DropTag(c)
  <2>1. tagLink' \in [Repos \X Tags -> Manifests \cup {None}]
    BY <1>9 DEF DropTag, SetLink
  <2> QED BY <1>9, <2>1, IdleReqType DEF DropTag, Finish
<1> QED
  BY <1>1, <1>2, <1>3, <1>4, <1>5, <1>6, <1>7, <1>8, <1>9 DEF Arrive, HandlerStep
=============================================================================
