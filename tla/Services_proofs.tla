--------------------------- MODULE Services_proofs ---------------------------
(***************************************************************************)
(* Proofs about the services around the store: promotion and signing,      *)
(* the daily cap of automatic rebuilds, token scopes, provisioning, the    *)
(* audit log with its export, and the feeds and answers of the             *)
(* vulnerability database.  Each section states the inductive invariant    *)
(* its theorem needs and has one lemma per group of actions.               *)
(***************************************************************************)
EXTENDS Promotion, Rebuild, Provisioning, TokenScopes, AuditChain, VulnIngest, VersionMatch,
        Integers, FiniteSetTheorems, WellFoundedInduction, TLAPS

\* A set of naturals has a least member: a minimal counterexample takes the
\* place of induction.
LEMMA LeastNatural ==
  ASSUME NEW T \in SUBSET Nat, T # {}
  PROVE  \E x \in T : \A y \in T : x <= y
<1>1. PICK x \in T : \A y \in T : <<y, x>> \notin OpToRel(<, Nat)
  BY NatLessThanWellFounded, WFMin
<1>2. \A y \in T : ~(y < x)
  BY <1>1 DEF OpToRel
<1> QED BY <1>2

\* A set of naturals below a bound has a greatest member.
LEMMA GreatestBelow ==
  ASSUME NEW n \in Nat, NEW T \in SUBSET (0..n), T # {}
  PROVE  \E x \in T : \A y \in T : x >= y
<1> DEFINE U == {n - x : x \in T}
<1>1. U \in SUBSET Nat /\ U # {}
  <2>1. \A x \in T : n - x \in Nat
    OBVIOUS
  <2> QED BY <2>1
<1>2. PICK u \in U : \A v \in U : u <= v
  BY <1>1, LeastNatural
<1>3. PICK x \in T : u = n - x
  BY <1>2
<1>4. \A y \in T : n - x <= n - y
  BY <1>2, <1>3
<1> QED BY <1>4

----------------------------------------------------------------------------
(* Promotion: what links and rows name is there.  PromotedIsComplete speaks   *)
(* of links and rows only; the argument needs what every promotion and every  *)
(* signature upload on its way has put into the repository it writes, and     *)
(* that a DELETE takes none of it unnoticed.                                  *)

\* Where a promotion is, with what each place carries.
PromState ==
    {Waiting} \cup [pc : {"resolve"}]
    \cup [pc : {"copy"}, m : Images, todo : Seq(Layers \cup Images)]
    \cup [pc : {"sig", "tag"}, m : Images]
    \cup [pc : {"siglink"}, m : Images, s : Signatures]

\* Where an upload of a signature is.
SignerState ==
    {Waiting} \cup [pc : {"blob", "manifest", "link", "row", "done"}, side : {"src", "dst"},
                    m : Images, s : Signatures]

RepoState == [blobs : SUBSET (Layers \cup Images \cup Signatures),
              manifests : SUBSET (Layers \cup Images \cup Signatures),
              tag : Images \cup {Nothing}, sig : [Images -> Signatures \cup {Nothing}],
              counted : SUBSET Images, paths : SUBSET Layers]

PromTyped ==
    /\ src \in RepoState /\ dst \in RepoState
    /\ sigRows \in [Images \X Signatures -> {"src", "dst", Nothing}]
    /\ prom \in [Promoters -> PromState]
    /\ signer \in [Signers -> SignerState]

\* What the destination has or a DELETE or the reaper took from it; the manifests
\* it has or whose DELETE did not see every link.
Have == dst.blobs \cup dst.manifests \cup removed
Held == dst.manifests \cup unseen

\* What a promotion in state r has stored.
Promoted(r, have, held) ==
    /\ r.pc = "copy" =>
        \A d \in Listed(r.m) : d \in have \/ \E i \in 1..Len(r.todo) : r.todo[i] = d
    /\ r.pc \in {"sig", "siglink", "tag"} => r.m \in held /\ Listed(r.m) \subseteq have
    /\ r.pc = "siglink" => r.s \in held

\* The links of repo lead somewhere.
LinksLead(repo, have, held, going) ==
    /\ repo.tag # Nothing => /\ repo.tag \in held \/ <<"dst", repo.tag>> \in going
                             /\ Listed(repo.tag) \subseteq have
    /\ \A m \in Images : repo.sig[m] # Nothing =>
                             repo.sig[m] \in held \/ <<"dst", repo.sig[m]>> \in going

\* What an upload in state r has stored: the blob for good, the manifest until its
\* link is there.
Uploaded(r, from, to, held) ==
    /\ r.pc \in {"manifest", "link", "row", "done"} =>
        (r.side = "src" => r.s \in from) /\ (r.side = "dst" => r.s \in to)
    /\ r.pc = "link" /\ r.side = "dst" => r.s \in held

SignersKeep == \A g \in Signers : Uploaded(signer[g], src.blobs, dst.blobs, Held)

\* The blob of a signature is in the repository its row names.
RowsBacked ==
    \A m \in Images, s \in Signatures : sigRows[<<m, s>>] # Nothing =>
        /\ sigRows[<<m, s>>] = "src" => s \in src.blobs
        /\ sigRows[<<m, s>>] = "dst" => s \in dst.blobs

\* The inductive invariant of promotion and signing.
PromInv ==
    /\ PromTyped
    /\ LinksLead(dst, Have, Held, removing)
    /\ \A p \in Promoters : Promoted(prom[p], Have, Held)
    /\ SignersKeep
    /\ RowsBacked

\* b has the signature blobs a has.
SignaturesKept(a, b) == a.blobs \cap Signatures \subseteq b.blobs

\* What is promoted and what links lead to stays so while have and held grow.
LEMMA GrownKeeps ==
  ASSUME NEW h, NEW h2, NEW k, NEW k2, h \subseteq h2, k \subseteq k2
  PROVE  /\ \A r : Promoted(r, h, k) => Promoted(r, h2, k2)
         /\ \A a, b, g : a.tag = b.tag /\ a.sig = b.sig /\ LinksLead(a, h, k, g)
                          => LinksLead(b, h2, k2, g)
<1>1. ASSUME NEW r, Promoted(r, h, k) PROVE Promoted(r, h2, k2)
  BY <1>1 DEF Promoted
<1>2. ASSUME NEW a, NEW b, NEW g, a.tag = b.tag, a.sig = b.sig, LinksLead(a, h, k, g)
      PROVE  LinksLead(b, h2, k2, g)
  BY <1>2 DEF LinksLead
<1> QED BY <1>1, <1>2

\* Nobody takes a signature's blob out of either repository, so what the uploads
\* have stored and what the rows name stays.
LEMMA SignaturesStay ==
  ASSUME PromTyped, SignersKeep, RowsBacked, NEW held,
         SignaturesKept(src, src'), SignaturesKept(dst, dst')
  PROVE  /\ \A g \in Signers :
              (signer[g].pc = "link" /\ signer[g].side = "dst" /\ signer[g].s \in Held => signer[g].s \in held)
              => Uploaded(signer[g], src'.blobs, dst'.blobs, held)
         /\ sigRows' = sigRows => RowsBacked'
<1>1. ASSUME NEW g \in Signers,
             signer[g].pc = "link" /\ signer[g].side = "dst" /\ signer[g].s \in Held => signer[g].s \in held
      PROVE  Uploaded(signer[g], src'.blobs, dst'.blobs, held)
  <2>1. CASE signer[g].pc = "idle"
    BY <2>1 DEF Uploaded
  <2>2. CASE signer[g].pc # "idle"
    <3>1. signer[g].s \in Signatures
      BY <2>2 DEF PromTyped, SignerState, Waiting
    <3>2. Uploaded(signer[g], src.blobs, dst.blobs, Held)
      BY DEF SignersKeep
    <3> QED BY <1>1, <3>1, <3>2 DEF Uploaded, SignaturesKept
  <2> QED BY <2>1, <2>2
<1>2. ASSUME sigRows' = sigRows PROVE RowsBacked'
  BY <1>2 DEF RowsBacked, SignaturesKept
<1> QED BY <1>1, <1>2

\* A step of a promotion: the destination only grows, its tag and signature
\* links lead somewhere, and the promotion's new state is true of it.
LEMMA PromoterKeeps ==
  ASSUME PromInv, NEW p \in Promoters, NEW r \in PromState,
         prom' = [prom EXCEPT ![p] = r],
         UNCHANGED <<src, sigRows, signer>>,
         dst' \in RepoState, SignaturesKept(dst, dst'), Have \subseteq Have', Held \subseteq Held',
         LinksLead(dst', Have', Held', removing'), Promoted(r, Have', Held')
  PROVE  PromInv'
<1>1. PromTyped'
  BY DEF PromInv, PromTyped
<1>2. ASSUME NEW q \in Promoters PROVE Promoted(prom'[q], Have', Held')
  <2>1. CASE q = p
    BY <2>1 DEF PromInv, PromTyped
  <2>2. CASE q # p
    <3>1. prom'[q] = prom[q] /\ Promoted(prom[q], Have, Held)
      BY <2>2 DEF PromInv, PromTyped
    <3> QED BY <3>1, GrownKeeps
  <2> QED BY <2>1, <2>2
<1>3. SignaturesKept(src, src')
  BY DEF SignaturesKept
<1>4. RowsBacked' /\ \A g \in Signers : Uploaded(signer[g], src'.blobs, dst'.blobs, Held')
  BY <1>3, SignaturesStay DEF PromInv
<1>5. SignersKeep'
  BY <1>4 DEF SignersKeep
<1> QED BY <1>1, <1>2, <1>4, <1>5 DEF PromInv

\* Nothing is promoted or signed at the start.
LEMMA PromInvInit == PromInit => PromInv
<1> SUFFICES ASSUME PromInit PROVE PromInv
  OBVIOUS
<1>1. PromTyped
  BY DEF PromInit, PromTyped, RepoState, PromState, SignerState, EmptyRepo
<1>2. LinksLead(dst, Have, Held, removing)
  BY DEF PromInit, LinksLead, EmptyRepo
<1>3. \A p \in Promoters : Promoted(prom[p], Have, Held)
  BY DEF PromInit, Promoted, Waiting
<1>4. SignersKeep
  BY DEF PromInit, SignersKeep, Uploaded, Waiting
<1>5. RowsBacked
  BY DEF PromInit, RowsBacked
<1> QED BY <1>1, <1>2, <1>3, <1>4, <1>5 DEF PromInv

\* Resolution, and giving up anywhere, write nothing.
LEMMA PromoterReads ==
  ASSUME PromInv, NEW p \in Promoters, NEW r \in PromState, Promoted(r, Have, Held),
         Step(p, r), Untouched, UNCHANGED <<dst, removed, unseen>>
  PROVE  PromInv'
<1>1. Have' = Have /\ Held' = Held /\ UNCHANGED <<src, dst, sigRows, signer, removing>>
  BY DEF Have, Held, Untouched
<1>2. SignaturesKept(dst, dst') /\ LinksLead(dst', Have', Held', removing') /\ dst' \in RepoState
  BY <1>1 DEF SignaturesKept, PromInv, PromTyped
<1>3. Promoted(r, Have', Held') /\ prom' = [prom EXCEPT ![p] = r]
  BY <1>1 DEF Step
<1> QED BY <1>1, <1>2, <1>3, PromoterKeeps

\* A promotion that fails anywhere leaves what it wrote.
LEMMA GiveUpKeeps ==
  ASSUME PromInv, NEW p \in Promoters, GiveUp(p), Untouched
  PROVE  PromInv'
<1>1. Waiting \in PromState /\ Promoted(Waiting, Have, Held)
  BY DEF PromState, Promoted, Waiting
<1> QED BY <1>1, PromoterReads DEF GiveUp

\* An object stored at the destination.
LEMMA StoreGrows ==
  ASSUME PromTyped, NEW x \in Layers \cup Images \cup Signatures, StoreBlob(x) \/ StoreManifest(x)
  PROVE  /\ dst' \in RepoState /\ dst'.tag = dst.tag /\ dst'.sig = dst.sig
         /\ SignaturesKept(dst, dst') /\ Have \subseteq Have' /\ Held \subseteq Held' /\ x \in Have'
         /\ StoreManifest(x) => x \in Held'
<1>1. dst \in RepoState
  BY DEF PromTyped
<1>2. CASE StoreBlob(x)
  <2>1. /\ dst' = [dst EXCEPT !.blobs = dst.blobs \cup {x}] /\ removed' = removed \ {x} /\ unseen' = unseen
    BY <1>2 DEF StoreBlob
  <2>2. /\ dst' \in RepoState /\ dst'.tag = dst.tag /\ dst'.sig = dst.sig
        /\ dst'.blobs = dst.blobs \cup {x} /\ dst'.manifests = dst.manifests
    BY <1>1, <2>1 DEF RepoState
  <2>3. StoreManifest(x) => x \in dst'.manifests
    BY <1>1 DEF StoreManifest, RepoState
  <2> QED BY <2>1, <2>2, <2>3 DEF SignaturesKept, Have, Held
<1>3. CASE StoreManifest(x)
  <2>1. /\ dst' = [dst EXCEPT !.manifests = dst.manifests \cup {x}]
        /\ removed' = removed \ {x} /\ unseen' = unseen \ {x}
    BY <1>3 DEF StoreManifest
  <2>2. /\ dst' \in RepoState /\ dst'.tag = dst.tag /\ dst'.sig = dst.sig
        /\ dst'.blobs = dst.blobs /\ dst'.manifests = dst.manifests \cup {x}
    BY <1>1, <2>1 DEF RepoState
  <2> QED BY <2>1, <2>2 DEF SignaturesKept, Have, Held
<1> QED BY <1>2, <1>3

\* A promotion begins with everything its image lists still to be copied.
LEMMA ResolveKeeps ==
  ASSUME PromInv, NEW p \in Promoters, PromoteHandler(p) \/ ResolveDigest(p)
  PROVE  PromInv'
<1>1. CASE PromoteHandler(p)
  <2>1. [pc |-> "resolve"] \in PromState /\ Promoted([pc |-> "resolve"], Have, Held)
    BY DEF PromState, Promoted
  <2> QED BY <1>1, <2>1, PromoterReads DEF PromoteHandler, Untouched
<1>2. CASE ResolveDigest(p) /\ Resolves
  <2> DEFINE r == [pc |-> "copy", m |-> src.tag, todo |-> Refs[src.tag]]
  <2>1. src.tag \in Images
    BY <1>2 DEF Resolves, PromInv, PromTyped, RepoState
  <2>2. r \in PromState
    BY <2>1, RefsAssumption DEF PromState
  <2>3. \A d \in Listed(src.tag) : \E i \in 1..Len(Refs[src.tag]) : Refs[src.tag][i] = d
    BY <2>1, RefsAssumption DEF Listed
  <2>4. Promoted(r, Have, Held)
    BY <2>3 DEF Promoted
  <2>5. Step(p, r) /\ Untouched /\ UNCHANGED <<dst, removed, unseen>>
    BY <1>2 DEF ResolveDigest
  <2> HIDE DEF r
  <2> QED BY <2>2, <2>4, <2>5, PromoterReads
<1>3. CASE ResolveDigest(p) /\ ~Resolves
  BY <1>3, GiveUpKeeps DEF ResolveDigest
<1> QED BY <1>1, <1>2, <1>3

\* Records with one field replaced.
LEMMA Replaced ==
  /\ \A r, m, a, b : r = [pc |-> "copy", m |-> m, todo |-> a] =>
        [r EXCEPT !.todo = b] = [pc |-> "copy", m |-> m, todo |-> b]
  /\ \A r, m, s, side, a, b : r = [pc |-> a, side |-> side, m |-> m, s |-> s] =>
        [r EXCEPT !.pc = b] = [pc |-> b, side |-> side, m |-> m, s |-> s]
  OBVIOUS

\* What is not in the tail of a list is its head.
LEMMA HeadCopied ==
  ASSUME NEW T, NEW todo \in Seq(T), todo # <<>>,
         NEW i \in 1..Len(todo), todo[i] # Head(todo)
  PROVE  \E j \in 1..Len(Tail(todo)) : Tail(todo)[j] = todo[i]
<1>1. i # 1 /\ i - 1 \in 1..Len(Tail(todo)) /\ Tail(todo)[i - 1] = todo[i]
  OBVIOUS
<1> QED BY <1>1

\* One listed blob or manifest is copied: it leaves the list and is there.
LEMMA CopyKeeps ==
  ASSUME PromInv, NEW p \in Promoters, CopyReferenced(p)
  PROVE  PromInv'
<1>1. prom[p] \in [pc : {"copy"}, m : Images, todo : Seq(Layers \cup Images)]
  BY DEF CopyReferenced, PromInv, PromTyped, PromState, Waiting
<1>2. PICK m \in Images, todo \in Seq(Layers \cup Images) :
          prom[p] = [pc |-> "copy", m |-> m, todo |-> todo]
  BY <1>1
<1> DEFINE d == Head(todo)
           next == [pc |-> "copy", m |-> m, todo |-> Tail(todo)]
<1>3. todo # <<>> /\ d \in Layers \cup Images
  BY <1>2 DEF CopyReferenced
<1>4. next \in PromState
  BY <1>3 DEF PromState
<1>5. [prom[p] EXCEPT !.todo = Tail(@)] = next /\ Head(prom[p].todo) = d
  <2>1. prom[p].todo = todo
    BY <1>2
  <2>2. [prom[p] EXCEPT !.todo = Tail(todo)] = next
    <3>1. PICK rest : rest = Tail(todo)
      OBVIOUS
    <3>2. [prom[p] EXCEPT !.todo = rest] = [pc |-> "copy", m |-> m, todo |-> rest]
      BY <1>2, Replaced
    <3> QED BY <3>1, <3>2
  <2> QED BY <2>1, <2>2
<1>6. CASE d \in src.blobs \cup src.manifests
  <2>1. Step(p, next) /\ Untouched /\ (StoreBlob(d) \/ StoreManifest(d))
    BY <1>5, <1>6 DEF CopyReferenced
  <2>2. /\ dst' \in RepoState /\ dst'.tag = dst.tag /\ dst'.sig = dst.sig
        /\ SignaturesKept(dst, dst') /\ Have \subseteq Have' /\ Held \subseteq Held' /\ d \in Have'
    BY <1>3, <2>1, StoreGrows DEF PromInv
  <2>3. Promoted(prom[p], Have', Held')
    BY <2>2, GrownKeeps DEF PromInv
  <2>4. Promoted(next, Have', Held')
    BY <1>2, <1>3, <2>2, <2>3, HeadCopied DEF Promoted
  <2>5. LinksLead(dst', Have', Held', removing')
    BY <2>1, <2>2, GrownKeeps DEF PromInv, Untouched
  <2> HIDE DEF next
  <2> QED BY <1>4, <2>1, <2>2, <2>4, <2>5, PromoterKeeps DEF Step, Untouched
<1>7. CASE ~(d \in src.blobs \cup src.manifests)
  BY <1>5, <1>7, GiveUpKeeps DEF CopyReferenced
<1> QED BY <1>6, <1>7

\* The image's own manifest comes after everything it lists.
LEMMA CopyManifestKeeps ==
  ASSUME PromInv, NEW p \in Promoters, CopyManifest(p)
  PROVE  PromInv'
<1>1. prom[p] \in [pc : {"copy"}, m : Images, todo : Seq(Layers \cup Images)]
  BY DEF CopyManifest, PromInv, PromTyped, PromState, Waiting
<1>2. PICK m \in Images : prom[p] = [pc |-> "copy", m |-> m, todo |-> <<>>]
  BY <1>1 DEF CopyManifest
<1> DEFINE next == [pc |-> "sig", m |-> m]
<1>3. CASE m \in src.manifests \cup dst.manifests
  <2>1. Step(p, next) /\ Untouched /\ StoreManifest(m)
    BY <1>2, <1>3 DEF CopyManifest
  <2>2. /\ dst' \in RepoState /\ dst'.tag = dst.tag /\ dst'.sig = dst.sig
        /\ SignaturesKept(dst, dst') /\ Have \subseteq Have' /\ Held \subseteq Held' /\ m \in Held'
    BY <2>1, StoreGrows DEF PromInv
  <2>3. Promoted(prom[p], Have', Held')
    BY <2>2, GrownKeeps DEF PromInv
  <2>4. Promoted(next, Have', Held') /\ next \in PromState
    BY <1>2, <2>2, <2>3 DEF Promoted, PromState
  <2>5. LinksLead(dst', Have', Held', removing')
    BY <2>1, <2>2, GrownKeeps DEF PromInv, Untouched
  <2> HIDE DEF next
  <2> QED BY <2>1, <2>2, <2>4, <2>5, PromoterKeeps DEF Step, Untouched
<1>4. CASE ~(m \in src.manifests \cup dst.manifests)
  BY <1>2, <1>4, GiveUpKeeps DEF CopyManifest
<1> QED BY <1>3, <1>4

\* The signature's manifest, then its link.
LEMMA CopySignatureKeeps ==
  ASSUME PromInv, NEW p \in Promoters, CopySignature(p)
  PROVE  PromInv'
<1>1. PICK m \in Images : prom[p] = [pc |-> "sig", m |-> m]
  BY DEF CopySignature, PromInv, PromTyped, PromState, Waiting
<1>2. Promoted(prom[p], Have, Held) /\ Untouched
  BY DEF PromInv, CopySignature
<1>3. CASE src.sig[m] # Nothing /\ src.sig[m] \in src.manifests
  <2>1. PICK s \in Signatures : s = src.sig[m]
    BY <1>3 DEF PromInv, PromTyped, RepoState
  <2> DEFINE next == [pc |-> "siglink", m |-> m, s |-> s]
  <2>2. Step(p, next) /\ StoreManifest(s)
    BY <1>1, <1>3, <2>1 DEF CopySignature
  <2>3. /\ dst' \in RepoState /\ dst'.tag = dst.tag /\ dst'.sig = dst.sig
        /\ SignaturesKept(dst, dst') /\ Have \subseteq Have' /\ Held \subseteq Held' /\ s \in Held'
    BY <2>2, StoreGrows DEF PromInv
  <2>4. Promoted(next, Have', Held') /\ next \in PromState
    BY <1>1, <1>2, <2>3 DEF Promoted, PromState
  <2>5. LinksLead(dst', Have', Held', removing')
    BY <1>2, <2>3, GrownKeeps DEF PromInv, Untouched
  <2> HIDE DEF next
  <2> QED BY <1>2, <2>2, <2>3, <2>4, <2>5, PromoterKeeps DEF Step, Untouched
<1>4. CASE ~(src.sig[m] # Nothing /\ src.sig[m] \in src.manifests)
  <2> DEFINE next == [pc |-> "tag", m |-> m]
  <2>1. Step(p, next) /\ UNCHANGED <<dst, removed, unseen>>
    BY <1>1, <1>4 DEF CopySignature
  <2>2. Promoted(next, Have, Held) /\ next \in PromState
    BY <1>1, <1>2 DEF Promoted, PromState
  <2> HIDE DEF next
  <2> QED BY <1>2, <2>1, <2>2, PromoterReads
<1> QED BY <1>3, <1>4

\* The tag, or the signature's link, is written after what it names.
LEMMA PutLinksKeep ==
  ASSUME PromInv, NEW p \in Promoters, PutSignatureLink(p) \/ PutTagLink(p)
  PROVE  PromInv'
<1>0. /\ dst \in RepoState /\ LinksLead(dst, Have, Held, removing)
      /\ Promoted(prom[p], Have, Held) /\ prom[p] \in PromState
      /\ Untouched /\ UNCHANGED <<removed, unseen>>
  BY DEF PromInv, PromTyped, PutSignatureLink, PutTagLink
<1>1. CASE PutSignatureLink(p)
  <2>1. PICK m \in Images, s \in Signatures : prom[p] = [pc |-> "siglink", m |-> m, s |-> s]
    BY <1>0, <1>1 DEF PutSignatureLink, PromState, Waiting
  <2> DEFINE next == [pc |-> "tag", m |-> m]
  <2>2. Step(p, next) /\ dst' = [dst EXCEPT !.sig[m] = s]
    BY <1>1, <2>1 DEF PutSignatureLink
  <2>3. /\ dst' \in RepoState /\ dst'.tag = dst.tag /\ dst'.blobs = dst.blobs
        /\ dst'.manifests = dst.manifests
    BY <1>0, <2>2 DEF RepoState
  <2>4. SignaturesKept(dst, dst') /\ Have' = Have /\ Held' = Held
    BY <1>0, <2>3 DEF SignaturesKept, Have, Held
  <2>5. Promoted(next, Have', Held') /\ next \in PromState
    BY <1>0, <2>1, <2>4 DEF Promoted, PromState
  <2>6. \A n \in Images : dst'.sig[n] = IF n = m THEN s ELSE dst.sig[n]
    BY <1>0, <2>2 DEF RepoState
  <2>7. LinksLead(dst', Have', Held', removing')
    <3>1. s \in Held
      BY <1>0, <2>1 DEF Promoted
    <3> QED BY <1>0, <2>3, <2>4, <2>6, <3>1 DEF LinksLead, Untouched
  <2> HIDE DEF next
  <2> QED BY <1>0, <2>2, <2>3, <2>4, <2>5, <2>7, PromoterKeeps DEF Step, Untouched
<1>2. CASE PutTagLink(p)
  <2>1. PICK m \in Images : prom[p] = [pc |-> "tag", m |-> m]
    BY <1>0, <1>2 DEF PutTagLink, PromState, Waiting
  <2>2. Step(p, Waiting) /\ dst' = [dst EXCEPT !.tag = m]
    BY <1>2, <2>1 DEF PutTagLink
  <2>3. /\ dst' \in RepoState /\ dst'.sig = dst.sig /\ dst'.tag = m
        /\ dst'.blobs = dst.blobs /\ dst'.manifests = dst.manifests
    BY <1>0, <2>2 DEF RepoState
  <2>4. SignaturesKept(dst, dst') /\ Have' = Have /\ Held' = Held
    BY <1>0, <2>3 DEF SignaturesKept, Have, Held
  <2>5. Promoted(Waiting, Have', Held') /\ Waiting \in PromState
    BY DEF Promoted, PromState, Waiting
  <2>6. m \in Held /\ Listed(m) \subseteq Have
    BY <1>0, <2>1 DEF Promoted
  <2>7. LinksLead(dst', Have', Held', removing')
    BY <1>0, <2>3, <2>4, <2>6 DEF LinksLead, Untouched
  <2> QED BY <1>0, <2>2, <2>3, <2>4, <2>5, <2>7, PromoterKeeps DEF Step, Untouched
<1> QED BY <1>1, <1>2

\* A step of the repositories' own traffic keeps the invariant when the signatures'
\* blobs stay, the destination's links lead somewhere, and what promotions and
\* uploads have stored and not yet linked is held.
LEMMA TrafficKeeps ==
  ASSUME PromInv, UNCHANGED <<sigRows, prom, signer>>,
         src' \in RepoState, dst' \in RepoState,
         SignaturesKept(src, src'), SignaturesKept(dst, dst'),
         Have \subseteq Have', \A x \in Held : x \in Held' \/ ~StillToLink(x),
         LinksLead(dst', Have', Held', removing')
  PROVE  PromInv'
<1>1. PromTyped'
  BY DEF PromInv, PromTyped
<1>2. ASSUME NEW q \in Promoters PROVE Promoted(prom'[q], Have', Held')
  <2>1. prom'[q] = prom[q] /\ Promoted(prom[q], Have, Held)
    BY DEF PromInv
  <2>2. /\ prom[q].pc \in {"sig", "siglink", "tag"} => StillToLink(prom[q].m)
        /\ prom[q].pc = "siglink" => StillToLink(prom[q].s)
    BY DEF StillToLink
  <2> QED BY <2>1, <2>2 DEF Promoted
<1>3. RowsBacked'
  BY SignaturesStay DEF PromInv
<1>4. ASSUME NEW g \in Signers PROVE Uploaded(signer[g], src'.blobs, dst'.blobs, Held')
  <2>1. signer[g].pc = "link" /\ signer[g].side = "dst" => StillToLink(signer[g].s)
    BY DEF StillToLink
  <2>2. signer[g].pc = "link" /\ signer[g].side = "dst" /\ signer[g].s \in Held => signer[g].s \in Held'
    BY <2>1
  <2> QED BY <2>2, SignaturesStay DEF PromInv
<1>5. SignersKeep'
  BY <1>4 DEF SignersKeep
<1> QED BY <1>1, <1>2, <1>3, <1>5 DEF PromInv

\* An image arrives whole.
LEMMA PushKeeps ==
  ASSUME PromInv, NEW side \in {"src", "dst"}, NEW m \in Images, PushImage(side, m)
  PROVE  PromInv'
<1> DEFINE layers == Reachable(m) \cap Layers
           images == {m} \cup (Reachable(m) \cap Images)
<1>1. layers \subseteq Layers /\ images \subseteq Images /\ m \in images
  OBVIOUS
<1>a. ASSUME Listed(m) \subseteq Layers \cup Images PROVE Listed(m) \subseteq layers \cup images
  BY <1>a DEF Reachable
<1>2. /\ Becomes(side, [Repo(side) EXCEPT !.blobs = @ \cup layers, !.manifests = @ \cup images,
                                          !.tag = m, !.counted = @ \cup images, !.paths = @ \cup layers])
      /\ StoredAgain(side, layers, images) /\ UNCHANGED <<sigRows, prom, signer>>
  BY DEF PushImage
<1> HIDE DEF layers, images
<1>3. src \in RepoState /\ dst \in RepoState /\ LinksLead(dst, Have, Held, removing)
  BY DEF PromInv, PromTyped
<1>4. CASE side = "src"
  <2>1. /\ src' = [src EXCEPT !.blobs = @ \cup layers, !.manifests = @ \cup images,
                              !.tag = m, !.counted = @ \cup images, !.paths = @ \cup layers]
        /\ UNCHANGED <<dst, removed, unseen, removing>>
    BY <1>2, <1>4 DEF Becomes, Repo, StoredAgain
  <2>2. src' \in RepoState /\ SignaturesKept(src, src')
    BY <1>1, <1>3, <2>1 DEF RepoState, SignaturesKept
  <2>3. SignaturesKept(dst, dst') /\ Have' = Have /\ Held' = Held
    BY <2>1 DEF SignaturesKept, Have, Held
  <2> QED BY <1>2, <1>3, <2>1, <2>2, <2>3, TrafficKeeps
<1>5. CASE side = "dst"
  <2>1. /\ dst' = [dst EXCEPT !.blobs = @ \cup layers, !.manifests = @ \cup images,
                              !.tag = m, !.counted = @ \cup images, !.paths = @ \cup layers]
        /\ UNCHANGED <<src, removing>>
        /\ removed' = removed \ (layers \cup images) /\ unseen' = unseen \ images
    BY <1>2, <1>5 DEF Becomes, Repo, StoredAgain
  <2>2. /\ dst' \in RepoState /\ dst'.tag = m /\ dst'.sig = dst.sig
        /\ dst'.blobs = dst.blobs \cup layers /\ dst'.manifests = dst.manifests \cup images
    BY <1>1, <1>3, <2>1 DEF RepoState
  <2>3. /\ SignaturesKept(src, src') /\ SignaturesKept(dst, dst')
        /\ Have \subseteq Have' /\ Held \subseteq Held'
    BY <2>1, <2>2 DEF SignaturesKept, Have, Held
  <2>4. m \in Held' /\ Listed(m) \subseteq Have'
    <3>1. Listed(m) \subseteq Layers \cup Images
      BY RefsAssumption DEF Listed
    <3>2. Listed(m) \subseteq layers \cup images
      BY <1>a, <3>1
    <3> QED BY <1>1, <2>2, <3>2 DEF Have, Held
  <2>5. LinksLead(dst', Have', Held', removing')
    BY <1>3, <2>1, <2>2, <2>3, <2>4 DEF LinksLead
  <2> QED BY <1>2, <1>3, <2>1, <2>2, <2>3, <2>5, TrafficKeeps
<1> QED BY <1>4, <1>5

\* A DELETE takes the manifest away; the links to it go next.
LEMMA DeleteManifestKeeps ==
  ASSUME PromInv, NEW side \in {"src", "dst"}, NEW x \in Images \cup Signatures,
         DeleteManifest(side, x)
  PROVE  PromInv'
<1>1. src \in RepoState /\ dst \in RepoState /\ LinksLead(dst, Have, Held, removing)
  BY DEF PromInv, PromTyped
<1>2. UNCHANGED <<sigRows, prom, signer>> /\ removing' = removing \cup {<<side, x>>}
  BY DEF DeleteManifest
<1>3. CASE side = "src"
  <2>1. src' = [src EXCEPT !.manifests = src.manifests \ {x}] /\ UNCHANGED <<dst, removed, unseen>>
    BY <1>3 DEF DeleteManifest, Becomes, Repo
  <2>2. src' \in RepoState /\ SignaturesKept(src, src')
    BY <1>1, <2>1 DEF RepoState, SignaturesKept
  <2>3. SignaturesKept(dst, dst') /\ Have' = Have /\ Held' = Held
    BY <2>1 DEF SignaturesKept, Have, Held
  <2>4. LinksLead(dst', Have', Held', removing')
    BY <1>1, <1>2, <2>1, <2>3 DEF LinksLead
  <2> QED BY <1>1, <1>2, <2>1, <2>2, <2>3, <2>4, TrafficKeeps
<1>4. CASE side = "dst"
  <2>1. /\ dst' = [dst EXCEPT !.manifests = dst.manifests \ {x}] /\ src' = src
        /\ removed' = removed \cup {x} /\ unseen' = IF StillToLink(x) THEN unseen \cup {x} ELSE unseen
    BY <1>4 DEF DeleteManifest, Becomes, Repo
  <2>2. /\ dst' \in RepoState /\ dst'.tag = dst.tag /\ dst'.sig = dst.sig
        /\ dst'.blobs = dst.blobs /\ dst'.manifests = dst.manifests \ {x}
    BY <1>1, <2>1 DEF RepoState
  <2>3. SignaturesKept(src, src') /\ SignaturesKept(dst, dst') /\ Have \subseteq Have'
    BY <2>1, <2>2 DEF SignaturesKept, Have
  <2>4. \A y \in Held : y \in Held' \/ (y = x /\ ~StillToLink(y))
    BY <2>1, <2>2 DEF Held
  <2>5. LinksLead(dst', Have', Held', removing')
    BY <1>1, <1>2, <1>4, <2>2, <2>3, <2>4 DEF LinksLead
  <2> QED BY <1>1, <1>2, <2>1, <2>2, <2>3, <2>4, <2>5, TrafficKeeps
<1> QED BY <1>3, <1>4

\* The links to a deleted manifest are gone, or are known not to lead anywhere.
LEMMA DeleteEndKeeps ==
  ASSUME PromInv, NEW side \in {"src", "dst"}, NEW x \in Images \cup Signatures,
         DeleteTagsForDigest(side, x) \/ DeleteFails(side, x)
  PROVE  PromInv'
<1>1. src \in RepoState /\ dst \in RepoState /\ LinksLead(dst, Have, Held, removing)
  BY DEF PromInv, PromTyped
<1>2. /\ UNCHANGED <<sigRows, prom, signer, removed>> /\ removing' = removing \ {<<side, x>>}
  BY DEF DeleteTagsForDigest, DeleteFails
<1>3. \A y : side = "src" => (<<"dst", y>> \in removing' <=> <<"dst", y>> \in removing)
  BY <1>2
<1>4. \A y : y # x => (<<"dst", y>> \in removing' <=> <<"dst", y>> \in removing)
  BY <1>2
<1>5. CASE DeleteFails(side, x)
  <2>1. UNCHANGED <<src, dst>> /\ unseen' = IF side = "dst" THEN unseen \cup {x} ELSE unseen
    BY <1>5 DEF DeleteFails
  <2>2. /\ SignaturesKept(src, src') /\ SignaturesKept(dst, dst')
        /\ Have' = Have /\ Held' = IF side = "dst" THEN Held \cup {x} ELSE Held
    BY <1>2, <2>1 DEF SignaturesKept, Have, Held
  <2>3. LinksLead(dst', Have', Held', removing')
    BY <1>1, <1>3, <1>4, <2>1, <2>2 DEF LinksLead
  <2> QED BY <1>1, <1>2, <2>1, <2>2, <2>3, TrafficKeeps
<1>6. CASE DeleteTagsForDigest(side, x)
  <2> DEFINE new(r) == [r EXCEPT !.tag = IF r.tag = x THEN Nothing ELSE r.tag,
                                 !.sig = [m \in Images |-> IF r.sig[m] = x THEN Nothing ELSE r.sig[m]],
                                 !.counted = r.counted \ {x}]
  <2>1. Becomes(side, new(Repo(side))) /\ unseen' = unseen
    BY <1>6 DEF DeleteTagsForDigest
  <2>2. \A r \in RepoState :
          /\ new(r) \in RepoState /\ new(r).blobs = r.blobs /\ new(r).manifests = r.manifests
          /\ new(r).tag = IF r.tag = x THEN Nothing ELSE r.tag
          /\ \A m \in Images : new(r).sig[m] = IF r.sig[m] = x THEN Nothing ELSE r.sig[m]
    BY DEF RepoState
  <2> HIDE DEF new
  <2>3. CASE side = "src"
    <3>1. src' = new(src) /\ dst' = dst
      BY <2>1, <2>3 DEF Becomes, Repo
    <3>2. src' \in RepoState /\ SignaturesKept(src, src') /\ SignaturesKept(dst, dst')
      BY <1>1, <2>2, <3>1 DEF SignaturesKept
    <3>3. Have' = Have /\ Held' = Held
      BY <1>2, <2>1, <3>1 DEF Have, Held
    <3>4. LinksLead(dst', Have', Held', removing')
      BY <1>1, <1>3, <2>3, <3>1, <3>3 DEF LinksLead
    <3> QED BY <1>1, <1>2, <3>1, <3>2, <3>3, <3>4, TrafficKeeps
  <2>4. CASE side = "dst"
    <3>1. dst' = new(dst) /\ src' = src
      BY <2>1, <2>4 DEF Becomes, Repo
    <3>2. /\ dst' \in RepoState /\ dst'.blobs = dst.blobs /\ dst'.manifests = dst.manifests
          /\ dst'.tag = IF dst.tag = x THEN Nothing ELSE dst.tag
          /\ \A m \in Images : dst'.sig[m] = IF dst.sig[m] = x THEN Nothing ELSE dst.sig[m]
      BY <1>1, <2>2, <3>1
    <3>3. /\ SignaturesKept(src, src') /\ SignaturesKept(dst, dst') /\ Have' = Have /\ Held' = Held
      BY <1>2, <2>1, <3>1, <3>2 DEF SignaturesKept, Have, Held
    <3>4. LinksLead(dst', Have', Held', removing')
      BY <1>1, <1>4, <3>2, <3>3 DEF LinksLead
    <3> QED BY <1>1, <1>2, <3>1, <3>2, <3>3, <3>4, TrafficKeeps
  <2> QED BY <2>3, <2>4
<1> QED BY <1>5, <1>6

\* The reaper takes a layer, never a signature.
LEMMA ReapKeeps ==
  ASSUME PromInv, NEW side \in {"src", "dst"}, NEW d \in Layers, ReapLayer(side, d)
  PROVE  PromInv'
<1>1. src \in RepoState /\ dst \in RepoState /\ LinksLead(dst, Have, Held, removing)
  BY DEF PromInv, PromTyped
<1>2. d \notin Signatures
  BY RefsAssumption
<1>3. UNCHANGED <<sigRows, prom, signer, removing, unseen>>
  BY DEF ReapLayer
<1>4. CASE side = "src"
  <2>1. /\ src' = [src EXCEPT !.blobs = src.blobs \ {d}, !.paths = src.paths \ {d}]
        /\ UNCHANGED <<dst, removed>>
    BY <1>4 DEF ReapLayer, Becomes, Repo
  <2>2. src' \in RepoState /\ src'.blobs = src.blobs \ {d}
    BY <1>1, <2>1 DEF RepoState
  <2>3. SignaturesKept(src, src') /\ SignaturesKept(dst, dst') /\ Have' = Have /\ Held' = Held
    BY <1>2, <1>3, <2>1, <2>2 DEF SignaturesKept, Have, Held
  <2> QED BY <1>1, <1>3, <2>1, <2>2, <2>3, TrafficKeeps
<1>5. CASE side = "dst"
  <2>1. /\ dst' = [dst EXCEPT !.blobs = dst.blobs \ {d}, !.paths = dst.paths \ {d}]
        /\ src' = src /\ removed' = removed \cup {d}
    BY <1>5 DEF ReapLayer, Becomes, Repo
  <2>2. /\ dst' \in RepoState /\ dst'.blobs = dst.blobs \ {d} /\ dst'.manifests = dst.manifests
        /\ dst'.tag = dst.tag /\ dst'.sig = dst.sig
    BY <1>1, <2>1 DEF RepoState
  <2>3. /\ SignaturesKept(src, src') /\ SignaturesKept(dst, dst')
        /\ Have \subseteq Have' /\ Held' = Held
    BY <1>2, <1>3, <2>1, <2>2 DEF SignaturesKept, Have, Held
  <2>4. LinksLead(dst', Have', Held', removing')
    BY <1>1, <1>3, <2>2, <2>3, GrownKeeps
  <2> QED BY <1>1, <1>3, <2>1, <2>2, <2>3, <2>4, TrafficKeeps
<1> QED BY <1>4, <1>5

\* A step of an upload.
LEMMA SignerKeeps ==
  ASSUME PromInv, NEW g \in Signers, NEW r \in SignerState, signer' = [signer EXCEPT ![g] = r],
         UNCHANGED prom, src' \in RepoState, dst' \in RepoState,
         SignaturesKept(src, src'), SignaturesKept(dst, dst'),
         Have \subseteq Have', Held \subseteq Held',
         LinksLead(dst', Have', Held', removing'),
         Uploaded(r, src'.blobs, dst'.blobs, Held'),
         sigRows' \in [Images \X Signatures -> {"src", "dst", Nothing}], RowsBacked'
  PROVE  PromInv'
<1>1. PromTyped'
  BY DEF PromInv, PromTyped
<1>2. ASSUME NEW q \in Promoters PROVE Promoted(prom'[q], Have', Held')
  BY GrownKeeps DEF PromInv
<1>3. ASSUME NEW h \in Signers PROVE Uploaded(signer'[h], src'.blobs, dst'.blobs, Held')
  <2>1. CASE h = g
    BY <2>1 DEF PromInv, PromTyped
  <2>2. CASE h # g
    <3>1. signer'[h] = signer[h]
      BY <2>2 DEF PromInv, PromTyped
    <3>2. Uploaded(signer[h], src'.blobs, dst'.blobs, Held')
      BY SignaturesStay DEF PromInv
    <3> QED BY <3>1, <3>2
  <2> QED BY <2>1, <2>2
<1>4. SignersKeep'
  BY <1>3 DEF SignersKeep
<1> QED BY <1>1, <1>2, <1>4 DEF PromInv

\* An upload that starts, or ends without a row, writes nothing.
LEMMA UploadKeeps ==
  ASSUME PromInv, NEW g \in Signers,
         \/ \E side \in {"src", "dst"}, m \in Images, s \in Signatures : UploadSignature(g, side, m, s)
         \/ SignFails(g)
  PROVE  PromInv'
<1>1. UNCHANGED <<src, dst, sigRows, prom, removing, removed, unseen>>
  BY DEF UploadSignature, SignFails, deleteVars
<1>2. PICK r \in SignerState : signer' = [signer EXCEPT ![g] = r] /\ r.pc \in {"idle", "blob"}
  <2>1. ASSUME NEW side \in {"src", "dst"}, NEW m \in Images, NEW s \in Signatures,
               UploadSignature(g, side, m, s)
        PROVE  \E r \in SignerState : signer' = [signer EXCEPT ![g] = r] /\ r.pc \in {"idle", "blob"}
    <3>1. [pc |-> "blob", side |-> side, m |-> m, s |-> s] \in SignerState
      BY DEF SignerState
    <3> QED BY <2>1, <3>1 DEF UploadSignature
  <2>2. ASSUME SignFails(g)
        PROVE  \E r \in SignerState : signer' = [signer EXCEPT ![g] = r] /\ r.pc \in {"idle", "blob"}
    <3>1. Waiting \in SignerState /\ Waiting.pc = "idle"
      BY DEF SignerState, Waiting
    <3> QED BY <2>2, <3>1 DEF SignFails
  <2> QED BY <2>1, <2>2
<1>3. /\ SignaturesKept(src, src') /\ SignaturesKept(dst, dst') /\ Have' = Have /\ Held' = Held
  BY <1>1 DEF SignaturesKept, Have, Held
<1>4. /\ src' \in RepoState /\ dst' \in RepoState /\ LinksLead(dst', Have', Held', removing')
      /\ RowsBacked' /\ sigRows' \in [Images \X Signatures -> {"src", "dst", Nothing}]
  BY <1>1, <1>3, SignaturesStay DEF PromInv, PromTyped
<1>5. Uploaded(r, src'.blobs, dst'.blobs, Held')
  BY <1>2 DEF Uploaded
<1> QED BY <1>1, <1>2, <1>3, <1>4, <1>5, SignerKeeps

\* A call of an upload: the repository it is for grows by what the call stores.
LEMMA PersistKeeps ==
  ASSUME PromInv, NEW g \in Signers, PersistSignature(g)
  PROVE  PromInv'
<1>1. PICK side \in {"src", "dst"}, m \in Images, s \in Signatures, pc \in {"blob", "manifest", "link"} :
        signer[g] = [pc |-> pc, side |-> side, m |-> m, s |-> s]
  BY DEF PersistSignature, SignStep, PromInv, PromTyped, SignerState, Waiting
<1> DEFINE new(repo) == IF pc = "blob" THEN [repo EXCEPT !.blobs = @ \cup {s}]
                        ELSE IF pc = "manifest" THEN [repo EXCEPT !.manifests = @ \cup {s}]
                        ELSE [repo EXCEPT !.sig[m] = s]
           to == IF pc = "blob" THEN "manifest" ELSE IF pc = "manifest" THEN "link" ELSE "row"
           r == [pc |-> to, side |-> side, m |-> m, s |-> s]
<1>2. /\ signer' = [signer EXCEPT ![g].pc = to] /\ UNCHANGED <<sigRows, prom, removing>>
      /\ Becomes(side, new(Repo(side)))
      /\ removed' = IF pc = "manifest" /\ side = "dst" THEN removed \ {s} ELSE removed
      /\ unseen' = IF pc = "manifest" /\ side = "dst" THEN unseen \ {s} ELSE unseen
  BY <1>1 DEF PersistSignature, SignStep, StoredAgain, deleteVars
<1>3. signer' = [signer EXCEPT ![g] = r] /\ r \in SignerState
  <2>1. [signer[g] EXCEPT !.pc = to] = r
    BY <1>1, Replaced
  <2>2. signer' = [signer EXCEPT ![g] = [signer[g] EXCEPT !.pc = to]]
    BY <1>2
  <2>3. r \in SignerState
    BY <1>1 DEF SignerState
  <2> HIDE DEF r
  <2> QED BY <2>1, <2>2, <2>3
<1>4. \A repo \in RepoState :
        /\ new(repo) \in RepoState /\ new(repo).tag = repo.tag
        /\ new(repo).blobs = IF pc = "blob" THEN repo.blobs \cup {s} ELSE repo.blobs
        /\ new(repo).manifests = IF pc = "manifest" THEN repo.manifests \cup {s} ELSE repo.manifests
        /\ \A n \in Images : new(repo).sig[n] = IF pc = "link" /\ n = m THEN s ELSE repo.sig[n]
  BY <1>1 DEF RepoState
<1>5. /\ src \in RepoState /\ dst \in RepoState /\ LinksLead(dst, Have, Held, removing)
      /\ Uploaded(signer[g], src.blobs, dst.blobs, Held)
  BY DEF PromInv, PromTyped, SignersKeep
<1>6. /\ r.pc = to /\ r.side = side /\ r.s = s
      /\ signer[g].pc = pc /\ signer[g].side = side /\ signer[g].s = s
  BY <1>1
<1> HIDE DEF new, r
<1>7. CASE side = "src"
  <2>1. src' = new(src) /\ dst' = dst /\ removed' = removed /\ unseen' = unseen
    BY <1>2, <1>7 DEF Becomes, Repo
  <2>2. /\ src' \in RepoState /\ SignaturesKept(src, src') /\ SignaturesKept(dst, dst')
        /\ Have' = Have /\ Held' = Held
    BY <1>4, <1>5, <2>1 DEF SignaturesKept, Have, Held
  <2>3. s \in src'.blobs
    BY <1>1, <1>4, <1>5, <1>6, <1>7, <2>1 DEF Uploaded
  <2>4. Uploaded(r, src'.blobs, dst'.blobs, Held')
    BY <1>6, <1>7, <2>3 DEF Uploaded
  <2>5. RowsBacked' /\ sigRows' \in [Images \X Signatures -> {"src", "dst", Nothing}]
    BY <1>2, <2>2, SignaturesStay DEF PromInv, PromTyped
  <2> QED BY <1>2, <1>3, <1>5, <2>1, <2>2, <2>4, <2>5, SignerKeeps
<1>8. CASE side = "dst"
  <2>1. dst' = new(dst) /\ src' = src
    BY <1>2, <1>8 DEF Becomes, Repo
  <2>2. /\ dst' \in RepoState /\ dst'.tag = dst.tag
        /\ dst'.blobs = IF pc = "blob" THEN dst.blobs \cup {s} ELSE dst.blobs
        /\ dst'.manifests = IF pc = "manifest" THEN dst.manifests \cup {s} ELSE dst.manifests
        /\ \A n \in Images : dst'.sig[n] = IF pc = "link" /\ n = m THEN s ELSE dst.sig[n]
    BY <1>4, <1>5, <2>1
  <2>3. /\ SignaturesKept(src, src') /\ SignaturesKept(dst, dst')
        /\ Have \subseteq Have' /\ Held \subseteq Held'
    BY <1>1, <1>2, <1>8, <2>1, <2>2 DEF SignaturesKept, Have, Held
  <2>4. s \in dst'.blobs /\ (pc \in {"manifest", "link"} => s \in Held')
    BY <1>1, <1>5, <1>6, <1>8, <2>2, <2>3 DEF Uploaded, Held
  <2>5. Uploaded(r, src'.blobs, dst'.blobs, Held')
    BY <1>1, <1>6, <1>8, <2>4 DEF Uploaded
  <2>6. LinksLead(dst', Have', Held', removing')
    BY <1>2, <1>5, <2>2, <2>3, <2>4 DEF LinksLead
  <2>7. RowsBacked' /\ sigRows' \in [Images \X Signatures -> {"src", "dst", Nothing}]
    BY <1>2, <2>3, SignaturesStay DEF PromInv, PromTyped
  <2> QED BY <1>2, <1>3, <1>5, <2>1, <2>2, <2>3, <2>5, <2>6, <2>7, SignerKeeps
<1> QED BY <1>7, <1>8

\* The row names the repository whose upload stored the blob.
LEMMA RegisterKeeps ==
  ASSUME PromInv, NEW g \in Signers, RegisterSignatureMetadata(g)
  PROVE  PromInv'
<1>1. PICK side \in {"src", "dst"}, m \in Images, s \in Signatures :
        signer[g] = [pc |-> "row", side |-> side, m |-> m, s |-> s]
  BY DEF RegisterSignatureMetadata, SignStep, PromInv, PromTyped, SignerState, Waiting
<1> DEFINE r == [pc |-> "done", side |-> side, m |-> m, s |-> s]
<1>2. /\ UNCHANGED <<src, dst, prom, removing, removed, unseen>>
      /\ \/ sigRows' = sigRows
         \/ sigRows' = [sigRows EXCEPT ![<<m, s>>] = side]
  BY <1>1 DEF RegisterSignatureMetadata, SignStep, PutSignatureRow, deleteVars
<1>3. signer' = [signer EXCEPT ![g] = r] /\ r \in SignerState
  <2>1. [signer[g] EXCEPT !.pc = "done"] = r
    BY <1>1, Replaced
  <2>2. signer' = [signer EXCEPT ![g] = [signer[g] EXCEPT !.pc = "done"]]
    BY DEF RegisterSignatureMetadata, SignStep
  <2>3. r \in SignerState
    BY DEF SignerState
  <2> HIDE DEF r
  <2> QED BY <2>1, <2>2, <2>3
<1>4. /\ side = "src" => s \in src.blobs
      /\ side = "dst" => s \in dst.blobs
  BY <1>1 DEF PromInv, SignersKeep, Uploaded
<1>5. /\ SignaturesKept(src, src') /\ SignaturesKept(dst, dst') /\ Have' = Have /\ Held' = Held
      /\ src' \in RepoState /\ dst' \in RepoState /\ LinksLead(dst', Have', Held', removing')
  BY <1>2 DEF SignaturesKept, Have, Held, PromInv, PromTyped
<1>6. Uploaded(r, src'.blobs, dst'.blobs, Held')
  BY <1>2, <1>4 DEF Uploaded
<1>7. RowsBacked' /\ sigRows' \in [Images \X Signatures -> {"src", "dst", Nothing}]
  BY <1>2, <1>4 DEF PromInv, PromTyped, RowsBacked
<1> HIDE DEF r
<1> QED BY <1>2, <1>3, <1>5, <1>6, <1>7, SignerKeeps

\* Promotions, signature uploads, pushes and DELETEs, any number of them at once and
\* failing anywhere, keep PromotedIsComplete: a link of the destination whose manifest
\* is missing is one its DELETE did not see or has yet to take.
THEOREM PromotionComplete == PromSpec => []PromotedIsComplete
<1>1. ASSUME PromInv, [PromNext]_promVars PROVE PromInv'
  <2>1. CASE UNCHANGED promVars
    BY <1>1, <2>1 DEF promVars, deleteVars, PromInv, PromTyped, SignersKeep, RowsBacked, Have, Held
  <2>2. ASSUME NEW p \in Promoters, CallFails(p) PROVE PromInv'
    BY <1>1, <2>2, GiveUpKeeps DEF CallFails
  <2> QED BY <1>1, <2>1, <2>2, PushKeeps, DeleteManifestKeeps, DeleteEndKeeps, ReapKeeps,
             UploadKeeps, PersistKeeps, RegisterKeeps,
             ResolveKeeps, CopyKeeps, CopyManifestKeeps, CopySignatureKeeps, PutLinksKeep
          DEF PromNext
<1>2. PromInv => PromotedIsComplete
  <2> SUFFICES ASSUME PromInv PROVE PromotedIsComplete
    OBVIOUS
  <2>1. ASSUME NEW m \in Images, NEW s \in Signatures, sigRows[<<m, s>>] # Nothing
        PROVE  EnforcePullSignaturePolicy(sigRows[<<m, s>>], m)
    BY <2>1 DEF PromInv, PromTyped, RowsBacked, EnforcePullSignaturePolicy, Repo
  <2> QED BY <2>1 DEF PromInv, LinksLead, LinkLeads, Have, Held, PromotedIsComplete
<1> QED BY <1>1, <1>2, PromInvInit, PTL DEF PromSpec

----------------------------------------------------------------------------
(* Rebuild: the daily cap.  SentWithinCap alone is not inductive: a failed    *)
(* firing gives back a slot that it took, so the ledger must be known to      *)
(* cover the events sent and the slots still to be given back.                *)

\* A firing is idle, has read the subscription, or holds the slot of a bucket.
FiringState ==
    {Quiet} \cup [pc : {"check"}, id : Subs, cap : Caps] \cup [pc : {"emit"}, b : Bucket]
    \cup [pc : {"failed"}, b : Bucket, taken : BOOLEAN]

\* The firings whose event the endpoint never took and whose slot is still taken.
FailedIn(b) == {f \in Firings : firing[f].pc = "failed" /\ firing[f].b = b /\ ~firing[f].taken}

RebTyped ==
    /\ day \in Days /\ sub.id \in Subs /\ sub.cap \in Caps
    /\ fired \in [Bucket -> Nat]
    /\ firing \in [Firings -> FiringState]
    /\ sent \in [Bucket -> Int]
    /\ limit \in [Bucket -> Nat]
    /\ lent \in [Bucket -> Nat]

\* The ledger of a bucket covers what was sent from it and the slots failed firings
\* still hold, and nothing but what was lent is uncovered.
LedgerCovers ==
    \A b \in Bucket : sent[b] + Cardinality(FailedIn(b)) <= fired[b] + lent[b]

\* The inductive invariant of the daily cap.
RebInv == RebTyped /\ LedgerCovers /\ SentWithinCap

\* The larger of two natural numbers is one of them and below neither.
LEMMA MaxOfTwo ==
  ASSUME NEW m \in Nat, NEW n \in Nat
  PROVE  Max({m, n}) \in Nat /\ Max({m, n}) >= m /\ Max({m, n}) >= n
<1>1. \E x \in {m, n} : \A y \in {m, n} : x >= y
  <2>1. CASE m >= n
    BY <2>1
  <2>2. CASE ~(m >= n)
    BY <2>2
  <2> QED BY <2>1, <2>2
<1>2. Max({m, n}) \in {m, n} /\ \A y \in {m, n} : Max({m, n}) >= y
  BY <1>1 DEF Max
<1> QED BY <1>2

\* The cap in force is a natural number.
LEMMA PerDayIsNat == \A cap \in Caps : PerDay(cap) \in Nat
BY RebuildAssumption, MaxOfTwo DEF PerDay

\* The failed firings are finitely many, so adding or removing one counts.
LEMMA FailedCount ==
  ASSUME NEW S \in SUBSET Firings
  PROVE  /\ Cardinality(S) \in Nat
         /\ \A f \in Firings : f \notin S => Cardinality(S \cup {f}) = Cardinality(S) + 1
         /\ \A f \in S : Cardinality(S \ {f}) = Cardinality(S) - 1
<1>1. IsFiniteSet(S)
  BY RebuildAssumption, FS_Subset
<1> QED BY <1>1, FS_CardinalityType, FS_AddElement, FS_RemoveElement

\* Nothing is sent and no slot is taken at the start.
LEMMA RebInvInit == RebInit => RebInv
<1> SUFFICES ASSUME RebInit PROVE RebInv
  OBVIOUS
<1>1. 1 \in Days /\ 1 \in Subs
  BY RebuildAssumption DEF Days, Subs
<1>2. RebTyped
  BY <1>1 DEF RebInit, RebTyped, FiringState
<1>3. \A b \in Bucket : FailedIn(b) = {}
  BY DEF RebInit, FailedIn, Quiet
<1>4. LedgerCovers
  <2>1. \A b \in Bucket : sent[b] = 0 /\ fired[b] = 0 /\ lent[b] = 0
    BY DEF RebInit
  <2>2. \A b \in Bucket : Cardinality(FailedIn(b)) = 0
    BY <1>3, FS_EmptySet
  <2> QED BY <2>1, <2>2 DEF LedgerCovers
<1>5. SentWithinCap
  BY DEF RebInit, SentWithinCap
<1> QED BY <1>2, <1>4, <1>5 DEF RebInv

\* The clock and the subscription move under the firings' feet, but what firings
\* read and the buckets they hold are theirs.
LEMMA ClockKeeps ==
  ASSUME RebInv,
         Midnight \/ \E id \in Subs, on \in BOOLEAN, cap \in Caps : UpsertSubscription(id, on, cap)
  PROVE  RebInv'
<1>1. UNCHANGED <<fired, firing, sent, limit, lent>>
  BY DEF Midnight, UpsertSubscription
<1>2. day' \in Days /\ sub'.id \in Subs /\ sub'.cap \in Caps
  BY RebuildAssumption DEF RebInv, RebTyped, Midnight, UpsertSubscription, Days, Subs
<1>3. RebTyped'
  BY <1>1, <1>2 DEF RebInv, RebTyped
<1>4. \A b \in Bucket : FailedIn(b)' = FailedIn(b)
  BY <1>1 DEF FailedIn
<1> QED BY <1>1, <1>3, <1>4 DEF RebInv, LedgerCovers, SentWithinCap

\* Reading the subscription, or failing to charge it, takes no slot.
LEMMA ReadKeeps ==
  ASSUME RebInv, NEW f \in Firings, RebuildTrigger(f) \/ CheckFails(f)
  PROVE  RebInv'
<1>1. /\ UNCHANGED <<day, sub, fired, sent, limit, lent>>
      /\ firing[f].pc # "failed"
      /\ \E next \in FiringState :
            next.pc # "failed" /\ firing' = [firing EXCEPT ![f] = next]
  BY DEF RebuildTrigger, CheckFails, RebInv, RebTyped, FiringState, Quiet
<1>2. RebTyped'
  BY <1>1 DEF RebInv, RebTyped
<1>3. \A b \in Bucket : FailedIn(b)' = FailedIn(b)
  BY <1>1 DEF FailedIn, RebInv, RebTyped
<1> QED BY <1>1, <1>2, <1>3 DEF RebInv, LedgerCovers, SentWithinCap

\* A granted firing finds fired[b] below its cap: what was sent so far is below it.
LEMMA TriggerKeeps ==
  ASSUME RebInv, NEW f \in Firings, CheckAndIncrement(f)
  PROVE  RebInv'
<1>1. PICK id \in Subs, cap \in Caps : firing[f] = [pc |-> "check", id |-> id, cap |-> cap]
  BY DEF CheckAndIncrement, RebInv, RebTyped, FiringState, Quiet
<1>2. PICK b \in Bucket : b = <<id, day>>
  BY DEF RebInv, RebTyped, Bucket
<1>3. /\ fired' = [fired EXCEPT ![b] = @ + 1]
      /\ limit' = [limit EXCEPT ![b] = Max({@, PerDay(cap)})]
      /\ lent' = lent /\ day' = day /\ sub' = sub
  <2>1. firing[f].id = id /\ firing[f].cap = cap
    BY <1>1
  <2> QED BY <1>2, <2>1 DEF CheckAndIncrement
<1>4. PerDay(cap) \in Nat /\ limit'[b] >= PerDay(cap)
  BY <1>3, PerDayIsNat, MaxOfTwo DEF RebInv, RebTyped
<1>5. limit' \in [Bucket -> Nat] /\ \A c \in Bucket : limit'[c] >= limit[c]
  BY <1>3, <1>4, MaxOfTwo DEF RebInv, RebTyped
<1>6. \A c \in Bucket : Cardinality(FailedIn(c)) \in Nat
  BY FailedCount DEF FailedIn
<1>7. CASE fired[b] + 1 <= PerDay(cap)
  <2>1. /\ firing' = [firing EXCEPT ![f] = [pc |-> "emit", b |-> b]]
        /\ sent' = [sent EXCEPT ![b] = @ + 1]
    BY <1>1, <1>2, <1>7 DEF CheckAndIncrement
  <2>2. RebTyped'
    BY <1>3, <1>5, <2>1 DEF RebInv, RebTyped, FiringState
  <2>3. \A c \in Bucket : FailedIn(c)' = FailedIn(c)
    BY <1>1, <2>1 DEF FailedIn, RebInv, RebTyped
  <2>4. LedgerCovers'
    BY <1>3, <1>6, <2>1, <2>3 DEF RebInv, RebTyped, LedgerCovers
  <2>5. SentWithinCap'
    <3> SUFFICES ASSUME NEW c \in Bucket PROVE sent'[c] <= limit'[c] + lent'[c]
      BY DEF SentWithinCap
    <3>1. sent[c] + Cardinality(FailedIn(c)) <= fired[c] + lent[c] /\ sent[c] <= limit[c] + lent[c]
      BY DEF RebInv, LedgerCovers, SentWithinCap
    <3> QED BY <1>3, <1>4, <1>5, <1>6, <1>7, <2>1, <3>1 DEF RebInv, RebTyped
  <2> QED BY <2>2, <2>4, <2>5 DEF RebInv
<1>8. CASE ~(fired[b] + 1 <= PerDay(cap))
  <2>1. firing' = [firing EXCEPT ![f] = Quiet] /\ sent' = sent
    BY <1>1, <1>2, <1>8 DEF CheckAndIncrement
  <2>2. RebTyped'
    BY <1>3, <1>5, <2>1 DEF RebInv, RebTyped, FiringState
  <2>3. \A c \in Bucket : FailedIn(c)' = FailedIn(c)
    BY <1>1, <2>1 DEF FailedIn, RebInv, RebTyped, Quiet
  <2>4. LedgerCovers'
    BY <1>3, <1>6, <2>1, <2>3 DEF RebInv, RebTyped, LedgerCovers
  <2>5. SentWithinCap'
    <3> SUFFICES ASSUME NEW c \in Bucket PROVE sent'[c] <= limit'[c] + lent'[c]
      BY DEF SentWithinCap
    <3>1. sent[c] <= limit[c] + lent[c] /\ limit'[c] >= limit[c] /\ limit'[c] \in Nat
      BY <1>5 DEF RebInv, SentWithinCap
    <3> QED BY <1>3, <2>1, <3>1 DEF RebInv, RebTyped
  <2> QED BY <2>2, <2>4, <2>5 DEF RebInv
<1> QED BY <1>7, <1>8

\* An event that left, or never will, frees no slot; one that failed without being
\* taken is now owed one.
LEMMA EmitKeeps ==
  ASSUME RebInv, NEW f \in Firings, NEW taken \in BOOLEAN,
         EmitSucceeds(f) \/ NothingEmitted(f) \/ EmitFails(f, taken)
  PROVE  RebInv'
<1>1. PICK b \in Bucket : firing[f] = [pc |-> "emit", b |-> b]
  BY DEF EmitSucceeds, NothingEmitted, EmitFails, RebInv, RebTyped, FiringState, Quiet
<1>2. UNCHANGED <<day, sub, fired, limit, lent>>
  BY DEF EmitSucceeds, NothingEmitted, EmitFails
<1>3. \A c \in Bucket : Cardinality(FailedIn(c)) \in Nat
  BY FailedCount DEF FailedIn
<1>4. CASE EmitSucceeds(f) \/ NothingEmitted(f) \/ (EmitFails(f, taken) /\ taken)
  <2>1. /\ sent' = sent \/ sent' = [sent EXCEPT ![b] = @ - 1]
        /\ \E next \in FiringState :
             /\ firing' = [firing EXCEPT ![f] = next]
             /\ next.pc = "failed" => next.taken
    BY <1>1, <1>4 DEF EmitSucceeds, NothingEmitted, EmitFails, FiringState, Quiet
  <2>2. \A c \in Bucket : FailedIn(c)' = FailedIn(c)
    BY <1>1, <2>1 DEF FailedIn, RebInv, RebTyped
  <2>3. RebTyped'
    BY <1>1, <1>2, <2>1 DEF RebInv, RebTyped
  <2> QED BY <1>1, <1>2, <1>3, <2>1, <2>2, <2>3
      DEF RebInv, RebTyped, LedgerCovers, SentWithinCap
<1>5. CASE EmitFails(f, taken) /\ ~taken
  <2>1. /\ firing' = [firing EXCEPT ![f] = [pc |-> "failed", b |-> b, taken |-> FALSE]]
        /\ sent' = [sent EXCEPT ![b] = @ - 1]
    <3>1. taken = FALSE /\ firing[f].b = b
      BY <1>1, <1>5
    <3> QED BY <1>5, <3>1 DEF EmitFails
  <2>2. firing'[f] = [pc |-> "failed", b |-> b, taken |-> FALSE]
    BY <1>1, <2>1 DEF RebInv, RebTyped
  <2>3. /\ f \notin FailedIn(b)
        /\ \A c \in Bucket : FailedIn(c)' = IF c = b THEN FailedIn(c) \cup {f} ELSE FailedIn(c)
    BY <1>1, <2>1, <2>2 DEF FailedIn, RebInv, RebTyped
  <2>4. \A c \in Bucket : Cardinality(FailedIn(c)') = Cardinality(FailedIn(c)) + IF c = b THEN 1 ELSE 0
    <3> SUFFICES ASSUME NEW c \in Bucket
                 PROVE  Cardinality(FailedIn(c)') = Cardinality(FailedIn(c)) + IF c = b THEN 1 ELSE 0
      OBVIOUS
    <3>1. FailedIn(c) \in SUBSET Firings
      BY DEF FailedIn
    <3> QED BY <1>3, <2>3, <3>1, FailedCount
  <2>5. RebTyped'
    BY <1>1, <1>2, <2>1, <2>2 DEF RebInv, RebTyped, FiringState
  <2>6. LedgerCovers'
    <3> SUFFICES ASSUME NEW c \in Bucket
                 PROVE  sent'[c] + Cardinality(FailedIn(c)') <= fired'[c] + lent'[c]
      BY DEF LedgerCovers
    <3>1. sent[c] + Cardinality(FailedIn(c)) <= fired[c] + lent[c]
      BY DEF RebInv, LedgerCovers
    <3> QED BY <1>2, <1>3, <2>1, <2>3, <2>4, <3>1 DEF RebInv, RebTyped
  <2>7. SentWithinCap'
    BY <1>2, <2>1 DEF RebInv, RebTyped, SentWithinCap
  <2> QED BY <2>5, <2>6, <2>7 DEF RebInv
<1> QED BY <1>4, <1>5

\* The slot is given back to its own bucket by a failure that freed it, or lent.
LEMMA DecrementKeeps ==
  ASSUME RebInv, NEW f \in Firings, NEW ok \in BOOLEAN, DecrementOnFailure(f, ok)
  PROVE  RebInv'
<1>1. PICK own \in Bucket, taken \in BOOLEAN :
        firing[f] = [pc |-> "failed", b |-> own, taken |-> taken]
  BY DEF DecrementOnFailure, RebInv, RebTyped, FiringState, Quiet
<1>2. PICK b \in Bucket : b = <<own[1], day>>
  BY DEF RebInv, RebTyped, Bucket
<1> DEFINE hit == ok /\ fired[b] > 0
           unfreed == b # own \/ taken
<1>a. /\ UNCHANGED <<day, sub, sent, limit>>
      /\ firing' = [firing EXCEPT ![f] = Quiet]
      /\ fired' = IF hit THEN [fired EXCEPT ![b] = @ - 1] ELSE fired
      /\ lent' = IF hit /\ unfreed THEN [lent EXCEPT ![b] = @ + 1] ELSE lent
  BY <1>1, <1>2 DEF DecrementOnFailure
<1>3. RebTyped'
  BY <1>1, <1>a DEF RebInv, RebTyped, FiringState
<1> DEFINE freed(c) == c = own /\ ~taken
<1>4. /\ ~taken => f \in FailedIn(own)
      /\ \A c \in Bucket : FailedIn(c)' = IF freed(c) THEN FailedIn(c) \ {f} ELSE FailedIn(c)
  BY <1>1, <1>a DEF FailedIn, RebInv, RebTyped, Quiet
<1>5. \A c \in Bucket :
        /\ Cardinality(FailedIn(c)) \in Nat
        /\ Cardinality(FailedIn(c)') = Cardinality(FailedIn(c)) - IF freed(c) THEN 1 ELSE 0
  <2> SUFFICES ASSUME NEW c \in Bucket
               PROVE  /\ Cardinality(FailedIn(c)) \in Nat
                      /\ Cardinality(FailedIn(c)') = Cardinality(FailedIn(c)) - IF freed(c) THEN 1 ELSE 0
    OBVIOUS
  <2>1. FailedIn(c) \in SUBSET Firings
    BY DEF FailedIn
  <2> QED BY <1>4, <2>1, FailedCount
<1>6. LedgerCovers'
  <2> SUFFICES ASSUME NEW c \in Bucket
               PROVE  sent'[c] + Cardinality(FailedIn(c)') <= fired'[c] + lent'[c]
    BY DEF LedgerCovers
  <2>1. sent[c] + Cardinality(FailedIn(c)) <= fired[c] + lent[c]
    BY DEF RebInv, LedgerCovers
  <2>2. Cardinality(FailedIn(c)') <= Cardinality(FailedIn(c)) /\ Cardinality(FailedIn(c)') \in Int
    BY <1>4, <1>5
  <2>3. CASE ~hit
    BY <1>a, <1>5, <2>1, <2>2, <2>3 DEF RebInv, RebTyped
  <2>4. CASE hit /\ unfreed
    BY <1>a, <1>5, <2>1, <2>2, <2>4 DEF RebInv, RebTyped
  <2>5. CASE hit /\ ~unfreed
    BY <1>a, <1>4, <1>5, <2>1, <2>2, <2>5 DEF RebInv, RebTyped
  <2> QED BY <2>3, <2>4, <2>5
<1>7. SentWithinCap'
  BY <1>a DEF RebInv, RebTyped, SentWithinCap
<1> QED BY <1>3, <1>6, <1>7 DEF RebInv

\* Trigger, emission, decrement, edits of the cap and the midnight that falls between
\* them never let a subscription send more than the highest daily cap in force,
\* beyond the slots given back that no failure of the day had freed: those of an
\* earlier day, and those of events the endpoint took and answered with an error.
THEOREM CapHolds == RebSpec => []SentWithinCap
<1>1. ASSUME RebInv, [RebNext]_rebVars PROVE RebInv'
  <2>1. CASE UNCHANGED rebVars
    <3>1. \A b \in Bucket : FailedIn(b)' = FailedIn(b)
      BY <2>1 DEF FailedIn, rebVars
    <3> QED BY <1>1, <2>1, <3>1 DEF rebVars, RebInv, RebTyped, LedgerCovers, SentWithinCap
  <2> QED BY <1>1, <2>1, ClockKeeps, ReadKeeps, TriggerKeeps, EmitKeeps, DecrementKeeps DEF RebNext
<1>2. RebInv => SentWithinCap
  BY DEF RebInv
<1> QED BY <1>1, <1>2, RebInvInit, PTL DEF RebSpec

----------------------------------------------------------------------------
(* Token scopes *)

\* A scope opens nothing its request did not ask for.
AsksToOpen(ask, r) == ask.repository \in UNION {{rs, Docker(rs)} : rs \in {Full(r), Wildcard}}
AsksFor(ask, action) == action \in ask.actions \/ (action = "pull" /\ "*" \in ask.actions)
WithinAsk(s, ask) ==
    /\ \A a \in s.actions : AsksFor(ask, a)
    /\ \A r \in Repos : s.repository \in {Full(r), Wildcard} => AsksToOpen(ask, r)

\* The scopes of the token in use, and every operation accepted with it, stay
\* within what its request asked for.
TokenInv ==
    token # NoToken =>
        /\ \A s \in token.scopes : WithinAsk(s, token.ask)
        /\ token.role # AdminRole => \A op \in accepted :
              AsksFor(token.ask, op[2]) /\ AsksToOpen(token.ask, op[1])

\* A new token has opened nothing yet.
LEMMA SignKeeps ==
  ASSUME NEW role, NEW ask, NEW scopes, NEW ttl,
         Sign(role, ask, scopes, ttl), \A s \in scopes : WithinAsk(s, ask)
  PROVE  TokenInv'
<1>1. token'.scopes = scopes /\ token'.ask = ask /\ accepted' = {}
  BY DEF Sign
<1> QED BY <1>1 DEF TokenInv

\* Every endpoint that signs a token grants a subset of what was asked.
LEMMA IssueKeeps ==
  ASSUME NEW role \in Roles, NEW acts \in SUBSET Actions,
         \/ LoginToken(role) \/ CiTokenExchange(role, acts) \/ GithubActionsToken(role, acts)
         \/ \E rs \in {Full(r) : r \in Repos} \cup {Wildcard, Empty} : PostTokenScope(role, rs, acts)
  PROVE  TokenInv'
<1>1. Granted(role, acts) \subseteq acts
  BY DEF Granted
<1>2. \A rs : WithinAsk([repository |-> rs, actions |-> Granted(role, acts)],
                        [repository |-> rs, actions |-> acts])
  BY <1>1 DEF WithinAsk, AsksFor, AsksToOpen
<1>3. CASE LoginToken(role)
  BY <1>3, SignKeeps DEF LoginToken
<1>4. CASE CiTokenExchange(role, acts) \/ GithubActionsToken(role, acts)
  BY <1>2, <1>4, SignKeeps DEF CiTokenExchange, GithubActionsToken
<1>5. ASSUME NEW rs, PostTokenScope(role, rs, acts) PROVE TokenInv'
  BY <1>2, <1>5, SignKeeps DEF PostTokenScope
<1> QED BY <1>3, <1>4, <1>5

\* The docker endpoint keeps what follows the project, and grants what it parsed.
LEMMA DockerKeeps ==
  ASSUME NEW role \in Roles, NEW rest \in Rests, NEW acts, GetToken(role, rest, acts)
  PROVE  TokenInv'
<1> DEFINE read == (acts \ {"manage", "*"}) \cup (IF "*" \in acts THEN {"pull"} ELSE {})
           scope == [repository |-> rest, actions |-> Granted(role, read)]
           ask == [repository |-> Docker(rest), actions |-> acts]
<1>1. \A a \in Granted(role, read) : AsksFor(ask, a)
  BY DEF Granted, AsksFor
<1>2. \A r \in Repos : rest \in {Full(r), Wildcard} => AsksToOpen(ask, r)
  BY DEF AsksToOpen
<1>3. WithinAsk(scope, ask)
  BY <1>1, <1>2 DEF WithinAsk
<1>4. [ParseDockerScope(rest, acts) EXCEPT !.actions = Granted(role, @)] = scope
  BY DEF ParseDockerScope
<1>5. Sign(role, ask, {scope}, TokenTtl)
  BY <1>4 DEF GetToken
<1> HIDE DEF scope, ask
<1> QED BY <1>3, <1>5, SignKeeps

\* An exchange copies the scopes; a request is accepted by one of them.
LEMMA UseKeeps ==
  ASSUME TokenInv,
         \/ CredentialExchange \/ TokenTick
         \/ \E repo \in Repos, action \in Actions : Operate(repo, action)
  PROVE  TokenInv'
<1>1. CASE CredentialExchange \/ TokenTick
  <2>1. token' = NoToken \/ /\ token # NoToken /\ accepted' = accepted
                            /\ \E n : token' = [token EXCEPT !.left = n]
    BY <1>1 DEF CredentialExchange, TokenTick
  <2>2. ASSUME NEW n, token' = [token EXCEPT !.left = n]
        PROVE  token'.scopes = token.scopes /\ token'.ask = token.ask /\ token'.role = token.role
    BY <2>2
  <2> QED BY <2>1, <2>2 DEF TokenInv
<1>2. ASSUME NEW repo \in Repos, NEW action \in Actions, Operate(repo, action) PROVE TokenInv'
  <2>1. token' = token /\ token # NoToken /\ accepted' = accepted \cup {<<repo, action>>}
    BY <1>2 DEF Operate, AuthenticatedClaims
  <2>2. token.role # AdminRole => AsksFor(token.ask, action) /\ AsksToOpen(token.ask, repo)
    BY <1>2, <2>1 DEF Operate, Authorize, TokenInv, WithinAsk
  <2> QED BY <2>1, <2>2 DEF TokenInv
<1> QED BY <1>1, <1>2

\* No endpoint signs, exchanges or accepts a token so that an operation outside the
\* scopes its first request asked for is let through, a docker scope asking for the
\* repository string that follows its project.
THEOREM TokensStayScoped == TokenSpec => []ScopedUse
<1>1. TokenInit => TokenInv
  BY DEF TokenInit, TokenInv
<1>2. ASSUME TokenInv, [TokenNext]_tvars PROVE TokenInv'
  <2>1. CASE UNCHANGED tvars
    BY <1>2, <2>1 DEF tvars, TokenInv
  <2>2. {} \in SUBSET Actions
    OBVIOUS
  <2> QED BY <1>2, <2>1, <2>2, IssueKeeps, DockerKeeps, UseKeeps DEF TokenNext
<1>3. TokenInv => ScopedUse
  BY DEF TokenInv, ScopedUse, AsksFor, AsksToOpen
<1> QED BY <1>1, <1>2, <1>3, PTL DEF TokenSpec

----------------------------------------------------------------------------
----------------------------------------------------------------------------
(* Provisioning *)

\* A request that will write the policies of its subject.
Works(rec) == rec.op \in {"apply", "revoke", "add", "remove"}

\* Where a provisioning request is.
ReqState ==
    {Free}
    \cup [op : {"apply", "revoke", "add", "remove"}, about : {{s} : s \in Subjects},
          gs : SUBSET Groups, clean : BOOLEAN]
    \cup [op : {"join"}, about : SUBSET Subjects, g : Groups, ms : SUBSET Subjects, clean : BOOLEAN]

ProvTyped ==
    /\ users \in [Subjects -> (SUBSET Groups) \cup {Absent}]
    /\ policies \in [Subjects -> SUBSET DOMAIN Mappings]
    /\ given \in [Subjects -> SUBSET Groups]
    /\ drift \in SUBSET Subjects
    /\ req \in [Requests -> ReqState]

\* The policies of a user in these groups.
Grants(gs) == {i \in DOMAIN Mappings : Mappings[i].tenant /\ Mappings[i].grants \cap gs # {}}
Due(u) == IF u = Absent THEN {} ELSE Grants(u)

\* Groups and policies of a subject, now and in requests, come from named groups.
NamedOnly ==
    /\ \A s \in Subjects : /\ users[s] # Absent => users[s] \subseteq given[s]
                           /\ policies[s] \subseteq Grants(given[s])
    /\ \A q \in Requests, s \in Subjects : Works(req[q]) /\ s \in req[q].about => req[q].gs \subseteq given[s]

\* A clean request is the only one at work on its subject, and will write
\* what the subject's record calls for.
CleanAlone ==
    \A q \in Requests, s \in Subjects : Works(req[q]) /\ req[q].clean /\ s \in req[q].about =>
        /\ \A r \in Requests \ {q} : ~(Works(req[r]) /\ s \in req[r].about)
        /\ users[s] = IF req[q].op = "revoke" THEN Absent ELSE req[q].gs

\* Off the drift list and with no request at work, the policies are due.
Settled ==
    \A s \in Subjects :
        s \notin drift /\ (\A q \in Requests : ~(Works(req[q]) /\ s \in req[q].about)) =>
            policies[s] = Due(users[s])

\* The inductive invariant of provisioning.
ProvInv == ProvTyped /\ NamedOnly /\ CleanAlone /\ Settled

\* More groups grant more policies.
LEMMA GrantsGrow ==
  ASSUME NEW A, NEW B, A \subseteq B
  PROVE  Grants(A) \subseteq Grants(B)
  BY DEF Grants

\* No user, no group and no policy at the start.
LEMMA ProvInvInit == ProvInit => ProvInv
<1> SUFFICES ASSUME ProvInit PROVE ProvInv
  OBVIOUS
<1>1. ProvTyped
  <2>1. req \in [Requests -> ReqState]
    BY DEF ProvInit, ReqState
  <2>2. policies \in [Subjects -> SUBSET DOMAIN Mappings]
    BY DEF ProvInit
  <2> QED BY <2>1, <2>2 DEF ProvInit, ProvTyped
<1>2. NamedOnly
  BY DEF ProvInit, NamedOnly, Works, Free
<1>3. CleanAlone
  BY DEF ProvInit, CleanAlone, Works, Free
<1>4. Settled
  BY DEF ProvInit, Settled, Due
<1> QED BY <1>1, <1>2, <1>3, <1>4 DEF ProvInv

\* Records change for the subjects of S, which are put on the drift list, and
\* the requests on them are no longer clean; no policy is written.
LEMMA DisturbKeeps ==
  ASSUME ProvInv, NEW S \in SUBSET Subjects,
         users' \in [Subjects -> (SUBSET Groups) \cup {Absent}],
         given' \in [Subjects -> SUBSET Groups],
         req' \in [Requests -> ReqState],
         \A s \in Subjects : /\ given[s] \subseteq given'[s]
                             /\ users'[s] # Absent => users'[s] \subseteq given'[s]
                             /\ s \notin S => users'[s] = users[s],
         \A q \in Requests :
            /\ Works(req'[q]) <=> Works(req[q])
            /\ Works(req[q]) => /\ req'[q].op = req[q].op /\ req'[q].about = req[q].about
                                /\ req'[q].gs = req[q].gs
                                /\ req'[q].clean => req[q].clean /\ req[q].about \cap S = {},
         policies' = policies, drift' = drift \cup S
  PROVE  ProvInv'
<1>1. ProvTyped'
  BY DEF ProvInv, ProvTyped
<1>2. NamedOnly'
  <2>1. \A s \in Subjects : Grants(given[s]) \subseteq Grants(given'[s])
    BY GrantsGrow
  <2> QED BY <2>1 DEF ProvInv, NamedOnly
<1>3. CleanAlone'
  BY DEF ProvInv, CleanAlone
<1>4. Settled'
  BY DEF ProvInv, Settled
<1> QED BY <1>1, <1>2, <1>3, <1>4 DEF ProvInv

\* A request writes the record of s and leaves the policies for later.
LEMMA BeginKeeps ==
  ASSUME ProvInv, NEW r \in Requests, NEW s \in Subjects, req[r] = Free,
         NEW op \in {"apply", "revoke", "add", "remove"}, NEW gs \in SUBSET Groups,
         NEW named \in SUBSET Groups,
         Begin(r, s, Pending(op, s, gs)),
         NEW u, u = IF op = "revoke" THEN Absent ELSE gs,
         users' = [users EXCEPT ![s] = u],
         given' = [given EXCEPT ![s] = @ \cup named],
         gs \subseteq given[s] \cup named,
         policies' = policies, drift' = drift
  PROVE  ProvInv'
<1> DEFINE rec == Pending(op, s, gs)
<1>1. /\ rec \in ReqState /\ Works(rec) /\ rec.about = {s} /\ rec.gs = gs /\ rec.op = op
      /\ rec.clean <=> InFlight(s) = {}
  BY DEF Pending, ReqState, Works
<1>2. \A q \in Requests : req'[q] = IF q = r THEN rec
                                    ELSE IF q \in InFlight(s) THEN [req[q] EXCEPT !.clean = FALSE]
                                    ELSE req[q]
  BY DEF Begin
<1> HIDE DEF rec
<1>3. \A q \in Requests \ {r} :
        /\ req'[q] \in ReqState
        /\ Works(req'[q]) <=> Works(req[q])
        /\ Works(req[q]) => /\ req'[q].op = req[q].op /\ req'[q].about = req[q].about
                            /\ req'[q].gs = req[q].gs
                            /\ req'[q].clean => req[q].clean /\ s \notin req[q].about
  <2> SUFFICES ASSUME NEW q \in Requests \ {r}
               PROVE  /\ req'[q] \in ReqState
                      /\ Works(req'[q]) <=> Works(req[q])
                      /\ Works(req[q]) => /\ req'[q].op = req[q].op /\ req'[q].about = req[q].about
                                          /\ req'[q].gs = req[q].gs
                                          /\ req'[q].clean => req[q].clean /\ s \notin req[q].about
    OBVIOUS
  <2>0. req[q] \in ReqState
    BY DEF ProvInv, ProvTyped
  <2>1. CASE q \in InFlight(s)
    <3>1. req'[q] = [req[q] EXCEPT !.clean = FALSE]
      BY <1>2, <2>1
    <3>2. req[q] # Free
      BY <2>1 DEF InFlight, Free
    <3> QED BY <2>0, <3>1, <3>2 DEF ReqState, Works
  <2>2. CASE q \notin InFlight(s)
    BY <1>2, <2>0, <2>2 DEF InFlight, Works
  <2> QED BY <2>1, <2>2
<1>4. ProvTyped'
  <2>1. req' \in [Requests -> ReqState]
    BY <1>1, <1>2, <1>3 DEF Begin
  <2>2. users' \in [Subjects -> (SUBSET Groups) \cup {Absent}]
    BY DEF ProvInv, ProvTyped
  <2>3. given' \in [Subjects -> SUBSET Groups]
    BY DEF ProvInv, ProvTyped
  <2> QED BY <2>1, <2>2, <2>3 DEF ProvInv, ProvTyped
<1>5. \A t \in Subjects : /\ given'[t] = IF t = s THEN given[t] \cup named ELSE given[t]
                          /\ users'[t] = IF t = s THEN u ELSE users[t]
  BY DEF ProvInv, ProvTyped
<1>6. NamedOnly'
  <2>0. ASSUME NEW t \in Subjects, users'[t] # Absent PROVE users'[t] \subseteq given'[t]
    BY <1>5, <2>0 DEF ProvInv, NamedOnly
  <2>1. \A t \in Subjects : Grants(given[t]) \subseteq Grants(given'[t])
    BY <1>5, GrantsGrow
  <2>2. ASSUME NEW q \in Requests, NEW t \in Subjects, Works(req'[q]), t \in req'[q].about
        PROVE  req'[q].gs \subseteq given'[t]
    <3>1. CASE q = r
      <4>1. req'[r].gs = gs /\ t = s
        BY <1>1, <1>2, <2>2, <3>1
      <4> QED BY <1>5, <3>1, <4>1
    <3>2. CASE q # r
      <4>1. req'[q].gs \subseteq given[t]
        BY <1>3, <2>2, <3>2 DEF ProvInv, NamedOnly
      <4> QED BY <1>5, <4>1
    <3> QED BY <3>1, <3>2
  <2> QED BY <2>0, <2>1, <2>2 DEF ProvInv, NamedOnly
<1>7. CleanAlone'
  <2> SUFFICES ASSUME NEW q \in Requests, NEW t \in Subjects,
                      Works(req'[q]), req'[q].clean, t \in req'[q].about
               PROVE  /\ \A p \in Requests \ {q} : ~(Works(req'[p]) /\ t \in req'[p].about)
                      /\ users'[t] = IF req'[q].op = "revoke" THEN Absent ELSE req'[q].gs
    BY DEF CleanAlone
  <2>1. CASE q = r
    <3>1. t = s /\ InFlight(s) = {}
      BY <1>1, <1>2, <2>1
    <3>2. \A p \in Requests \ {r} : ~(Works(req[p]) /\ s \in req[p].about)
      BY <3>1 DEF InFlight, Works
    <3>3. users'[t] = IF req'[q].op = "revoke" THEN Absent ELSE req'[q].gs
      BY <1>1, <1>2, <1>5, <2>1, <3>1
    <3> QED BY <1>3, <2>1, <3>1, <3>2, <3>3
  <2>2. CASE q # r
    <3>1. Works(req[q]) /\ req[q].clean /\ t \in req[q].about /\ t # s
      BY <1>3, <2>2
    <3>2. /\ \A p \in Requests \ {q} : ~(Works(req[p]) /\ t \in req[p].about)
          /\ users[t] = IF req[q].op = "revoke" THEN Absent ELSE req[q].gs
      BY <3>1 DEF ProvInv, CleanAlone
    <3>3. req'[r].about = {s}
      BY <1>1, <1>2
    <3>4. \A p \in Requests \ {q} : ~(Works(req'[p]) /\ t \in req'[p].about)
      BY <1>3, <3>1, <3>2, <3>3
    <3> QED BY <1>3, <1>5, <2>2, <3>1, <3>2, <3>4
  <2> QED BY <2>1, <2>2
<1>8. Settled'
  BY <1>1, <1>2, <1>3, <1>5 DEF ProvInv, Settled, Works, Free
<1> QED BY <1>4, <1>6, <1>7, <1>8 DEF ProvInv

\* A request writes the policies of its subject and ends.  One that was clean
\* settles the subject; a clean revocation also forgets what was named for it.
LEMMA FinishKeeps ==
  ASSUME ProvInv, NEW r \in Requests, NEW s \in Subjects,
         Works(req[r]), req[r].about = {s},
         Settle(r, s),
         policies' = [policies EXCEPT ![s] = IF req[r].op = "revoke" THEN {} ELSE Grants(req[r].gs)],
         given' = IF req[r].op = "revoke" /\ req[r].clean /\ users[s] = Absent
                  THEN [given EXCEPT ![s] = {}] ELSE given,
         users' = users
  PROVE  ProvInv'
<1> DEFINE forget == req[r].op = "revoke" /\ req[r].clean /\ users[s] = Absent
<1>0. /\ req[r] \in ReqState /\ Free \in ReqState /\ ~Works(Free)
      /\ req[r].clean \in BOOLEAN /\ req[r].gs \in SUBSET Groups
  BY DEF ProvInv, ProvTyped, ReqState, Works, Free
<1>1. \A q \in Requests : req'[q] = IF q = r THEN Free ELSE req[q]
  BY DEF Settle, ProvInv, ProvTyped
<1>2. drift' = IF req[r].clean THEN drift \ {s} ELSE drift \cup {s}
  BY DEF Settle
<1>3. \A t \in Subjects :
        /\ given'[t] = IF t = s /\ forget THEN {} ELSE given[t]
        /\ policies'[t] = IF t # s THEN policies[t]
                          ELSE IF req[r].op = "revoke" THEN {} ELSE Grants(req[r].gs)
  BY DEF ProvInv, ProvTyped
<1>4. ProvTyped'
  <2>1. req' \in [Requests -> ReqState]
    BY <1>0 DEF Settle, ProvInv, ProvTyped
  <2>2. policies' \in [Subjects -> SUBSET DOMAIN Mappings]
    BY DEF ProvInv, ProvTyped, Grants
  <2>3. given' \in [Subjects -> SUBSET Groups]
    BY DEF ProvInv, ProvTyped
  <2>4. drift' \in SUBSET Subjects
    BY <1>2 DEF ProvInv, ProvTyped
  <2> QED BY <2>1, <2>2, <2>3, <2>4 DEF ProvInv, ProvTyped
<1>5. forget => \A q \in Requests \ {r} : ~(Works(req[q]) /\ s \in req[q].about)
  BY DEF ProvInv, CleanAlone
<1>6. NamedOnly'
  <2>1. ASSUME NEW t \in Subjects, users[t] # Absent PROVE users[t] \subseteq given'[t]
    BY <1>3, <2>1 DEF ProvInv, NamedOnly
  <2>2. ASSUME NEW t \in Subjects PROVE policies'[t] \subseteq Grants(given'[t])
    <3>1. CASE t # s
      BY <1>3, <3>1 DEF ProvInv, NamedOnly
    <3>2. CASE t = s /\ req[r].op = "revoke"
      BY <1>3, <3>2
    <3>3. CASE t = s /\ req[r].op # "revoke"
      <4>1. req[r].gs \subseteq given[s]
        BY DEF ProvInv, NamedOnly
      <4> QED BY <1>3, <3>3, <4>1, GrantsGrow
    <3> QED BY <3>1, <3>2, <3>3
  <2>3. ASSUME NEW q \in Requests, NEW t \in Subjects, Works(req'[q]), t \in req'[q].about
        PROVE  req'[q].gs \subseteq given'[t]
    <3>1. q # r /\ req'[q] = req[q]
      BY <1>0, <1>1, <2>3
    <3>2. req[q].gs \subseteq given[t]
      BY <2>3, <3>1 DEF ProvInv, NamedOnly
    <3> QED BY <1>3, <1>5, <2>3, <3>1, <3>2
  <2> QED BY <2>1, <2>2, <2>3 DEF NamedOnly
<1>7. CleanAlone'
  BY <1>0, <1>1 DEF ProvInv, CleanAlone
<1>8. Settled'
  <2> SUFFICES ASSUME NEW t \in Subjects, t \notin drift',
                      \A q \in Requests : ~(Works(req'[q]) /\ t \in req'[q].about)
               PROVE  policies'[t] = Due(users[t])
    BY DEF Settled
  <2>1. CASE t = s
    <3>1. req[r].clean
      BY <1>2, <2>1
    <3>2. users[s] = IF req[r].op = "revoke" THEN Absent ELSE req[r].gs
      BY <3>1 DEF ProvInv, CleanAlone
    <3>3. req[r].gs # Absent
      BY <1>0, MappingsAssumption
    <3> QED BY <1>3, <2>1, <3>2, <3>3 DEF Due
  <2>2. CASE t # s
    <3>1. \A q \in Requests : ~(Works(req[q]) /\ t \in req[q].about)
      BY <1>1, <2>2
    <3> QED BY <1>2, <1>3, <2>2, <3>1 DEF ProvInv, Settled
  <2> QED BY <2>1, <2>2
<1> QED BY <1>4, <1>6, <1>7, <1>8 DEF ProvInv

\* The SCIM user endpoints.
LEMMA ScimUsersKeep ==
  ASSUME ProvInv, NEW r \in Requests, NEW s \in Subjects,
         \/ \E gs \in SUBSET Groups : ScimCreateUser(r, s, gs)
         \/ \E gs \in SUBSET Groups, isActive \in BOOLEAN : ScimReplaceUser(r, s, gs, isActive)
         \/ ScimPatchUser(r, s) \/ ScimDeleteUser(r, s)
  PROVE  ProvInv'
<1>1. given = [given EXCEPT ![s] = @ \cup {}]
  BY DEF ProvInv, ProvTyped
<1>2. ASSUME NEW gs \in SUBSET Groups, req[r] = Free,
             users' = [users EXCEPT ![s] = gs], Begin(r, s, Pending("apply", s, gs)), Names(s, gs),
             UNCHANGED <<policies, drift>>
      PROVE  ProvInv'
  <2>1. gs = IF "apply" = "revoke" THEN Absent ELSE gs
    OBVIOUS
  <2>2. given' = [given EXCEPT ![s] = @ \cup gs] /\ gs \subseteq given[s] \cup gs
    BY <1>2 DEF Names
  <2> QED BY <1>2, <2>1, <2>2, BeginKeeps
<1>3. ASSUME req[r] = Free, users' = [users EXCEPT ![s] = Absent], Begin(r, s, Pending("revoke", s, {})),
             UNCHANGED <<given, policies, drift>>
      PROVE  ProvInv'
  <2>1. PICK none \in SUBSET Groups : none = {}
    OBVIOUS
  <2>2. /\ given' = [given EXCEPT ![s] = @ \cup none] /\ none \subseteq given[s] \cup none
        /\ Begin(r, s, Pending("revoke", s, none))
    BY <1>1, <1>3, <2>1
  <2>3. PICK u : u = IF "revoke" = "revoke" THEN Absent ELSE none
    OBVIOUS
  <2>4. users' = [users EXCEPT ![s] = u]
    BY <1>3, <2>3
  <2> QED BY <1>3, <2>2, <2>3, <2>4, BeginKeeps
<1>4. ASSUME NEW gs \in SUBSET Groups, ScimCreateUser(r, s, gs) PROVE ProvInv'
  BY <1>2, <1>4 DEF ScimCreateUser
<1>5. ASSUME NEW gs \in SUBSET Groups, NEW isActive \in BOOLEAN, ScimReplaceUser(r, s, gs, isActive)
      PROVE  ProvInv'
  BY <1>2, <1>3, <1>5 DEF ScimReplaceUser
<1>6. ASSUME ScimPatchUser(r, s) \/ ScimDeleteUser(r, s) PROVE ProvInv'
  BY <1>3, <1>6 DEF ScimPatchUser, ScimDeleteUser
<1> QED BY <1>4, <1>5, <1>6

\* The steps that write the policies and end a request.
LEMMA FinishesKeep ==
  ASSUME ProvInv, NEW r \in Requests, FinishApply(r) \/ FinishRevoke(r) \/ FinishPatchGroup(r)
  PROVE  ProvInv'
<1>1. Works(req[r])
  BY DEF FinishApply, FinishRevoke, FinishPatchGroup, Works
<1>2. PICK s \in Subjects : req[r].about = {s}
  BY <1>1 DEF ProvInv, ProvTyped, ReqState, Works, Free
<1>3. CASE FinishApply(r) \/ FinishPatchGroup(r)
  <2>1. /\ req[r].op # "revoke" /\ Settle(r, s) /\ UNCHANGED <<users, given>>
        /\ policies' = [policies EXCEPT ![s] = Grants(req[r].gs)]
    BY <1>2, <1>3 DEF FinishApply, FinishPatchGroup, ApplyGroupPolicies, Grants
  <2> QED BY <1>1, <1>2, <2>1, FinishKeeps
<1>4. CASE FinishRevoke(r)
  BY <1>1, <1>2, <1>4, FinishKeeps DEF FinishRevoke
<1> QED BY <1>3, <1>4

\* Steps that write neither a user's record nor a policy.
LEMMA GroupOnlyKeeps ==
  ASSUME ProvInv, UNCHANGED <<users, policies, given, drift>>,
         req' \in [Requests -> ReqState],
         \A q \in Requests : req'[q] = req[q] \/ (~Works(req[q]) /\ ~Works(req'[q]))
  PROVE  ProvInv'
<1>1. drift' = drift \cup {} /\ {} \in SUBSET Subjects
  OBVIOUS
<1>2. \A s \in Subjects : given[s] \subseteq given'[s] /\ users'[s] = users[s]
                          /\ (users'[s] # Absent => users'[s] \subseteq given'[s])
  BY DEF ProvInv, NamedOnly
<1>3. \A q \in Requests :
        /\ Works(req'[q]) <=> Works(req[q])
        /\ Works(req[q]) => req'[q] = req[q]
  OBVIOUS
<1>4. /\ users' \in [Subjects -> (SUBSET Groups) \cup {Absent}]
      /\ given' \in [Subjects -> SUBSET Groups]
  BY DEF ProvInv, ProvTyped
<1> QED BY <1>1, <1>2, <1>3, <1>4, DisturbKeeps

\* The SCIM group endpoints that touch no policy.
LEMMA GroupsKeep ==
  ASSUME ProvInv,
         \/ \E g \in Groups, ms \in SUBSET Subjects : ScimReplaceMembers(g, ms)
         \/ \E r \in Requests : StoreGroup(r)
         \/ \E r \in Requests, g \in Groups, ms \in SUBSET Subjects : ScimCreateGroup(r, g, ms)
  PROVE  ProvInv'
<1>1. CASE \E g \in Groups, ms \in SUBSET Subjects : ScimReplaceMembers(g, ms)
  BY <1>1, GroupOnlyKeeps DEF ScimReplaceMembers, ProvInv, ProvTyped
<1>2. ASSUME NEW r \in Requests, StoreGroup(r) PROVE ProvInv'
  <2>1. ~Works(req[r]) /\ ~Works(Free) /\ Free \in ReqState
    BY <1>2 DEF StoreGroup, Works, Free, ReqState
  <2> QED BY <1>2, <2>1, GroupOnlyKeeps DEF StoreGroup, ProvInv, ProvTyped
<1>3. ASSUME NEW r \in Requests, NEW g \in Groups, NEW ms \in SUBSET Subjects, ScimCreateGroup(r, g, ms)
      PROVE  ProvInv'
  <2> DEFINE rec == [op |-> "join", about |-> ms, g |-> g, ms |-> ms, clean |-> TRUE]
  <2>1. ~Works(req[r]) /\ ~Works(rec) /\ rec \in ReqState
    BY <1>3 DEF ScimCreateGroup, Works, Free, ReqState
  <2>2. req' = [req EXCEPT ![r] = rec] /\ UNCHANGED <<users, policies, given, drift>>
    BY <1>3 DEF ScimCreateGroup
  <2> HIDE DEF rec
  <2> QED BY <2>1, <2>2, GroupOnlyKeeps DEF ProvInv, ProvTyped
<1> QED BY <1>1, <1>2, <1>3

\* The record of a request whose clean flag is dropped.
LEMMA Unmarked ==
  ASSUME NEW rec \in ReqState, rec # Free
  PROVE  LET new == [rec EXCEPT !.clean = FALSE]
         IN  /\ new \in ReqState /\ ~new.clean
             /\ Works(new) <=> Works(rec)
             /\ new.op = rec.op /\ new.about = rec.about
             /\ Works(rec) => new.gs = rec.gs
  BY DEF ReqState, Works

\* A member leaves or is listed by a group.
LEMMA MembersKeep ==
  ASSUME ProvInv, NEW r \in Requests, NEW g \in Groups, NEW s \in Subjects,
         ScimAddMember(r, g, s) \/ ScimRemoveMember(r, g, s)
  PROVE  ProvInv'
<1>1. users[s] \in SUBSET Groups \/ users[s] = Absent
  BY DEF ProvInv, ProvTyped
<1>2. CASE ScimAddMember(r, g, s) /\ users[s] # Absent /\ g \notin users[s]
  <2>1. PICK gs \in SUBSET Groups : gs = users[s] \cup {g}
    BY <1>1, <1>2
  <2>2. /\ req[r] = Free /\ users' = [users EXCEPT ![s] = gs]
        /\ Begin(r, s, Pending("add", s, gs))
        /\ given' = [given EXCEPT ![s] = @ \cup {g}] /\ UNCHANGED <<policies, drift>>
    BY <1>2, <2>1 DEF ScimAddMember, Names
  <2>3. gs \subseteq given[s] \cup {g} /\ {g} \in SUBSET Groups
    BY <1>2, <2>1 DEF ProvInv, NamedOnly
  <2>4. gs = IF "add" = "revoke" THEN Absent ELSE gs
    OBVIOUS
  <2> QED BY <2>2, <2>3, <2>4, BeginKeeps
<1>3. CASE ScimRemoveMember(r, g, s) /\ users[s] # Absent
  <2>1. PICK gs \in SUBSET Groups : gs = users[s] \ {g}
    BY <1>1, <1>3
  <2>2. /\ req[r] = Free /\ users' = [users EXCEPT ![s] = gs]
        /\ Begin(r, s, Pending("remove", s, gs)) /\ UNCHANGED <<given, policies, drift>>
    BY <1>3, <2>1 DEF ScimRemoveMember
  <2>3. PICK none \in SUBSET Groups : none = {}
    OBVIOUS
  <2>4. gs \subseteq given[s] \cup none
    BY <1>3, <2>1 DEF ProvInv, NamedOnly
  <2>5. given' = [given EXCEPT ![s] = @ \cup none]
    BY <2>2, <2>3 DEF ProvInv, ProvTyped
  <2>6. gs = IF "remove" = "revoke" THEN Absent ELSE gs
    OBVIOUS
  <2> QED BY <2>2, <2>4, <2>5, <2>6, BeginKeeps
<1>4. CASE UNCHANGED <<users, req, given, policies, drift>>
  BY <1>4, GroupOnlyKeeps DEF ProvInv, ProvTyped
<1>5. \/ ScimAddMember(r, g, s) /\ users[s] # Absent /\ g \notin users[s]
      \/ ScimRemoveMember(r, g, s) /\ users[s] # Absent
      \/ UNCHANGED <<users, req, given, policies, drift>>
  BY DEF ScimAddMember, ScimRemoveMember
<1> QED BY <1>2, <1>3, <1>4, <1>5

\* A member joins under a lock of its own, behind the requests on it.
LEMMA JoinKeeps ==
  ASSUME ProvInv, NEW r \in Requests, JoinMember(r)
  PROVE  ProvInv'
<1>1. req[r].op = "join" /\ ~Works(req[r]) /\ req[r] \in ReqState
      /\ req[r].about \in SUBSET Subjects /\ req[r].g \in Groups
  BY DEF JoinMember, ProvInv, ProvTyped, ReqState, Works, Free
<1>2. PICK s \in req[r].about :
        LET g == req[r].g
            joins == users[s] # Absent /\ g \notin users[s]
            marked == [q \in Requests |-> IF joins /\ q # r /\ q \in InFlight(s)
                                          THEN [req[q] EXCEPT !.clean = FALSE] ELSE req[q]]
        IN  /\ users' = IF joins THEN [users EXCEPT ![s] = @ \cup {g}] ELSE users
            /\ given' = IF joins THEN [given EXCEPT ![s] = @ \cup {g}] ELSE given
            /\ drift' = IF joins THEN drift \cup {s} ELSE drift
            /\ req' = [marked EXCEPT ![r].about = @ \ {s}]
  BY DEF JoinMember
<1> DEFINE g == req[r].g
           joins == users[s] # Absent /\ g \notin users[s]
<1>3. s \in Subjects
  BY <1>1
<1>4. PICK S \in SUBSET Subjects : S = IF joins THEN {s} ELSE {}
  BY <1>3
<1>5. drift' = drift \cup S /\ policies' = policies
  BY <1>2, <1>4 DEF JoinMember
<1>6. \A q \in Requests \ {r} : req'[q] = IF joins /\ q \in InFlight(s)
                                         THEN [req[q] EXCEPT !.clean = FALSE] ELSE req[q]
  BY <1>2
<1>7. req'[r] = [req[r] EXCEPT !.about = @ \ {s}]
  BY <1>2
<1>8. req'[r] \in ReqState /\ ~Works(req'[r])
  BY <1>1, <1>7 DEF ReqState, Works, Free
<1>9. ASSUME NEW q \in Requests
      PROVE  /\ req'[q] \in ReqState
             /\ Works(req'[q]) <=> Works(req[q])
             /\ Works(req[q]) => /\ req'[q].op = req[q].op /\ req'[q].about = req[q].about
                                 /\ req'[q].gs = req[q].gs
                                 /\ req'[q].clean => req[q].clean /\ req[q].about \cap S = {}
  <2>1. CASE q = r
    BY <1>1, <1>8, <2>1
  <2>2. CASE q # r /\ joins /\ q \in InFlight(s)
    <3>1. req[q] \in ReqState /\ req[q] # Free
      BY <2>2 DEF InFlight, Free, ProvInv, ProvTyped
    <3>2. req'[q] = [req[q] EXCEPT !.clean = FALSE]
      BY <1>6, <2>2
    <3> QED BY <3>1, <3>2, Unmarked
  <2>3. CASE q # r /\ ~(joins /\ q \in InFlight(s))
    <3>1. req'[q] = req[q] /\ req[q] \in ReqState
      BY <1>6, <2>3 DEF ProvInv, ProvTyped
    <3>2. Works(req[q]) => req[q].about \cap S = {}
      BY <1>4, <2>3 DEF InFlight, Works
    <3> QED BY <3>1, <3>2
  <2> QED BY <2>1, <2>2, <2>3
<1>10. req' \in [Requests -> ReqState]
  <2>1. DOMAIN req' = Requests /\ req' = [q \in Requests |-> req'[q]]
    BY <1>2
  <2> QED BY <1>9, <2>1
<1>11. /\ users' \in [Subjects -> (SUBSET Groups) \cup {Absent}]
       /\ given' \in [Subjects -> SUBSET Groups]
  <2>1. users[s] # Absent => users[s] \cup {g} \in SUBSET Groups
    BY <1>1, <1>3 DEF ProvInv, ProvTyped
  <2> QED BY <1>1, <1>2, <1>3, <2>1 DEF ProvInv, ProvTyped
<1>12. \A t \in Subjects : /\ given'[t] = IF t = s /\ joins THEN given[t] \cup {g} ELSE given[t]
                           /\ users'[t] = IF t = s /\ joins THEN users[t] \cup {g} ELSE users[t]
  BY <1>2 DEF ProvInv, ProvTyped
<1>13. \A t \in Subjects : /\ given[t] \subseteq given'[t]
                           /\ users'[t] # Absent => users'[t] \subseteq given'[t]
                           /\ t \notin S => users'[t] = users[t]
  BY <1>4, <1>12 DEF ProvInv, NamedOnly
<1> HIDE DEF g, joins
<1> QED BY <1>5, <1>9, <1>10, <1>11, <1>13, DisturbKeeps

\* What Disturb does to the requests.
LEMMA DisturbMarks ==
  ASSUME ProvInv, NEW S \in SUBSET Subjects, Disturb(S)
  PROVE  /\ drift' = drift \cup S /\ req' \in [Requests -> ReqState]
         /\ \A q \in Requests :
              /\ Works(req'[q]) <=> Works(req[q])
              /\ Works(req[q]) => /\ req'[q].op = req[q].op /\ req'[q].about = req[q].about
                                  /\ req'[q].gs = req[q].gs
                                  /\ req'[q].clean => req[q].clean /\ req[q].about \cap S = {}
<1>1. ASSUME NEW q \in Requests
      PROVE  /\ req'[q] \in ReqState
             /\ Works(req'[q]) <=> Works(req[q])
             /\ Works(req[q]) => /\ req'[q].op = req[q].op /\ req'[q].about = req[q].about
                                 /\ req'[q].gs = req[q].gs
                                 /\ req'[q].clean => req[q].clean /\ req[q].about \cap S = {}
  <2>0. req[q] \in ReqState
    BY DEF ProvInv, ProvTyped
  <2>1. CASE req[q].op # "free" /\ req[q].about \cap S # {}
    <3>1. req'[q] = [req[q] EXCEPT !.clean = FALSE] /\ req[q] # Free
      BY <2>1 DEF Disturb, Free
    <3> QED BY <2>0, <3>1, Unmarked
  <2>2. CASE ~(req[q].op # "free" /\ req[q].about \cap S # {})
    <3>1. req'[q] = req[q]
      BY <2>2 DEF Disturb
    <3> QED BY <2>0, <2>2, <3>1 DEF Works
  <2> QED BY <2>1, <2>2
<1>2. drift' = drift \cup S /\ req' = [q \in Requests |-> req'[q]]
  BY DEF Disturb
<1> QED BY <1>1, <1>2

\* A login replaces the groups of its user.
LEMMA LoginsKeep ==
  ASSUME ProvInv, NEW s \in Subjects, PostToken(s) \/ \E gs \in SUBSET Groups : OidcLogin(s, gs)
  PROVE  ProvInv'
<1>1. PICK gs \in SUBSET Groups : ProvisionUser(s, gs) /\ UNCHANGED policies
  BY DEF PostToken, OidcLogin
<1>2. CASE users[s] # Absent \/ AutoProvision
  <2>1. PICK S \in SUBSET Subjects : S = IF users[s] = gs THEN {} ELSE {s}
    OBVIOUS
  <2>2. /\ Disturb(S) /\ users' = [users EXCEPT ![s] = gs]
        /\ given' = [given EXCEPT ![s] = @ \cup gs]
    BY <1>1, <1>2, <2>1 DEF ProvisionUser, Names
  <2>3. /\ users' \in [Subjects -> (SUBSET Groups) \cup {Absent}]
        /\ given' \in [Subjects -> SUBSET Groups]
    BY <2>2 DEF ProvInv, ProvTyped
  <2>4. \A t \in Subjects : /\ given'[t] = IF t = s THEN given[t] \cup gs ELSE given[t]
                            /\ users'[t] = IF t = s THEN gs ELSE users[t]
    BY <2>2 DEF ProvInv, ProvTyped
  <2>5. \A t \in Subjects : /\ given[t] \subseteq given'[t]
                            /\ users'[t] # Absent => users'[t] \subseteq given'[t]
                            /\ t \notin S => users'[t] = users[t]
    BY <2>1, <2>4 DEF ProvInv, NamedOnly
  <2> QED BY <1>1, <2>2, <2>3, <2>5, DisturbMarks, DisturbKeeps
<1>3. CASE ~(users[s] # Absent \/ AutoProvision)
  BY <1>1, <1>3, GroupOnlyKeeps DEF ProvisionUser, ProvInv, ProvTyped
<1> QED BY <1>2, <1>3

\* A group is deleted with all its memberships.
LEMMA DeleteGroupKeeps ==
  ASSUME ProvInv, NEW g \in Groups, ScimDeleteGroup(g)
  PROVE  ProvInv'
<1>1. PICK S \in SUBSET Subjects : S = {s \in Subjects : users[s] # Absent /\ g \in users[s]}
  OBVIOUS
<1>2. /\ Disturb(S) /\ UNCHANGED <<policies, given>>
      /\ users' = [s \in Subjects |-> IF users[s] = Absent THEN Absent ELSE users[s] \ {g}]
  BY <1>1 DEF ScimDeleteGroup
<1>3. users' \in [Subjects -> (SUBSET Groups) \cup {Absent}]
  <2>1. \A s \in Subjects : users[s] = Absent \/ users[s] \ {g} \in SUBSET Groups
    BY DEF ProvInv, ProvTyped
  <2> QED BY <1>2, <2>1
<1>4. \A t \in Subjects : /\ given[t] \subseteq given'[t]
                          /\ users'[t] # Absent => users'[t] \subseteq given'[t]
                          /\ t \notin S => users'[t] = users[t]
  <2> SUFFICES ASSUME NEW t \in Subjects
               PROVE  /\ users'[t] # Absent => users'[t] \subseteq given[t]
                      /\ t \notin S => users'[t] = users[t]
    BY <1>2
  <2>1. CASE users[t] = Absent
    BY <1>2, <2>1
  <2>2. CASE users[t] # Absent
    <3>1. users'[t] = users[t] \ {g} /\ users[t] \subseteq given[t]
      BY <1>2, <2>2 DEF ProvInv, NamedOnly
    <3>2. t \notin S => users[t] \ {g} = users[t]
      BY <1>1, <2>2
    <3> QED BY <3>1, <3>2
  <2> QED BY <2>1, <2>2
<1>5. given' \in [Subjects -> SUBSET Groups]
  BY <1>2 DEF ProvInv, ProvTyped
<1> QED BY <1>2, <1>3, <1>4, <1>5, DisturbMarks, DisturbKeeps

\* Every step keeps the inductive invariant.
LEMMA ProvInvNext ==
  ASSUME ProvInv, [ProvNext]_pvars
  PROVE  ProvInv'
<1>1. CASE UNCHANGED pvars
  BY <1>1, GroupOnlyKeeps DEF pvars, ProvInv, ProvTyped
<1> QED BY <1>1, ScimUsersKeep, MembersKeep, FinishesKeep, JoinKeeps, GroupsKeep,
           DeleteGroupKeeps, LoginsKeep DEF ProvNext

\* The inductive invariant of provisioning holds always.
LEMMA ProvInvariant == ProvSpec => []ProvInv
  BY ProvInvInit, ProvInvNext, PTL DEF ProvSpec

\* When no request is at work on a user and none of its calls failed or overlapped,
\* the policies of the user are those its groups call for.
THEOREM PoliciesFollowGroups == ProvSpec => []PoliciesMatchGroups
<1>1. ProvInv => PoliciesMatchGroups
  BY DEF ProvInv, Settled, Due, Grants, PoliciesMatchGroups, InFlight, Works
<1> QED BY <1>1, ProvInvariant, PTL

\* Min and Max pick a member of any set of mappings, HigherPrivilegeRole the
\* role of one.
LEMMA PicksMapping ==
  ASSUME NEW T \in SUBSET DOMAIN Mappings, T # {}
  PROVE  Min(T) \in T /\ Max(T) \in T
<1>1. PICK n \in Nat : DOMAIN Mappings = 1..n
  BY MappingsAssumption
<1>2. T \in SUBSET Nat /\ T \in SUBSET (0..n)
  BY <1>1
<1>3. \E x \in T : \A y \in T : x <= y
  BY <1>2, LeastNatural
<1>4. \E x \in T : \A y \in T : x >= y
  BY <1>1, <1>2, GreatestBelow
<1> QED BY <1>3, <1>4 DEF Min, Max

\* The role picked for a set of groups is the default or that of a matching mapping.
LEMMA PicksRole ==
  ASSUME NEW T \in SUBSET DOMAIN Mappings, T # {}
  PROVE  \E i \in T : HigherPrivilegeRole({Mappings[j].role : j \in T}) = Mappings[i].role
<1> DEFINE R == {Mappings[j].role : j \in T}
<1>1. R \in SUBSET (0..2) /\ R # {}
  <2>1. \A j \in T : Mappings[j].role \in 0..2
    BY MappingsAssumption DEF Reader, Maintainer, Admin
  <2> QED BY <2>1
<1> HIDE DEF R
<1>2. \E x \in R : \A y \in R : x >= y
  BY <1>1, GreatestBelow
<1>3. Max(R) \in R
  BY <1>2 DEF Max
<1> QED BY <1>3 DEF HigherPrivilegeRole, R

\* Whatever order requests take their locks in, a role that resolve_role gives is
\* Reader or that of a mapping for a group named since the last offboarding.
THEOREM RolesJustified == ProvSpec => []RoleIsJustified
<1>1. ASSUME ProvInv PROVE RoleIsJustified
  <2> SUFFICES ASSUME NEW s \in Subjects, NEW inProject \in BOOLEAN,
                      ResolveRole(s, inProject) # Reader
               PROVE  \E i \in DOMAIN Mappings :
                        /\ Mappings[i].role = ResolveRole(s, inProject)
                        /\ (Mappings[i].grants \cup Mappings[i].matches) \cap given[s] # {}
    BY DEF RoleIsJustified
  <2> DEFINE scoped == {i \in policies[s] : inProject /\ Scoped(i)}
             wide == {i \in policies[s] : ~Scoped(i)}
             hit == {i \in DOMAIN Mappings : users[s] # Absent /\ Mappings[i].matches \cap users[s] # {}}
  <2>1. policies[s] \in SUBSET DOMAIN Mappings
    BY <1>1 DEF ProvInv, ProvTyped
  <2>2. \A i \in policies[s] : Mappings[i].grants \cap given[s] # {}
    BY <1>1 DEF ProvInv, NamedOnly, Grants
  <2>3. CASE scoped # {}
    <3>1. ResolveRole(s, inProject) = Mappings[Min(scoped)].role
      BY <2>3 DEF ResolveRole
    <3>2. Min(scoped) \in scoped
      BY <2>1, <2>3, PicksMapping
    <3> QED BY <2>1, <2>2, <3>1, <3>2
  <2>4. CASE scoped = {} /\ wide # {}
    <3>1. ResolveRole(s, inProject) = Mappings[Max(wide)].role
      BY <2>4 DEF ResolveRole
    <3>2. Max(wide) \in wide
      BY <2>1, <2>4, PicksMapping
    <3> QED BY <2>1, <2>2, <3>1, <3>2
  <2>5. CASE scoped = {} /\ wide = {}
    <3>1. ResolveRoleFromGroups(s) = IF hit = {} THEN Absent
                                     ELSE HigherPrivilegeRole({Mappings[i].role : i \in hit})
      BY DEF ResolveRoleFromGroups
    <3>2. ResolveRoleFromGroups(s) # Absent /\ ResolveRole(s, inProject) = ResolveRoleFromGroups(s)
      BY <2>5 DEF ResolveRole
    <3>3. hit # {} /\ hit \in SUBSET DOMAIN Mappings
      BY <3>1, <3>2
    <3>4. PICK i \in hit : HigherPrivilegeRole({Mappings[j].role : j \in hit}) = Mappings[i].role
      <4> HIDE DEF hit
      <4> QED BY <3>3, PicksRole
    <3>5. Mappings[i].matches \cap given[s] # {}
      BY <1>1, <3>4 DEF ProvInv, NamedOnly
    <3> QED BY <3>1, <3>2, <3>3, <3>4, <3>5
  <2> QED BY <2>3, <2>4, <2>5
<1> QED BY <1>1, ProvInvariant, PTL

----------------------------------------------------------------------------
(* The audit chain.  Both properties rest on where the ids come from: a row   *)
(* of the log has an id that was drawn, and an open append holds one that was *)
(* drawn for it.                                                              *)

\* Ids are drawn from the sequence before they are used; the memory log has no
\* open transaction.
LogTyped ==
    /\ seq \in Nat /\ Ids \in SUBSET (1..seq)
    /\ tx \in [Tasks -> [pc : {"idle", "waiting", "locked", "inserted"}, tip : Nat, id : Nat]]
    /\ \A t \in Tasks : tx[t].pc = "inserted" => tx[t].id \in 1..seq
    /\ backend = "memory" => \A t \in Tasks : tx[t] = IdleTx

\* No append committed inside another's window: every open append still sees
\* the tip it selected, below the id it drew, and all rows are linked.
Chained ==
    /\ \A i \in Ids : log[i].prev = Before(i)
    /\ \A t \in Tasks : tx[t].pc # "idle" => tx[t].tip = Newest(Ids)
    /\ \A t \in Tasks : tx[t].pc = "inserted" => \A i \in Ids : i < tx[t].id

\* The inductive invariant of the chain.
AuditInv == LogTyped /\ overlap \in BOOLEAN /\ (~overlap => Chained)

\* Newest is the greatest id of a set, 0 for the empty one.
LEMMA NewestOf ==
  ASSUME NEW n \in Nat, NEW S \in SUBSET (1..n)
  PROVE  /\ Newest(S) \in Nat
         /\ S # {} => Newest(S) \in S
         /\ \A i \in S : i <= Newest(S)
<1>1. CASE S = {}
  BY <1>1 DEF Newest
<1>2. CASE S # {}
  <2>1. \E i \in S : \A j \in S : i >= j
    <3>1. S \in SUBSET (0..n)
      OBVIOUS
    <3> QED BY <1>2, <3>1, GreatestBelow
  <2>2. \E i \in S : \A j \in S : j <= i
    BY <2>1
  <2>3. Newest(S) = CHOOSE i \in S : \A j \in S : j <= i
    BY <1>2 DEF Newest
  <2>4. Newest(S) \in S /\ \A j \in S : j <= Newest(S)
    BY <2>2, <2>3
  <2>5. \A j \in S : j \in Nat
    OBVIOUS
  <2> QED BY <1>2, <2>4, <2>5
<1> QED BY <1>1, <1>2

\* A row above all others is linked to the tip and unlinks none.
LEMMA RowOnTop ==
  ASSUME NEW id \in Nat, NEW at, NEW n \in Nat, Ids \in SUBSET (1..n), \A i \in Ids : i < id,
         \A i \in Ids : log[i].prev = Before(i),
         log' = WithRow(id, Newest(Ids), at)
  PROVE  \A i \in Ids' : log'[i].prev = Before(i)'
<1>1. Ids' = Ids \cup {id} /\ id \notin Ids
  BY DEF Ids, WithRow
<1> SUFFICES ASSUME NEW i \in Ids' PROVE log'[i].prev = Newest({j \in Ids' : j < i})
  BY DEF Before
<1>2. CASE i = id
  <2>1. {j \in Ids' : j < i} = Ids
    <3>1. ~(id < id)
      OBVIOUS
    <3> QED BY <1>1, <1>2, <3>1
  <2>2. log'[i].prev = Newest(Ids)
    BY <1>1, <1>2 DEF WithRow
  <2> QED BY <2>1, <2>2
<1>3. CASE i # id
  <2>1. i \in Ids /\ log'[i] = log[i]
    BY <1>1, <1>3 DEF WithRow
  <2>2. {j \in Ids' : j < i} = {j \in Ids : j < i}
    <3>1. i \in 1..n /\ i < id
      BY <2>1
    <3>2. ~(id < i)
      BY <3>1
    <3> QED BY <1>1, <3>2
  <2> QED BY <2>1, <2>2 DEF Before
<1> QED BY <1>2, <1>3

\* The log is empty at the start.
LEMMA AuditInvInit == Init => AuditInv
<1> SUFFICES ASSUME Init PROVE AuditInv
  OBVIOUS
<1>1. Ids = {}
  BY DEF Init, Ids
<1>2. \A t \in Tasks : tx[t] = IdleTx
  BY DEF Init
<1>3. LogTyped
  BY <1>1, <1>2 DEF Init, LogTyped, IdleTx
<1> QED BY <1>1, <1>2, <1>3 DEF Init, AuditInv, Chained, IdleTx

\* Steps of an append before its commit, and its end without one.
LEMMA OpenAppendKeeps ==
  ASSUME AuditInv, NEW t \in Tasks, SelectTip(t) \/ LockTip(t) \/ Insert(t) \/ AppendFails(t)
  PROVE  AuditInv'
<1>0. /\ log' = log /\ Ids' = Ids /\ overlap' = overlap /\ backend' = backend /\ seq \in Nat
      /\ tx[t] \in [pc : {"idle", "waiting", "locked", "inserted"}, tip : Nat, id : Nat]
      /\ DOMAIN tx = Tasks
  BY DEF SelectTip, LockTip, Insert, AppendFails, Ids, AuditInv, LogTyped
<1>1. \A u \in Tasks \ {t} : tx'[u] = tx[u]
  BY <1>0 DEF SelectTip, LockTip, Insert, AppendFails
<1>2. Newest(Ids) \in Nat
  BY NewestOf DEF AuditInv, LogTyped
<1>3. \A i \in Ids : Before(i)' = Before(i)
  BY <1>0 DEF Before
<1>4. CASE SelectTip(t) \/ LockTip(t)
  <2>1. /\ seq' = seq /\ (backend = "postgres" \/ tx[t].pc = "waiting")
        /\ tx'[t].pc \in {"waiting", "locked"} /\ tx'[t].id = tx[t].id
        /\ (tx'[t].tip = tx[t].tip /\ tx[t].pc # "idle") \/ tx'[t].tip = Newest(Ids)
        /\ tx'[t] \in [pc : {"idle", "waiting", "locked", "inserted"}, tip : Nat, id : Nat]
        /\ tx' = [tx EXCEPT ![t] = tx'[t]]
    BY <1>0, <1>2, <1>4 DEF SelectTip, LockTip
  <2>2. seq' = seq
    BY <1>4 DEF SelectTip, LockTip
  <2>3. LogTyped'
    BY <1>0, <1>1, <2>1, <2>2 DEF AuditInv, LogTyped, IdleTx
  <2>4. ASSUME ~overlap PROVE Chained'
    BY <1>0, <1>1, <1>3, <2>1, <2>4 DEF AuditInv, Chained
  <2> QED BY <1>0, <2>3, <2>4 DEF AuditInv
<1>5. CASE Insert(t)
  <2>1. /\ seq' = seq + 1 /\ tx[t].pc = "locked"
        /\ tx'[t].pc = "inserted" /\ tx'[t].id = seq + 1 /\ tx'[t].tip = tx[t].tip
        /\ tx'[t] \in [pc : {"idle", "waiting", "locked", "inserted"}, tip : Nat, id : Nat]
        /\ tx' = [tx EXCEPT ![t] = tx'[t]]
    <3>1. tx'[t] = [tx[t] EXCEPT !.pc = "inserted", !.id = seq + 1] /\ seq + 1 \in Nat
      BY <1>0, <1>5 DEF Insert
    <3>2. /\ tx'[t].pc = "inserted" /\ tx'[t].id = seq + 1 /\ tx'[t].tip = tx[t].tip
          /\ tx'[t] \in [pc : {"idle", "waiting", "locked", "inserted"}, tip : Nat, id : Nat]
      BY <1>0, <3>1
    <3>3. tx' = [tx EXCEPT ![t] = tx'[t]]
      BY <1>0, <1>5 DEF Insert
    <3> QED BY <1>5, <3>2, <3>3 DEF Insert
  <2>2. LogTyped'
    BY <1>0, <1>1, <2>1 DEF AuditInv, LogTyped, IdleTx
  <2>3. ASSUME ~overlap PROVE Chained'
    <3>1. \A i \in Ids : i < seq + 1
      BY DEF AuditInv, LogTyped
    <3> QED BY <1>0, <1>1, <1>3, <2>1, <2>3, <3>1 DEF AuditInv, Chained
  <2> QED BY <1>0, <2>2, <2>3 DEF AuditInv
<1>6. CASE AppendFails(t)
  <2>1. seq' = seq /\ tx' = [tx EXCEPT ![t] = IdleTx] /\ tx'[t] = IdleTx
    BY <1>0, <1>6 DEF AppendFails
  <2>2. LogTyped'
    BY <1>0, <1>1, <2>1 DEF AuditInv, LogTyped, IdleTx
  <2>3. ASSUME ~overlap PROVE Chained'
    BY <1>0, <1>1, <1>3, <2>1, <2>3 DEF AuditInv, Chained, IdleTx
  <2> QED BY <1>0, <2>2, <2>3 DEF AuditInv
<1> QED BY <1>4, <1>5, <1>6

\* An append that overlapped no other commits on top of the tip it selected.
LEMMA CommitKeeps ==
  ASSUME AuditInv, NEW t \in Tasks, NEW at \in Fractions, Commit(t, at)
  PROVE  AuditInv'
<1>1. PICK id \in Nat : id = tx[t].id /\ id \in 1..seq
  BY DEF Commit, AuditInv, LogTyped
<1>2. Ids' = Ids \cup {id}
  BY <1>1 DEF Commit, WithRow, Ids
<1>3. /\ seq' = seq /\ backend' = backend /\ tx' = [tx EXCEPT ![t] = IdleTx]
      /\ overlap' \in BOOLEAN
  BY DEF Commit, AuditInv
<1>4. LogTyped'
  BY <1>1, <1>2, <1>3 DEF AuditInv, LogTyped, IdleTx
<1>5. ASSUME ~overlap' PROVE Chained'
  <2>1. ~overlap /\ \A u \in Tasks : tx'[u].pc = "idle"
    BY <1>5 DEF Commit, AuditInv, LogTyped, IdleTx
  <2>2. tx[t].tip = Newest(Ids) /\ \A i \in Ids : i < id
    BY <1>1, <2>1 DEF Commit, AuditInv, Chained
  <2>3. log' = WithRow(id, Newest(Ids), at)
    BY <1>1, <2>2 DEF Commit
  <2>4. \A i \in Ids' : log'[i].prev = Before(i)'
    BY <2>1, <2>2, <2>3, RowOnTop DEF AuditInv, LogTyped, Chained
  <2> QED BY <2>1, <2>4 DEF Chained
<1> QED BY <1>3, <1>4, <1>5 DEF AuditInv

\* The memory log appends under its write lock.
LEMMA AppendMemoryKeeps ==
  ASSUME AuditInv, NEW at \in Fractions, AppendMemory(at)
  PROVE  AuditInv'
<1>1. seq + 1 \in Nat /\ \A i \in Ids : i < seq + 1
  BY DEF AuditInv, LogTyped
<1>2. /\ seq' = seq + 1 /\ UNCHANGED <<backend, tx, overlap>> /\ backend = "memory"
      /\ log' = WithRow(seq + 1, Newest(Ids), at)
  BY DEF AppendMemory
<1>3. Ids' = Ids \cup {seq + 1}
  BY <1>2 DEF WithRow, Ids
<1>4. LogTyped'
  BY <1>2, <1>3 DEF AuditInv, LogTyped, IdleTx
<1>5. ASSUME ~overlap PROVE Chained'
  <2>1. \A i \in Ids' : log'[i].prev = Before(i)'
    BY <1>1, <1>2, <1>5, RowOnTop DEF AuditInv, LogTyped, Chained
  <2> QED BY <1>2, <2>1 DEF AuditInv, LogTyped, Chained, IdleTx
<1> QED BY <1>2, <1>4, <1>5 DEF AuditInv

\* A restart ends the open transactions; the memory log starts empty.
LEMMA RestartKeeps ==
  ASSUME AuditInv, NEW key \in Keys, Restart(key)
  PROVE  AuditInv'
<1>1. UNCHANGED <<backend, overlap>> /\ tx' = [t \in Tasks |-> IdleTx]
  BY DEF Restart
<1>2. CASE backend = "memory"
  <2>1. Ids' = {} /\ seq' = 0
    BY <1>2 DEF Restart, Ids
  <2> QED BY <1>1, <2>1 DEF AuditInv, LogTyped, Chained, IdleTx
<1>3. CASE backend # "memory"
  <2>1. Ids' = Ids /\ seq' = seq /\ log' = log
    BY <1>3 DEF Restart, Ids
  <2>2. \A i \in Ids : Before(i)' = Before(i)
    BY <2>1 DEF Before
  <2> QED BY <1>1, <1>3, <2>1, <2>2 DEF AuditInv, LogTyped, Chained, IdleTx
<1> QED BY <1>2, <1>3

\* Exports write no row of the log.
LEMMA ExportsKeepLog ==
  ASSUME AuditInv, UNCHANGED <<backend, appendVars>>
  PROVE  AuditInv'
<1>1. UNCHANGED <<backend, log, seq, tx, overlap>> /\ Ids' = Ids
  BY DEF appendVars, Ids
<1>2. \A i \in Ids : Before(i)' = Before(i)
  BY <1>1 DEF Before
<1> QED BY <1>1, <1>2 DEF AuditInv, LogTyped, Chained

\* Every step keeps the inductive invariant.
LEMMA AuditInvNext ==
  ASSUME AuditInv, [Next]_vars
  PROVE  AuditInv'
<1>1. CASE UNCHANGED vars
  BY <1>1, ExportsKeepLog DEF vars, appendVars
<1>2. ASSUME NEW x \in Exporters,
             \/ BeginPending(x) \/ ReadTip(x) \/ GetRow(x) \/ PutObject(x)
             \/ InsertCheckpoint(x) \/ ExportFails(x)
             \/ \E from, to \in 1..MaxRows : BeginRange(x, from, to)
      PROVE  AuditInv'
  <2>1. UNCHANGED <<backend, appendVars>>
    BY <1>2 DEF BeginPending, ReadTip, GetRow, PutObject, InsertCheckpoint, ExportFails, BeginRange
  <2> QED BY <2>1, ExportsKeepLog
<1> QED BY <1>1, <1>2, OpenAppendKeeps, CommitKeeps, AppendMemoryKeeps, RestartKeeps DEF Next

\* The inductive invariant of the chain holds always.
LEMMA AuditInvariant == Spec => []AuditInv
  BY AuditInvInit, AuditInvNext, PTL DEF Spec

\* Over all interleavings of appends, restarts and key changes, a row that
\* verify_chain rejects was cut by its column type or overlapped another append.
THEOREM ChainBreaksExplained == Spec => []BreaksAreExplained
<1>1. ASSUME AuditInv PROVE BreaksAreExplained
  <2> SUFFICES ASSUME NEW from \in 1..seq, NEW to \in 1..seq, VerifyChain(from, to) > 0, ~overlap
               PROVE  Cut(VerifyChain(from, to))
    BY <1>1 DEF BreaksAreExplained, AuditInv
  <2> DEFINE range == {i \in Ids : from <= i /\ i <= to}
             bad == {i \in range : log[i].key # active \/ Unlinked(i) \/ Cut(i)}
             b == CHOOSE i \in bad : \A j \in bad : i <= j
  <2>1. VerifyChain(from, to) = IF bad = {} THEN 0 ELSE IF log[b].key # active THEN -1 ELSE b
    BY DEF VerifyChain
  <2>2. bad # {} /\ log[b].key = active /\ VerifyChain(from, to) = b
    <3> HIDE DEF bad, b
    <3> QED BY <2>1
  <2>3. bad \in SUBSET Nat
    <3>1. \A i \in Ids : i \in Nat
      BY <1>1 DEF AuditInv, LogTyped
    <3> QED BY <3>1
  <2>4. b \in bad
    <3> HIDE DEF bad
    <3>1. \E i \in bad : \A j \in bad : i <= j
      BY <2>2, <2>3, LeastNatural
    <3> QED BY <3>1
  <2>5. ~Unlinked(b)
    BY <1>1, <2>4 DEF AuditInv, Chained, Unlinked
  <2> QED BY <2>2, <2>4, <2>5
<1> QED BY <1>1, AuditInvariant, PTL

----------------------------------------------------------------------------
(* What an exporter passes over.  As long as no range was asked for, every    *)
(* exporter knows the fate of the rows behind it.                             *)

\* Rows that are exported, or were committed behind a higher id.
Seen == exported \cup late

\* Row i is among those an exporter has collected.
Collected(e, i) == \E k \in 1..Len(e.rows) : e.rows[k] = i

\* The exporter's range ends at a row, and what it collected is in it.
RangeOf(e, ids) ==
    /\ e.to \in ids /\ e.from <= e.to
    /\ \A k \in 1..Len(e.rows) : e.rows[k] \in ids /\ e.rows[k] <= e.to

\* All rows below what the exporter has reached are exported, late or in its hands.
Behind(e, ids, seen) ==
    \/ e.pc = "idle"
    \/ /\ e.pc = "tip" /\ e.from # 0 /\ e.from - 1 \in ids \cup {0} /\ e.rows = <<>>
       /\ \A i \in ids : i < e.from => i \in seen
    \/ /\ e.pc = "get" /\ RangeOf(e, ids)
       /\ \A i \in ids : i < e.from => i \in seen \/ Collected(e, i)
    \/ /\ e.pc = "put" /\ RangeOf(e, ids) /\ e.rows # <<>>
       /\ \A i \in ids : i <= e.to => i \in seen \/ Collected(e, i)
    \/ /\ e.pc = "mark" /\ RangeOf(e, ids) /\ e.rows # <<>>
       /\ \A i \in ids : i <= e.to => i \in seen

\* Where an exporter is.
ExportState == [pc : {"idle", "tip", "get", "put", "mark"}, from : Nat, to : Nat, rows : Seq(Nat)]

\* Up to the newest checkpoint, and behind every exporter, no row is forgotten.
Exports ==
    /\ last \in Ids \cup {0}
    /\ \A i \in Ids : i <= last => i \in Seen
    /\ exp \in [Exporters -> ExportState]
    /\ \A x \in Exporters : Behind(exp[x], Ids, Seen)

\* The inductive invariant of the export, while no range was asked for.
ExportInv == LogTyped /\ ranged \in BOOLEAN /\ (~ranged => Exports)

\* A row that appears behind another is one of the late ones, so an exporter
\* behind which it appears still knows its fate.
LEMMA BehindStays ==
  ASSUME NEW ids \in SUBSET (Nat \ {0}), NEW more \in SUBSET (Nat \ {0}), ids \subseteq more,
         NEW seen, NEW wider, seen \subseteq wider,
         \A n \in more \ ids, j \in ids : n < j => n \in wider,
         NEW e \in ExportState, Behind(e, ids, seen)
  PROVE  Behind(e, more, wider)
<1>1. \A j \in ids \cup {0}, n \in more : n <= j => n \in ids \/ n \in wider
  OBVIOUS
<1>2. e.from \in Nat /\ e.to \in Nat
  BY DEF ExportState
<1>3. RangeOf(e, ids) => RangeOf(e, more)
  BY DEF RangeOf
<1>4. CASE e.pc = "idle"
  BY <1>4 DEF Behind
<1>5. CASE e.pc = "tip"
  <2>1. ASSUME NEW i \in more, i < e.from PROVE i \in wider
    <3>1. i <= e.from - 1
      BY <1>2, <2>1
    <3> QED BY <1>1, <1>5, <2>1, <3>1 DEF Behind
  <2> QED BY <1>5, <2>1 DEF Behind
<1>6. CASE e.pc = "get"
  <2>1. e.to \in ids /\ e.from <= e.to
    BY <1>6 DEF Behind, RangeOf
  <2>2. ASSUME NEW i \in more, i < e.from PROVE i \in wider \/ Collected(e, i)
    <3>1. i <= e.to
      BY <1>2, <2>1, <2>2
    <3> QED BY <1>1, <1>6, <2>1, <2>2, <3>1 DEF Behind
  <2> QED BY <1>3, <1>6, <2>2 DEF Behind
<1>7. CASE e.pc \in {"put", "mark"}
  <2>1. e.to \in ids
    BY <1>7 DEF Behind, RangeOf
  <2>2. \A i \in more : i <= e.to => i \in ids \/ i \in wider
    BY <1>1, <2>1
  <2> QED BY <1>3, <1>7, <2>2 DEF Behind
<1> QED BY <1>4, <1>5, <1>6, <1>7 DEF ExportState

\* There is no row to export at the start.
LEMMA ExportInvInit == Init => ExportInv
<1> SUFFICES ASSUME Init PROVE ExportInv
  OBVIOUS
<1>1. LogTyped
  BY AuditInvInit DEF AuditInv
<1>2. IdleExport \in ExportState /\ Behind(IdleExport, Ids, Seen)
  BY DEF IdleExport, ExportState, Behind
<1>3. Ids = {}
  BY DEF Init, Ids
<1> QED BY <1>1, <1>2, <1>3 DEF Init, ExportInv, Exports

\* The log grows by one row.
LEMMA RowKeepsExports ==
  ASSUME LogTyped, Exports, LogTyped', NEW id \in Nat \ {0}, Ids' = Ids \cup {id},
         \A j \in Ids : id < j => id \in late', late \subseteq late',
         UNCHANGED <<last, exported, exp>>
  PROVE  Exports'
<1>1. Ids \in SUBSET (Nat \ {0}) /\ Ids' \in SUBSET (Nat \ {0})
  BY DEF LogTyped
<1>2. Seen \subseteq Seen' /\ \A n \in Ids' \ Ids, j \in Ids : n < j => n \in Seen'
  BY DEF Seen
<1>3. \A x \in Exporters : Behind(exp[x], Ids', Seen')
  BY <1>1, <1>2, BehindStays DEF Exports
<1>4. ASSUME NEW i \in Ids', i <= last PROVE i \in Seen'
  <2>1. CASE i \in Ids
    BY <1>2, <1>4, <2>1 DEF Exports
  <2>2. CASE i \notin Ids
    <3>1. i # last /\ last \in Ids
      BY <1>1, <1>4, <2>2 DEF Exports
    <3>2. i < last
      BY <1>1, <1>4, <3>1
    <3> QED BY <1>2, <2>2, <3>1, <3>2
  <2> QED BY <2>1, <2>2
<1> QED BY <1>3, <1>4 DEF Exports

\* Appends: a row that commits behind a higher id is late, any other is on top.
LEMMA AppendsKeepExports ==
  ASSUME ExportInv, AuditInv, AuditInv',
         \/ \E t \in Tasks : \/ SelectTip(t) \/ LockTip(t) \/ Insert(t) \/ AppendFails(t)
                             \/ \E at \in Fractions : Commit(t, at)
         \/ \E at \in Fractions : AppendMemory(at)
  PROVE  ExportInv'
<1>1. LogTyped /\ LogTyped'
  BY DEF AuditInv
<1>2. UNCHANGED <<last, exported, exp, ranged>>
  BY DEF SelectTip, LockTip, Insert, AppendFails, Commit, AppendMemory, exportVars
<1>3. ASSUME NEW t \in Tasks, SelectTip(t) \/ LockTip(t) \/ Insert(t) \/ AppendFails(t) PROVE ExportInv'
  <2>1. Ids' = Ids /\ Seen' = Seen
    BY <1>2, <1>3 DEF SelectTip, LockTip, Insert, AppendFails, Ids, Seen
  <2> QED BY <1>1, <1>2, <2>1 DEF ExportInv, Exports
<1>4. ASSUME NEW t \in Tasks, NEW at \in Fractions, Commit(t, at) PROVE ExportInv'
  <2>1. PICK id \in Nat \ {0} : id = tx[t].id
    BY <1>1, <1>4 DEF Commit, LogTyped
  <2>2. Ids' = Ids \cup {id}
    BY <1>4, <2>1 DEF Commit, WithRow, Ids
  <2>3. \A j \in Ids : id < j => Newest(Ids) > id
    <3>1. Newest(Ids) \in Nat /\ \A j \in Ids : j <= Newest(Ids)
      BY <1>1, NewestOf DEF LogTyped
    <3>2. \A j \in Ids : j \in Nat
      BY <1>1 DEF LogTyped
    <3> QED BY <3>1, <3>2
  <2>4. late \subseteq late' /\ \A j \in Ids : id < j => id \in late'
    BY <1>4, <2>1, <2>3 DEF Commit
  <2> QED BY <1>1, <1>2, <2>2, <2>4, RowKeepsExports DEF ExportInv
<1>5. ASSUME NEW at \in Fractions, AppendMemory(at) PROVE ExportInv'
  <2>1. PICK id \in Nat \ {0} : id = seq + 1
    BY <1>1 DEF LogTyped
  <2>2. Ids' = Ids \cup {id} /\ late' = late
    BY <1>5, <2>1 DEF AppendMemory, WithRow, Ids
  <2>3. \A j \in Ids : ~(id < j)
    BY <1>1, <2>1 DEF LogTyped
  <2> QED BY <1>1, <1>2, <2>2, <2>3, RowKeepsExports DEF ExportInv
<1> QED BY <1>3, <1>4, <1>5

\* One exporter moves; the rows and what was seen of them can only grow.
LEMMA ExporterMoves ==
  ASSUME ExportInv, LogTyped', UNCHANGED <<log, late, ranged>>, NEW x \in Exporters, NEW e,
         exp' = [exp EXCEPT ![x] = e], exported \subseteq exported',
         ~ranged => /\ e \in ExportState /\ Behind(e, Ids, Seen')
                    /\ last' \in Ids \cup {0} /\ \A i \in Ids : i <= last' => i \in Seen'
  PROVE  ExportInv'
<1>1. Ids' = Ids /\ Ids \in SUBSET (Nat \ {0})
  BY DEF Ids, ExportInv, LogTyped
<1>2. Seen \subseteq Seen'
  BY DEF Seen
<1>3. ASSUME ~ranged PROVE Exports'
  <2>1. exp' \in [Exporters -> ExportState]
    BY <1>3 DEF ExportInv, Exports
  <2>2. ASSUME NEW y \in Exporters PROVE Behind(exp'[y], Ids, Seen')
    <3>1. CASE y = x
      BY <1>3, <3>1 DEF ExportInv, Exports
    <3>2. CASE y # x
      <4>1. exp'[y] = exp[y] /\ exp[y] \in ExportState /\ Behind(exp[y], Ids, Seen)
        BY <1>3, <3>2 DEF ExportInv, Exports
      <4> QED BY <1>1, <1>2, <4>1, BehindStays
    <3> QED BY <3>1, <3>2
  <2> QED BY <1>1, <1>3, <2>1, <2>2 DEF Exports
<1> QED BY <1>3 DEF ExportInv

\* An idle exporter has nothing in its hands.
LEMMA IdleIsBehind == IdleExport \in ExportState /\ \A ids, seen : Behind(IdleExport, ids, seen)
  BY DEF IdleExport, ExportState, Behind

\* The fields of an exporter that starts a range at `new`.
LEMMA RangeStarts ==
  ASSUME NEW new \in Nat
  PROVE  LET e == [IdleExport EXCEPT !.pc = "tip", !.from = new]
         IN e \in ExportState /\ e.pc = "tip" /\ e.from = new /\ e.rows = <<>>
<1>1. \A r \in ExportState :
        LET e == [r EXCEPT !.pc = "tip", !.from = new]
        IN e \in ExportState /\ e.pc = "tip" /\ e.from = new /\ e.rows = r.rows
  BY DEF ExportState
<1>2. IdleExport.rows = <<>>
  BY DEF IdleExport
<1> QED BY <1>1, <1>2, IdleIsBehind

\* export_pending begins after the newest checkpoint and ends at the tip.
LEMMA RangeBegins ==
  ASSUME ExportInv, NEW x \in Exporters, BeginPending(x) \/ ReadTip(x)
  PROVE  ExportInv'
<1>1. /\ UNCHANGED <<log, late, ranged, last, exported>> /\ LogTyped'
      /\ Seen' = Seen
  BY DEF BeginPending, ReadTip, appendVars, Seen, ExportInv, LogTyped, Ids
<1>2. Ids \in SUBSET (Nat \ {0}) /\ Newest(Ids) \in Nat /\ (Ids # {} => Newest(Ids) \in Ids)
  <2>1. Ids \in SUBSET (1..seq) /\ seq \in Nat
    BY DEF ExportInv, LogTyped
  <2>2. Ids \in SUBSET (Nat \ {0})
    BY <2>1
  <2> QED BY <2>1, <2>2, NewestOf
<1>3. CASE BeginPending(x)
  <2>0. PICK new : new = last + 1
    OBVIOUS
  <2> DEFINE e == [IdleExport EXCEPT !.pc = "tip", !.from = new]
  <2>1. exp' = [exp EXCEPT ![x] = e]
    BY <1>3, <2>0 DEF BeginPending, ExportStep
  <2>3. ASSUME ~ranged PROVE e \in ExportState /\ Behind(e, Ids, Seen)
    <3>1. last \in Nat /\ last \in Ids \cup {0}
      <4>1. last \in Ids \cup {0}
        BY <2>3 DEF ExportInv, Exports
      <4>2. \A j \in Ids : j \in Nat
        BY <1>2
      <4> QED BY <4>1, <4>2
    <3>2. \A i \in Ids : i < last + 1 => i <= last
      BY <1>2, <3>1
    <3>3. last + 1 # 0 /\ (last + 1) - 1 = last /\ last + 1 \in Nat
      BY <3>1
    <3>4. e \in ExportState /\ e.pc = "tip" /\ e.from = new /\ e.rows = <<>>
      <4>1. new \in Nat
        BY <2>0, <3>3
      <4> QED BY <4>1, RangeStarts
    <3> HIDE DEF e
    <3> QED BY <2>0, <2>3, <3>1, <3>2, <3>3, <3>4 DEF Behind, ExportInv, Exports
  <2> HIDE DEF e
  <2> QED BY <1>1, <2>1, <2>3, ExporterMoves DEF ExportInv, Exports
<1>4. CASE ReadTip(x) /\ Newest(Ids) < exp[x].from
  <2>1. exp' = [exp EXCEPT ![x] = IdleExport]
    BY <1>4 DEF ReadTip, ExportStep
  <2> QED BY <1>1, <2>1, IdleIsBehind, ExporterMoves DEF ExportInv, Exports
<1>5. CASE ReadTip(x) /\ ~(Newest(Ids) < exp[x].from)
  <2> DEFINE e == [exp[x] EXCEPT !.pc = "get", !.to = Newest(Ids)]
  <2>1. exp' = [exp EXCEPT ![x] = e]
    BY <1>5 DEF ReadTip, ExportStep
  <2>2. ASSUME ~ranged PROVE e \in ExportState /\ Behind(e, Ids, Seen)
    <3>1. exp[x] \in ExportState /\ Behind(exp[x], Ids, Seen) /\ exp[x].pc = "tip"
      BY <1>5, <2>2 DEF ReadTip, ExportInv, Exports
    <3>2. /\ e \in ExportState /\ e.pc = "get" /\ e.to = Newest(Ids)
          /\ e.from = exp[x].from /\ e.rows = exp[x].rows
      BY <1>2, <3>1 DEF ExportState
    <3>3. exp[x].from \in Nat \ {0} /\ exp[x].rows = <<>>
      BY <3>1 DEF Behind, ExportState
    <3>4. Newest(Ids) \in Ids /\ exp[x].from <= Newest(Ids)
      <4>1. Ids = {} => Newest(Ids) = 0
        BY DEF Newest
      <4> QED BY <1>2, <1>5, <3>3, <4>1
    <3>5. \A i \in Ids : i < exp[x].from => i \in Seen
      BY <3>1 DEF Behind
    <3> HIDE DEF e
    <3>6. RangeOf(e, Ids)
      BY <3>2, <3>3, <3>4 DEF RangeOf
    <3> QED BY <3>2, <3>5, <3>6 DEF Behind
  <2> HIDE DEF e
  <2> QED BY <1>1, <2>1, <2>2, ExporterMoves DEF ExportInv, Exports
<1> QED BY <1>3, <1>4, <1>5

\* export_range reads one id of its range.
LEMMA RowIsCollected ==
  ASSUME ExportInv, NEW x \in Exporters, GetRow(x)
  PROVE  ExportInv'
<1>1. /\ UNCHANGED <<log, late, ranged, last, exported>> /\ LogTyped'
      /\ Seen' = Seen /\ Ids \in SUBSET (Nat \ {0})
  BY DEF GetRow, appendVars, Seen, ExportInv, LogTyped, Ids
<1> DEFINE e == exp[x]
           found == IF e.from \in Ids THEN Append(e.rows, e.from) ELSE e.rows
           next == IF e.from < e.to THEN [e EXCEPT !.from = @ + 1, !.rows = found]
                   ELSE IF found = <<>> THEN IdleExport
                   ELSE [e EXCEPT !.pc = "put", !.rows = found]
<1>2. exp' = [exp EXCEPT ![x] = next] /\ e.pc = "get"
  BY DEF GetRow, ExportStep
<1>3. ASSUME ~ranged PROVE next \in ExportState /\ Behind(next, Ids, Seen)
  <2>1. e \in ExportState /\ RangeOf(e, Ids) /\ \A i \in Ids : i < e.from => i \in Seen \/ Collected(e, i)
    BY <1>2, <1>3 DEF ExportInv, Exports, Behind
  <2>2. e.from \in Nat /\ e.to \in Nat /\ e.rows \in Seq(Nat) /\ e.to \in Ids /\ e.from <= e.to
    BY <2>1 DEF ExportState, RangeOf
  <2>3. found \in Seq(Nat) /\ \A k \in 1..Len(found) : found[k] \in Ids /\ found[k] <= e.to
    BY <2>1, <2>2 DEF RangeOf
  <2>4. \A i \in Ids : i < e.from + 1 => i \in Seen \/ \E k \in 1..Len(found) : found[k] = i
    <3> SUFFICES ASSUME NEW i \in Ids, i < e.from + 1, i \notin Seen
                 PROVE  \E k \in 1..Len(found) : found[k] = i
      OBVIOUS
    <3>1. CASE i = e.from
      <4>1. found = Append(e.rows, i)
        BY <3>1
      <4>2. Len(found) \in 1..Len(found) /\ found[Len(found)] = i
        BY <2>2, <4>1
      <4> QED BY <4>2
    <3>2. CASE i < e.from
      <4>1. PICK k \in 1..Len(e.rows) : e.rows[k] = i
        BY <2>1, <3>2 DEF Collected
      <4>2. k \in 1..Len(found) /\ found[k] = i
        BY <2>2, <4>1
      <4> QED BY <4>2
    <3> QED BY <1>1, <2>2, <3>1, <3>2
  <2> HIDE DEF found
  <2>5. CASE e.from < e.to
    <3>1. next = [e EXCEPT !.from = e.from + 1, !.rows = found]
      BY <2>5
    <3>2. /\ next \in ExportState /\ next.pc = "get" /\ next.from = e.from + 1
          /\ next.to = e.to /\ next.rows = found
      <4>1. PICK new \in Nat : new = e.from + 1
        BY <2>2
      <4> HIDE DEF e
      <4>2. next = [e EXCEPT !.from = new, !.rows = found]
        BY <3>1, <4>1
      <4> HIDE DEF next
      <4>3. PICK got \in Seq(Nat) : got = found
        BY <2>3
      <4>4. PICK r \in ExportState : r = e
        BY <2>1
      <4>5. next = [r EXCEPT !.from = new, !.rows = got]
        BY <4>2, <4>3, <4>4
      <4>6. /\ next \in ExportState /\ next.pc = r.pc /\ next.from = new
            /\ next.to = r.to /\ next.rows = got
        <5>1. PICK n : n = next
          OBVIOUS
        <5>2. n = [r EXCEPT !.from = new, !.rows = got]
          BY <4>5, <5>1
        <5>3. /\ n \in ExportState /\ n.pc = r.pc /\ n.from = new
              /\ n.to = r.to /\ n.rows = got
          BY <5>2 DEF ExportState
        <5> QED BY <5>1, <5>3
      <4> QED BY <1>2, <4>1, <4>3, <4>4, <4>6
    <3> HIDE DEF next, e
    <3>3. RangeOf(next, Ids)
      BY <2>2, <2>3, <2>5, <3>2 DEF RangeOf
    <3> QED BY <2>4, <3>2, <3>3 DEF Behind, Collected
  <2>6. CASE ~(e.from < e.to) /\ found = <<>>
    BY <2>6, IdleIsBehind
  <2>7. CASE ~(e.from < e.to) /\ found # <<>>
    <3>1. next = [e EXCEPT !.pc = "put", !.rows = found]
      BY <2>7
    <3>2. /\ next \in ExportState /\ next.pc = "put" /\ next.from = e.from
          /\ next.to = e.to /\ next.rows = found
      BY <2>1, <2>3, <3>1 DEF ExportState
    <3> HIDE DEF next, e
    <3>3. RangeOf(next, Ids)
      BY <2>2, <2>3, <3>2 DEF RangeOf
    <3>4. \A i \in Ids : i <= e.to => i < e.from + 1
      BY <1>1, <2>2, <2>7
    <3> QED BY <2>4, <2>7, <3>2, <3>3, <3>4 DEF Behind, Collected
  <2> QED BY <2>5, <2>6, <2>7
<1> HIDE DEF next
<1> QED BY <1>1, <1>2, <1>3, ExporterMoves DEF ExportInv, Exports

\* The object is put, then the checkpoint is written; or the export fails.
LEMMA RangeEnds ==
  ASSUME ExportInv, NEW x \in Exporters, PutObject(x) \/ InsertCheckpoint(x) \/ ExportFails(x)
  PROVE  ExportInv'
<1>1. UNCHANGED <<log, late, ranged>> /\ LogTyped'
  BY DEF PutObject, InsertCheckpoint, ExportFails, appendVars, ExportInv, LogTyped, Ids
<1>2. CASE PutObject(x)
  <2> DEFINE e == exp[x]
             next == [e EXCEPT !.pc = "mark"]
  <2>1. /\ exp' = [exp EXCEPT ![x] = next] /\ last' = last /\ e.pc = "put"
        /\ exported' = exported \cup {e.rows[i] : i \in 1..Len(e.rows)}
    BY <1>2 DEF PutObject, ExportStep
  <2>2. Seen \subseteq Seen' /\ \A k \in 1..Len(e.rows) : e.rows[k] \in Seen'
    BY <1>1, <2>1 DEF Seen
  <2>3. ASSUME ~ranged PROVE next \in ExportState /\ Behind(next, Ids, Seen')
    <3>1. e \in ExportState /\ Behind(e, Ids, Seen)
      BY <2>3 DEF ExportInv, Exports
    <3>2. /\ next \in ExportState /\ next.pc = "mark" /\ next.from = e.from
          /\ next.to = e.to /\ next.rows = e.rows
      BY <3>1 DEF ExportState
    <3> HIDE DEF next, e
    <3> QED BY <2>1, <2>2, <3>1, <3>2 DEF Behind, Collected, RangeOf
  <2>4. ASSUME ~ranged PROVE last \in Ids \cup {0} /\ \A i \in Ids : i <= last => i \in Seen'
    BY <2>2, <2>4 DEF ExportInv, Exports
  <2> HIDE DEF next
  <2> QED BY <1>1, <2>1, <2>3, <2>4, ExporterMoves
<1>3. CASE InsertCheckpoint(x)
  <2>1. /\ exp' = [exp EXCEPT ![x] = IdleExport] /\ exported' = exported
        /\ last' = exp[x].rows[Len(exp[x].rows)] /\ exp[x].pc = "mark"
    BY <1>3 DEF InsertCheckpoint, ExportStep
  <2>2. Seen' = Seen
    BY <1>1, <2>1 DEF Seen
  <2>3. ASSUME ~ranged PROVE last' \in Ids \cup {0} /\ \A i \in Ids : i <= last' => i \in Seen
    <3>1. /\ exp[x] \in ExportState /\ RangeOf(exp[x], Ids) /\ exp[x].rows # <<>>
          /\ \A i \in Ids : i <= exp[x].to => i \in Seen
      BY <2>1, <2>3 DEF ExportInv, Exports, Behind
    <3>2. Len(exp[x].rows) \in 1..Len(exp[x].rows) /\ exp[x].to \in Nat
      BY <3>1 DEF ExportState
    <3>3. last' \in Ids /\ last' <= exp[x].to
      BY <2>1, <3>1, <3>2 DEF RangeOf
    <3>4. \A i \in Ids : i \in Nat
      BY DEF ExportInv, LogTyped
    <3> QED BY <3>1, <3>2, <3>3, <3>4
  <2> QED BY <1>1, <2>1, <2>2, <2>3, IdleIsBehind, ExporterMoves
<1>4. CASE ExportFails(x)
  <2>1. exp' = [exp EXCEPT ![x] = IdleExport] /\ UNCHANGED <<exported, last>> /\ Seen' = Seen
    BY <1>1, <1>4 DEF ExportFails, ExportStep, Seen
  <2> QED BY <1>1, <2>1, IdleIsBehind, ExporterMoves DEF ExportInv, Exports
<1> QED BY <1>2, <1>3, <1>4

\* A restart forgets the exporters; the memory backend forgets its rows too.
LEMMA RestartKeepsExports ==
  ASSUME ExportInv, LogTyped', NEW key \in Keys, Restart(key)
  PROVE  ExportInv'
<1>1. exp' = [x \in Exporters |-> IdleExport] /\ UNCHANGED <<ranged, late>>
  BY DEF Restart
<1>2. CASE backend = "memory"
  <2>1. Ids' = {} /\ last' = 0
    BY <1>2 DEF Restart, Ids
  <2> QED BY <1>1, <2>1, IdleIsBehind DEF ExportInv, Exports
<1>3. CASE backend # "memory"
  <2>1. Ids' = Ids /\ last' = last /\ Seen' = Seen
    BY <1>1, <1>3 DEF Restart, Ids, Seen
  <2> QED BY <1>1, <2>1, IdleIsBehind DEF ExportInv, Exports
<1> QED BY <1>2, <1>3

\* Concurrent exporters, appends that commit out of order, failures and restarts: a
\* row below the newest checkpoint that no export holds was committed late.
THEOREM SkippedRowsAreLate == Spec => []OnlyLateRowsAreSkipped
<1>1. ASSUME ExportInv, AuditInv, AuditInv', [Next]_vars PROVE ExportInv'
  <2>1. CASE UNCHANGED vars
    <3>1. Ids' = Ids /\ Seen' = Seen /\ UNCHANGED <<last, exp, ranged>> /\ LogTyped'
      BY <1>1, <2>1 DEF vars, Ids, Seen, AuditInv
    <3> QED BY <1>1, <3>1 DEF ExportInv, Exports
  <2>2. ASSUME NEW x \in Exporters, NEW from, NEW to, BeginRange(x, from, to) PROVE ExportInv'
    BY <1>1, <2>2 DEF BeginRange, ExportInv, AuditInv
  <2>3. ASSUME NEW key \in Keys, Restart(key) PROVE ExportInv'
    BY <1>1, <2>3, RestartKeepsExports DEF AuditInv
  <2> QED BY <1>1, <2>1, <2>2, <2>3, AppendsKeepExports, RangeBegins, RowIsCollected, RangeEnds DEF Next
<1>2. ExportInv => OnlyLateRowsAreSkipped
  BY DEF ExportInv, Exports, OnlyLateRowsAreSkipped, Seen
<1> QED BY <1>1, <1>2, ExportInvInit, AuditInvariant, PTL DEF Spec

----------------------------------------------------------------------------
(* The feeds of the vulnerability database.  GapsAreExplained speaks of what  *)
(* lies behind a cursor; the argument needs what a run under way has read of  *)
(* its window, and for OSV what the runs that unpack an archive still owe.    *)

RunState ==
    [src : Sources \cup {"none"}, pc : {"idle", "skip", "download", "entries", "pages", "nodes"},
     etag : Nat, body : [Advisories -> Nat], todo : SUBSET Advisories, from : Nat, to : Nat,
     now : Nat, index : Nat, after : Nat \X Nat, top : Nat]

\* Where a run is says which feed it reads.
SourceOf(pc) ==
    IF pc \in {"skip", "download", "entries"} THEN "osv"
    ELSE IF pc = "pages" THEN "nvd" ELSE IF pc = "nodes" THEN "ghsa" ELSE "none"

IngestTyped ==
    /\ feed \in [Sources -> [Advisories -> Nat]]
    /\ written \in [Sources -> [Advisories -> Nat]]
    /\ cursor \in [Sources -> Nat]
    /\ etag \in Nat /\ released \in Nat
    /\ run \in [Runners -> RunState]
    /\ \A r \in Runners : run[r].src = SourceOf(run[r].pc)

\* No time is later than the clock.
InThePast ==
    /\ etag <= released
    /\ \A s \in Sources : cursor[s] <= released /\ \A a \in Advisories : feed[s][a] <= released
    /\ \A r \in Runners :
          /\ run[r].etag <= released /\ run[r].from <= released
          /\ run[r].to <= released /\ run[r].now <= released
          /\ run[r].after[1] <= released /\ run[r].top <= released
          /\ \A a \in Advisories : run[r].body[a] <= released

\* A run of NVD has what is up to the end of its window, or has yet to read it.
NvdRead(q) ==
    /\ q.from <= q.to /\ q.to <= q.now /\ q.top <= q.to
    /\ \A a \in Advisories :
          feed["nvd"][a] <= q.to => TakenIn("nvd", a) \/ a \in Unread(q, feed["nvd"])

\* A run of GHSA has what is before the end of its last page.
GhsaRead(q) ==
    /\ q.top <= q.from \/ q.top <= q.after[1]
    /\ \A a \in Advisories :
          feed["ghsa"][a] < q.from \/ ~Earlier(q.after, Place(a)) => TakenIn("ghsa", a)

\* The archive a run of OSV unpacks is no newer than the feed, and is the feed's
\* while the ETag is the same.
OsvRead(q) ==
    /\ \A a \in Advisories : feed["osv"][a] # 0 => q.body[a] <= feed["osv"][a]
    /\ q.todo \subseteq Advisories

\* A run of OSV will still write a as the feed has it.
OwedBy(q, a) == q.pc = "entries" /\ a \in q.todo /\ q.body[a] = feed["osv"][a]

\* The ETag is stored, or a run will store it.
EtagKnown ==
    cursor["osv"] = etag \/ \E r \in Runners : run[r].pc \in {"entries", "skip"} /\ run[r].etag = etag

NvdInv ==
    /\ \A r \in Runners : run[r].pc = "pages" => NvdRead(run[r])
    /\ \A a \in Advisories : feed["nvd"][a] < cursor["nvd"] => TakenIn("nvd", a)
GhsaInv ==
    /\ \A r \in Runners : run[r].pc = "nodes" => GhsaRead(run[r])
    /\ \A a \in Advisories : feed["ghsa"][a] < cursor["ghsa"] => TakenIn("ghsa", a)
OsvInv ==
    /\ \A r \in Runners : run[r].pc = "entries" => OsvRead(run[r])
    /\ EtagKnown => \A a \in Advisories : TakenIn("osv", a) \/ \E r \in Runners : OwedBy(run[r], a)

IngestInv == IngestTyped /\ InThePast /\ NvdInv /\ GhsaInv /\ OsvInv

LEMMA NoRunTyped == NoRun \in RunState /\ NoRun.src = SourceOf(NoRun.pc) /\ NoRun.pc = "idle"
BY DEF NoRun, RunState, SourceOf, Sources

\* The greater and the lesser of a few numbers.
LEMMA MinOfTwo ==
  ASSUME NEW m \in Nat, NEW n \in Nat
  PROVE  Min({m, n}) \in Nat /\ Min({m, n}) <= m /\ Min({m, n}) <= n
         /\ (Min({m, n}) = m \/ Min({m, n}) = n)
<1>1. \E x \in {m, n} : \A y \in {m, n} : x <= y
  OBVIOUS
<1>2. Min({m, n}) \in {m, n} /\ \A y \in {m, n} : Min({m, n}) <= y
  BY <1>1 DEF Min
<1> QED BY <1>2

LEMMA MaxModifiedBounds ==
  ASSUME NEW top \in Nat, NEW batch \in SUBSET Advisories, NEW version \in [Advisories -> Nat],
         NEW m \in Nat, \A a \in batch : version[a] <= m, top <= m
  PROVE  /\ MaxModified(top, batch, version) \in Nat
         /\ MaxModified(top, batch, version) <= m
<1> DEFINE V == {top} \cup {version[a] : a \in batch}
<1>1. V \in SUBSET (0..m) /\ V # {}
  OBVIOUS
<1>2. PICK x \in V : \A y \in V : x >= y
  BY <1>1, GreatestBelow
<1>3. MaxModified(top, batch, version) \in V
  BY <1>2 DEF MaxModified, Max
<1> QED BY <1>1, <1>3

----------------------------------------------------------------------------
(* Types and times. *)

LEMMA BeginTyped ==
  ASSUME IngestTyped, InThePast, NEW r \in Runners, Begins(r)
  PROVE  IngestTyped' /\ InThePast'
<1> USE DEF IngestTyped
<1>0. released \in Nat /\ cursor["nvd"] <= released /\ cursor["ghsa"] <= released
  BY DEF InThePast, Sources
<1>1. CASE CheckEtag(r)
  <2> DEFINE q == [NoRun EXCEPT !.src = "osv", !.etag = etag,
                                !.pc = IF etag = cursor["osv"] THEN "skip" ELSE "download"]
  <2>1. q \in RunState /\ q.src = SourceOf(q.pc) /\ q.etag = etag /\ q.from = 0 /\ q.to = 0
        /\ q.now = 0 /\ q.after[1] = 0 /\ q.top \in {0, cursor["nvd"], cursor["ghsa"]} /\ q.body = [a \in Advisories |-> 0]
    BY DEF NoRun, RunState, SourceOf, Sources
  <2>2. run' = [run EXCEPT ![r] = q] /\ UNCHANGED <<feed, etag, released, cursor, written>>
    BY <1>1 DEF CheckEtag
  <2> HIDE DEF q
  <2> QED BY <1>0, <2>1, <2>2 DEF InThePast
<1>2. CASE BeginNvd(r)
  <2> DEFINE to == Min({cursor["nvd"] + Window, released})
             q == [NoRun EXCEPT !.src = "nvd", !.pc = "pages", !.from = cursor["nvd"],
                                !.now = released, !.to = to, !.top = cursor["nvd"]]
  <2>1. /\ cursor["nvd"] \in Nat /\ cursor["nvd"] <= released /\ Window \in Nat
        /\ cursor["nvd"] + Window \in Nat /\ released \in Nat
    BY IngestAssumption DEF InThePast, Sources
  <2>2. to \in Nat /\ to <= released
    BY <2>1, MinOfTwo
  <2>3. q \in RunState /\ q.src = SourceOf(q.pc) /\ q.etag = 0 /\ q.from = cursor["nvd"] /\ q.to = to
        /\ q.now = released /\ q.after[1] = 0 /\ q.top \in {0, cursor["nvd"], cursor["ghsa"]} /\ q.body = [a \in Advisories |-> 0]
    <3> HIDE DEF to
    <3> QED BY <2>1, <2>2 DEF NoRun, RunState, SourceOf, Sources
  <2>4. run' = [run EXCEPT ![r] = q] /\ UNCHANGED <<feed, etag, released, cursor, written>>
    BY <1>2 DEF BeginNvd
  <2> HIDE DEF q, to
  <2> QED BY <1>0, <2>1, <2>2, <2>3, <2>4 DEF InThePast
<1>3. CASE BeginGhsa(r)
  <2> DEFINE q == [NoRun EXCEPT !.src = "ghsa", !.pc = "nodes", !.from = cursor["ghsa"], !.top = cursor["ghsa"]]
  <2>1. cursor["ghsa"] \in Nat /\ cursor["ghsa"] <= released
    BY DEF InThePast, Sources
  <2>2. q \in RunState /\ q.src = SourceOf(q.pc) /\ q.etag = 0 /\ q.from = cursor["ghsa"] /\ q.to = 0
        /\ q.now = 0 /\ q.after[1] = 0 /\ q.top \in {0, cursor["nvd"], cursor["ghsa"]} /\ q.body = [a \in Advisories |-> 0]
    BY <2>1 DEF NoRun, RunState, SourceOf, Sources
  <2>3. run' = [run EXCEPT ![r] = q] /\ UNCHANGED <<feed, etag, released, cursor, written>>
    BY <1>3 DEF BeginGhsa
  <2> HIDE DEF q
  <2> QED BY <1>0, <2>1, <2>2, <2>3 DEF InThePast
<1> QED BY <1>1, <1>2, <1>3 DEF Begins

\* A run that goes on keeps its types when the fields it sets are typed.
LEMMA StepTyped ==
  ASSUME IngestTyped, InThePast, NEW r \in Runners, NEW q \in RunState,
         q.src = SourceOf(q.pc), q.etag <= released, q.from <= released, q.to <= released,
         q.now <= released, q.after[1] <= released, q.top <= released, \A a \in Advisories : q.body[a] <= released,
         run' = [run EXCEPT ![r] = q],
         cursor' \in [Sources -> Nat], \A s \in Sources : cursor'[s] <= released,
         written' \in [Sources -> [Advisories -> Nat]],
         UNCHANGED <<feed, etag, released>>
  PROVE  IngestTyped' /\ InThePast'
<1>1. IngestTyped'
  BY DEF IngestTyped
<1>2. \A p \in Runners : run'[p] = IF p = r THEN q ELSE run[p]
  BY DEF IngestTyped
<1>3. InThePast'
  BY <1>2 DEF InThePast
<1> QED BY <1>1, <1>3

LEMMA UpsertTyped ==
  ASSUME IngestTyped, NEW s \in Sources, NEW batch, NEW bad, NEW version \in [Advisories -> Nat],
         Upsert(s, batch, bad, version)
  PROVE  written' \in [Sources -> [Advisories -> Nat]]
BY DEF IngestTyped, Upsert

LEMMA CursorTyped ==
  ASSUME IngestTyped, InThePast, NEW s \in Sources, NEW value \in Nat, value <= released,
         UpdateCursor(s, value)
  PROVE  cursor' \in [Sources -> Nat] /\ \A s2 \in Sources : cursor'[s2] <= released
BY DEF IngestTyped, InThePast, UpdateCursor

LEMMA IdleStepTyped ==
  ASSUME IngestTyped, InThePast, NEW r \in Runners, run' = [run EXCEPT ![r] = NoRun],
         cursor' \in [Sources -> Nat], \A s \in Sources : cursor'[s] <= released,
         written' \in [Sources -> [Advisories -> Nat]],
         UNCHANGED <<feed, etag, released>>
  PROVE  IngestTyped' /\ InThePast'
<1>1. /\ NoRun \in RunState /\ NoRun.src = SourceOf(NoRun.pc) /\ NoRun.etag = 0 /\ NoRun.from = 0
      /\ NoRun.to = 0 /\ NoRun.now = 0 /\ NoRun.after[1] = 0 /\ NoRun.top = 0
      /\ NoRun.body = [a \in Advisories |-> 0]
  BY NoRunTyped DEF NoRun
<1>2. /\ NoRun.etag <= released /\ NoRun.from <= released /\ NoRun.to <= released
      /\ NoRun.now <= released /\ NoRun.after[1] <= released /\ NoRun.top <= released
      /\ \A a \in Advisories : NoRun.body[a] <= released
  BY <1>1 DEF IngestTyped
<1> QED BY <1>1, <1>2, StepTyped

\* The steps of a run that goes on, by their effect on it.
LEMMA ProceedTyped ==
  ASSUME IngestTyped, InThePast, NEW r \in Runners, NEW bad,
         \/ SkipUnchanged(r) \/ EndOsv(r) \/ \E ok \in BOOLEAN : Download(r, ok)
         \/ \E a \in Advisories, ok \in BOOLEAN : IngestEntry(r, a, ok)
         \/ IngestPage(r, bad) \/ IngestNodes(r, bad) \/ NvdFails(r) \/ GhsaFails(r)
  PROVE  IngestTyped' /\ InThePast'
<1>1. /\ run[r] \in RunState /\ run[r].src = SourceOf(run[r].pc) /\ run[r].etag <= released
      /\ run[r].from <= released /\ run[r].to <= released
      /\ run[r].now <= released /\ run[r].after[1] <= released
      /\ run[r].top <= released
      /\ \A a \in Advisories : run[r].body[a] <= released
      /\ run[r].etag \in Nat /\ run[r].top \in Nat /\ run[r].body \in [Advisories -> Nat]
      /\ cursor \in [Sources -> Nat] /\ \A s \in Sources : cursor[s] <= released
      /\ written \in [Sources -> [Advisories -> Nat]] /\ released \in Nat
      /\ feed \in [Sources -> [Advisories -> Nat]]
      /\ \A s \in Sources, a \in Advisories : feed[s][a] <= released
  BY DEF IngestTyped, InThePast, RunState
<1>2. "osv" \in Sources /\ "nvd" \in Sources /\ "ghsa" \in Sources
  BY DEF Sources
<1>3. ASSUME NEW ok \in BOOLEAN, Download(r, ok)
      PROVE  IngestTyped' /\ InThePast'
  <2> DEFINE q == [run[r] EXCEPT !.pc = "entries", !.body = feed["osv"],
                                 !.todo = {a \in Advisories : feed["osv"][a] # 0}]
  <2>1. run[r].pc = "download" /\ UNCHANGED <<feed, etag, released, written>>
        /\ (UpdateCursor("osv", run[r].etag) \/ UNCHANGED cursor)
        /\ run' = [run EXCEPT ![r] = q]
    BY <1>3, <1>1 DEF Download, IngestTyped
  <2>2. q \in RunState /\ q.src = SourceOf(q.pc) /\ q.etag = run[r].etag /\ q.from = run[r].from
        /\ q.to = run[r].to /\ q.now = run[r].now /\ q.after = run[r].after /\ q.top = run[r].top /\ q.body = feed["osv"]
    BY <1>1, <1>2, <2>1 DEF RunState, SourceOf
  <2> HIDE DEF q
  <2>3. cursor' \in [Sources -> Nat] /\ \A s \in Sources : cursor'[s] <= released
    BY <1>1, <1>2, <2>1, CursorTyped
  <2>4. \A a \in Advisories : q.body[a] <= released
    BY <2>2, <1>1, <1>2
  <2>5. run' = [run EXCEPT ![r] = q] /\ UNCHANGED <<feed, etag, released, written>>
    BY <2>1
  <2> QED BY <1>1, <2>2, <2>3, <2>4, <2>5, StepTyped
<1>4. CASE SkipUnchanged(r) \/ EndOsv(r)
  <2>1. cursor' \in [Sources -> Nat] /\ \A s \in Sources : cursor'[s] <= released
    BY <1>1, <1>2, <1>4, CursorTyped DEF SkipUnchanged, EndOsv
  <2> QED BY <1>1, <1>4, <2>1, IdleStepTyped DEF SkipUnchanged, EndOsv
<1>5. ASSUME NEW a \in Advisories, NEW ok \in BOOLEAN, IngestEntry(r, a, ok)
      PROVE  IngestTyped' /\ InThePast'
  <2> DEFINE q == [run[r] EXCEPT !.todo = @ \ {a}]
             bad2 == IF ok THEN {} ELSE {a}
  <2>1. /\ UNCHANGED <<feed, etag, released, cursor>> /\ run' = [run EXCEPT ![r] = q]
        /\ Upsert("osv", {a}, bad2, run[r].body)
    BY <1>5 DEF IngestEntry, WriteAdvisory
  <2>2. q \in RunState /\ q.src = SourceOf(q.pc) /\ q.etag = run[r].etag /\ q.from = run[r].from
        /\ q.to = run[r].to /\ q.now = run[r].now /\ q.after = run[r].after /\ q.top = run[r].top /\ q.body = run[r].body
    BY <1>1 DEF RunState
  <2>3. written' \in [Sources -> [Advisories -> Nat]]
    <3> HIDE DEF bad2
    <3> QED BY <1>1, <1>2, <2>1, UpsertTyped
  <2> HIDE DEF q
  <2> QED BY <1>1, <2>1, <2>2, <2>3, StepTyped
<1>6. CASE IngestPage(r, bad)
  <2> DEFINE page == PageOf(run[r])
             top == MaxModified(run[r].top, page, feed["nvd"])
  <2>1. /\ UNCHANGED <<feed, etag, released>> /\ run[r].pc = "pages"
        /\ Upsert("nvd", page, bad, feed["nvd"])
    BY <1>6 DEF IngestPage, WriteMetadata
  <2>2. written' \in [Sources -> [Advisories -> Nat]]
    BY <1>1, <1>2, <2>1, UpsertTyped
  <2>3. page \in SUBSET Advisories /\ top \in Nat /\ top <= released
    <3>1. page \in SUBSET Advisories
      BY DEF PageOf, Unread, Results
    <3> HIDE DEF page
    <3> QED BY <3>1, <1>1, <1>2, MaxModifiedBounds
  <2>4. \/ NextWindow(r, top)
        \/ /\ run' = [run EXCEPT ![r].index = @ + Cardinality(page), ![r].top = top]
           /\ UNCHANGED cursor
    BY <1>6 DEF IngestPage
  <2> HIDE DEF top
  <2>5. CASE NextWindow(r, top) /\ run[r].to < run[r].now
    <3> DEFINE to == Min({run[r].to + Window, run[r].now})
               q == [run[r] EXCEPT !.from = run[r].to, !.index = 0, !.top = top, !.to = to]
    <3>1. run[r].to \in Nat /\ run[r].to + Window \in Nat /\ run[r].now \in Nat
      BY <1>1, IngestAssumption DEF RunState
    <3>2. to \in Nat /\ to <= released
      <4>1. to \in Nat /\ to <= run[r].now
        BY <3>1, MinOfTwo
      <4> QED BY <4>1, <3>1, <1>1
    <3>3. run' = [run EXCEPT ![r] = q] /\ UNCHANGED cursor
      BY <2>5 DEF NextWindow
    <3> HIDE DEF to
    <3>4. q \in RunState /\ q.src = SourceOf(q.pc) /\ q.etag = run[r].etag /\ q.from = run[r].to
        /\ q.to = to /\ q.now = run[r].now /\ q.after = run[r].after /\ q.top = top /\ q.body = run[r].body
      BY <1>1, <3>2, <2>3 DEF RunState
    <3> HIDE DEF q
    <3> QED BY <1>1, <2>1, <2>2, <2>3, <3>2, <3>3, <3>4, StepTyped
  <2>6. CASE NextWindow(r, top) /\ ~(run[r].to < run[r].now)
    <3>1. run' = [run EXCEPT ![r] = NoRun] /\ UpdateCursor("nvd", top)
      BY <2>6 DEF NextWindow
    <3>2. cursor' \in [Sources -> Nat] /\ \A s \in Sources : cursor'[s] <= released
      BY <1>1, <1>2, <2>3, <3>1, CursorTyped
    <3> QED BY <2>1, <2>2, <3>1, <3>2, IdleStepTyped
  <2>7. CASE run' = [run EXCEPT ![r].index = @ + Cardinality(page), ![r].top = top] /\ UNCHANGED cursor
    <3> DEFINE q == [run[r] EXCEPT !.index = @ + Cardinality(page), !.top = top]
    <3>1. run' = [run EXCEPT ![r] = q]
      BY <2>7
    <3>2. run[r].index + Cardinality(page) \in Nat
      <4>1. IsFiniteSet(page) /\ Cardinality(page) \in Nat
        BY <2>3, IngestAssumption, FS_Subset, FS_CardinalityType
      <4> QED BY <4>1, <1>1 DEF RunState
    <3> HIDE DEF page
    <3>3. q \in RunState /\ q.src = SourceOf(q.pc) /\ q.etag = run[r].etag /\ q.from = run[r].from
        /\ q.to = run[r].to /\ q.now = run[r].now /\ q.after = run[r].after /\ q.top = top /\ q.body = run[r].body
      BY <1>1, <3>2, <2>3 DEF RunState
    <3> HIDE DEF q
    <3> QED BY <1>1, <2>1, <2>2, <2>3, <2>7, <3>1, <3>3, StepTyped
  <2> QED BY <2>4, <2>5, <2>6, <2>7
<1>7. CASE IngestNodes(r, bad)
  <2> DEFINE page == Nodes(run[r])
             top == MaxModified(run[r].top, page, feed["ghsa"])
  <2>1. /\ UNCHANGED <<feed, etag, released>> /\ run[r].pc = "nodes"
        /\ Upsert("ghsa", page, bad, feed["ghsa"])
    BY <1>7 DEF IngestNodes, WriteAdvisory
  <2>2. written' \in [Sources -> [Advisories -> Nat]]
    BY <1>1, <1>2, <2>1, UpsertTyped
  <2>3. page \in SUBSET Advisories /\ top \in Nat /\ top <= released
    <3>1. page \in SUBSET Advisories
      BY DEF Nodes, Later
    <3> HIDE DEF page
    <3> QED BY <3>1, <1>1, <1>2, MaxModifiedBounds
  <2>4. \/ run' = [run EXCEPT ![r] = NoRun] /\ UpdateCursor("ghsa", top)
        \/ /\ \E a \in page : run' = [run EXCEPT ![r].after = Place(a), ![r].top = top]
           /\ UNCHANGED cursor
    BY <1>7 DEF IngestNodes
  <2> HIDE DEF top, page
  <2>5. CASE run' = [run EXCEPT ![r] = NoRun] /\ UpdateCursor("ghsa", top)
    <3>1. cursor' \in [Sources -> Nat] /\ \A s \in Sources : cursor'[s] <= released
      BY <1>1, <1>2, <2>3, <2>5, CursorTyped
    <3> QED BY <2>1, <2>2, <2>5, <3>1, IdleStepTyped
  <2>6. ASSUME NEW a \in page, run' = [run EXCEPT ![r].after = Place(a), ![r].top = top], UNCHANGED cursor
        PROVE  IngestTyped' /\ InThePast'
    <3> DEFINE q == [run[r] EXCEPT !.after = Place(a), !.top = top]
    <3>1. run' = [run EXCEPT ![r] = q]
      BY <2>6
    <3>2. Place(a) \in Nat \X Nat /\ Place(a)[1] <= released
      BY <2>3, <1>1, <1>2, IngestAssumption DEF Place
    <3>3. q \in RunState /\ q.src = SourceOf(q.pc) /\ q.etag = run[r].etag /\ q.from = run[r].from
        /\ q.to = run[r].to /\ q.now = run[r].now /\ q.after = Place(a) /\ q.top = top /\ q.body = run[r].body
      BY <1>1, <3>2, <2>3 DEF RunState
    <3> HIDE DEF q
    <3> QED BY <1>1, <2>1, <2>2, <2>3, <2>6, <3>1, <3>2, <3>3, StepTyped
  <2> QED BY <2>4, <2>5, <2>6
<1>8. CASE NvdFails(r)
  <2>1. cursor' \in [Sources -> Nat] /\ \A s \in Sources : cursor'[s] <= released
    BY <1>1, <1>2, <1>8, CursorTyped DEF NvdFails
  <2> QED BY <1>1, <1>8, <2>1, IdleStepTyped DEF NvdFails
<1>9. CASE GhsaFails(r)
  <2>1. cursor' \in [Sources -> Nat] /\ \A s \in Sources : cursor'[s] <= released
    BY <1>1, <1>2, <1>9, CursorTyped DEF GhsaFails
  <2> QED BY <1>1, <1>9, <2>1, IdleStepTyped DEF GhsaFails
<1> QED BY <1>3, <1>4, <1>5, <1>6, <1>7, <1>8, <1>9

LEMMA StopTyped ==
  ASSUME IngestTyped, InThePast, NEW S, Stop(S)
  PROVE  IngestTyped' /\ InThePast'
<1>1. /\ run' = [p \in Runners |-> IF p \in S THEN NoRun ELSE run[p]]
      /\ UNCHANGED <<feed, etag, released, cursor, written>>
  BY DEF Stop
<1>2. /\ NoRun \in RunState /\ NoRun.src = SourceOf(NoRun.pc) /\ NoRun.etag = 0 /\ NoRun.from = 0
      /\ NoRun.to = 0 /\ NoRun.now = 0 /\ NoRun.after[1] = 0 /\ NoRun.top = 0
      /\ \A a \in Advisories : NoRun.body[a] = 0
  BY NoRunTyped DEF NoRun
<1>3. IngestTyped'
  BY <1>1, <1>2 DEF IngestTyped
<1>4. \A p \in Runners : run'[p] = NoRun \/ run'[p] = run[p]
  BY <1>1
<1>5. InThePast'
  BY <1>1, <1>2, <1>4 DEF InThePast, IngestTyped
<1> QED BY <1>3, <1>5

\* What a feed has after a change.
LEMMA PublishFeed ==
  ASSUME IngestTyped, NEW s \in Sources, NEW A \in SUBSET Advisories, NEW gone \in BOOLEAN,
         Publish(s, A, gone)
  PROVE  /\ feed' \in [Sources -> [Advisories -> Nat]]
         /\ \A s2 \in Sources, a \in Advisories :
               \/ feed'[s2][a] = feed[s2][a] /\ (s2 = s => a \notin A)
               \/ s2 = s /\ a \in A /\ feed'[s2][a] \in {0, released + 1}
         /\ released' = released + 1 /\ etag' = (IF s = "osv" THEN released + 1 ELSE etag)
         /\ \A s2 \in Sources : s2 # s => feed'[s2] = feed[s2]
         /\ missed \subseteq missed'
         /\ UNCHANGED <<cursor, written, run>>
BY DEF Publish, IngestTyped

LEMMA PublishTyped ==
  ASSUME IngestTyped, InThePast, NEW s \in Sources, NEW A \in SUBSET Advisories,
         NEW gone \in BOOLEAN, Publish(s, A, gone)
  PROVE  IngestTyped' /\ InThePast'
<1>1. released' = released + 1 /\ released \in Nat /\ UNCHANGED <<cursor, written, run>>
      /\ etag' \in {etag, released + 1}
  BY PublishFeed DEF IngestTyped
<1> DEFINE new == feed'
<1>2. /\ new \in [Sources -> [Advisories -> Nat]]
      /\ \A s2 \in Sources, a \in Advisories : new[s2][a] \in {feed[s2][a], 0, released + 1}
  BY PublishFeed
<1>3. IngestTyped'
  BY <1>1, <1>2 DEF IngestTyped
<1>6. \A s2 \in Sources, a \in Advisories : new[s2][a] <= released + 1
  <2> HIDE DEF new
  <2>1. \A s2 \in Sources, a \in Advisories : feed[s2][a] \in Nat /\ feed[s2][a] <= released
    BY DEF InThePast, IngestTyped
  <2> QED BY <1>1, <1>2, <2>1
<1>4. /\ etag \in Nat /\ cursor \in [Sources -> Nat]
      /\ \A p \in Runners : /\ run[p].etag \in Nat /\ run[p].from \in Nat /\ run[p].to \in Nat
                            /\ run[p].now \in Nat /\ run[p].after[1] \in Nat /\ run[p].top \in Nat
                            /\ run[p].body \in [Advisories -> Nat]
  BY DEF IngestTyped, RunState
<1>5. InThePast'
  BY <1>1, <1>4, <1>6 DEF InThePast
<1> QED BY <1>3, <1>5

----------------------------------------------------------------------------
(* What a write, or a change of another feed, does to what is taken in. *)

LEMMA UpsertTakes ==
  ASSUME IngestTyped, NEW s \in Sources, NEW batch \in SUBSET Advisories, NEW bad \in SUBSET batch,
         NEW version \in [Advisories -> Nat], Upsert(s, batch, bad, version), UNCHANGED feed
  PROVE  /\ \A s2 \in Sources, a \in Advisories :
               (s2 # s \/ a \notin batch) /\ TakenIn(s2, a) => TakenIn(s2, a)'
         /\ \A a \in batch : version[a] = feed[s][a] => TakenIn(s, a)'
         /\ \A a \in batch : version[a] < feed[s][a] /\ TakenIn(s, a) => TakenIn(s, a)'
<1> DEFINE older == {a \in batch \ bad : version[a] < written[s][a]}
<1>1. /\ \A s2 \in Sources, a \in Advisories :
            written'[s2][a] = IF s2 = s /\ a \in batch \ bad THEN version[a] ELSE written[s2][a]
      /\ missed' = (missed \ Texts(s, batch, version))
                       \cup Texts(s, bad, version) \cup Texts(s, older, written[s])
  BY DEF Upsert, IngestTyped
<1>2. ASSUME NEW s2 \in Sources, NEW a \in Advisories, s2 # s \/ a \notin batch, TakenIn(s2, a)
      PROVE  TakenIn(s2, a)'
  <2>1. <<s2, a, feed[s2][a]>> \notin Texts(s, batch, version)
    BY <1>2 DEF Texts
  <2> QED BY <1>1, <1>2, <2>1 DEF TakenIn
<1>3. ASSUME NEW a \in batch, version[a] = feed[s][a]
      PROVE  TakenIn(s, a)'
  <2>1. a \in bad => <<s, a, feed[s][a]>> \in Texts(s, bad, version)
    BY <1>3 DEF Texts
  <2> QED BY <1>1, <1>3, <2>1 DEF TakenIn
<1>4. ASSUME NEW a \in batch, version[a] < feed[s][a], TakenIn(s, a)
      PROVE  TakenIn(s, a)'
  <2>1. feed[s][a] \in Nat /\ version[a] \in Nat /\ feed[s][a] # version[a] /\ feed[s][a] # 0
    BY <1>4 DEF IngestTyped
  <2>2. <<s, a, feed[s][a]>> \notin Texts(s, batch, version)
    BY <2>1 DEF Texts
  <2>3. CASE <<s, a, feed[s][a]>> \in missed
    BY <1>1, <2>2, <2>3 DEF TakenIn
  <2>4. CASE written[s][a] = feed[s][a] /\ a \in bad
    BY <1>1, <2>4 DEF TakenIn
  <2>5. CASE written[s][a] = feed[s][a] /\ a \notin bad
    <3>1. a \in older
      BY <1>4, <2>5
    <3>2. <<s, a, feed[s][a]>> \in Texts(s, older, written[s])
      BY <3>1, <2>5 DEF Texts
    <3> QED BY <1>1, <3>2 DEF TakenIn
  <2> QED BY <1>4, <2>1, <2>3, <2>4, <2>5 DEF TakenIn
<1> QED BY <1>2, <1>3, <1>4

\* A page of what the feed has now takes in the page and loses nothing.
LEMMA PageTakes ==
  ASSUME IngestTyped, NEW s \in Sources, NEW batch \in SUBSET Advisories, NEW bad \in SUBSET batch,
         Upsert(s, batch, bad, feed[s]), UNCHANGED feed
  PROVE  /\ \A s2 \in Sources, a \in Advisories : TakenIn(s2, a) => TakenIn(s2, a)'
         /\ \A a \in batch : TakenIn(s, a)'
<1>1. feed[s] \in [Advisories -> Nat]
  BY DEF IngestTyped
<1>2. /\ \A s2 \in Sources, a \in Advisories :
            (s2 # s \/ a \notin batch) /\ TakenIn(s2, a) => TakenIn(s2, a)'
      /\ \A a \in batch : TakenIn(s, a)'
  BY <1>1, UpsertTakes
<1> QED BY <1>2

LEMMA KeptTaken ==
  ASSUME NEW s \in Sources, NEW a \in Advisories, TakenIn(s, a), feed'[s][a] \in {feed[s][a], 0},
         UNCHANGED written, missed \subseteq missed'
  PROVE  TakenIn(s, a)'
BY DEF TakenIn

\* Steps that leave a feed, its cursor and its runs alone.
LEMMA NvdFrame ==
  ASSUME IngestTyped, NvdInv, UNCHANGED <<feed, released>>, cursor'["nvd"] = cursor["nvd"],
         \A a \in Advisories : TakenIn("nvd", a) => TakenIn("nvd", a)',
         \A r \in Runners : run'[r].pc = "pages" => run'[r] = run[r]
  PROVE  NvdInv'
<1>1. ASSUME NEW r \in Runners, run'[r].pc = "pages"
      PROVE  NvdRead(run[r])'
  <2>1. run'[r] = run[r] /\ NvdRead(run[r])
    BY <1>1 DEF NvdInv
  <2> QED BY <2>1 DEF NvdRead, Unread, Results, Rank
<1> QED BY <1>1 DEF NvdInv

LEMMA GhsaFrame ==
  ASSUME IngestTyped, GhsaInv, UNCHANGED <<feed, released>>, cursor'["ghsa"] = cursor["ghsa"],
         \A a \in Advisories : TakenIn("ghsa", a) => TakenIn("ghsa", a)',
         \A r \in Runners : run'[r].pc = "nodes" => run'[r] = run[r]
  PROVE  GhsaInv'
<1>1. ASSUME NEW r \in Runners, run'[r].pc = "nodes"
      PROVE  GhsaRead(run[r])'
  <2>1. run'[r] = run[r] /\ GhsaRead(run[r])
    BY <1>1 DEF GhsaInv
  <2> QED BY <2>1 DEF GhsaRead, Earlier, Place
<1> QED BY <1>1 DEF GhsaInv

LEMMA OsvFrame ==
  ASSUME IngestTyped, OsvInv, UNCHANGED <<feed, etag>>, cursor'["osv"] = cursor["osv"],
         \A a \in Advisories : TakenIn("osv", a) => TakenIn("osv", a)',
         \A r \in Runners : run'[r].pc = "entries" <=> run[r].pc = "entries",
         \A r \in Runners : run'[r].pc = "entries" => run'[r] = run[r],
         \A r \in Runners : run'[r].pc = "skip" => run'[r] = run[r] \/ cursor["osv"] = etag
  PROVE  OsvInv'
<1>1. ASSUME NEW r \in Runners, run'[r].pc = "entries"
      PROVE  OsvRead(run[r])'
  <2>1. run'[r] = run[r] /\ OsvRead(run[r])
    BY <1>1 DEF OsvInv
  <2> QED BY <2>1 DEF OsvRead
<1>2. EtagKnown' => EtagKnown
  BY DEF EtagKnown
<1>3. \A r \in Runners, a \in Advisories : OwedBy(run[r], a) => OwedBy(run[r], a)'
  BY DEF OwedBy
<1> QED BY <1>1, <1>2, <1>3 DEF OsvInv

----------------------------------------------------------------------------
(* NVD *)

LEMMA RankType ==
  ASSUME NEW W \in SUBSET Advisories, NEW a \in Advisories
  PROVE  Rank(a, W) \in Nat
<1>1. {b \in W : b < a} \in SUBSET Advisories
  OBVIOUS
<1>2. IsFiniteSet({b \in W : b < a})
  BY <1>1, IngestAssumption, FS_Subset
<1> QED BY <1>2, FS_CardinalityType DEF Rank

\* Two advisories have different places in a list.
LEMMA RankGrows ==
  ASSUME NEW W \in SUBSET Advisories, NEW a \in W, NEW b \in W, a < b
  PROVE  Rank(a, W) < Rank(b, W)
<1> DEFINE P == {c \in W : c < a}
           Q == {c \in W : c < b}
<1>1. P \in SUBSET Q /\ a \in Q /\ a \notin P
  <2>1. a \in Nat /\ b \in Nat /\ \A c \in W : c \in Nat
    BY IngestAssumption
  <2>2. (\A c \in W : c < a => c < b) /\ ~(a < a)
    BY <2>1
  <2> QED BY <2>2
<1>2. IsFiniteSet(Q)
  <2>1. Q \in SUBSET Advisories
    OBVIOUS
  <2> QED BY <2>1, IngestAssumption, FS_Subset
<1>3. Cardinality(P) <= Cardinality(Q) /\ Cardinality(P) # Cardinality(Q)
  BY <1>1, <1>2, FS_Subset
<1>4. Cardinality(P) \in Nat /\ Cardinality(Q) \in Nat
  BY RankType DEF Rank
<1> QED BY <1>3, <1>4 DEF Rank

\* A page has no more than PageSize advisories: the next index is not past the
\* first that was not read.
LEMMA PageFits ==
  ASSUME IngestTyped, NEW q \in RunState
  PROVE  Cardinality(PageOf(q)) \in Nat /\ Cardinality(PageOf(q)) <= PageSize
<1> DEFINE W == Results(q, feed["nvd"])
           page == PageOf(q)
           places == q.index..(q.index + PageSize - 1)
           f == [a \in page |-> Rank(a, W)]
<1>1. W \in SUBSET Advisories /\ page \in SUBSET W
  BY DEF PageOf, Unread, Results
<1>2. q.index \in Nat /\ PageSize \in Nat \ {0}
  BY IngestAssumption DEF RunState
<1>3. \A a \in page : Rank(a, W) \in Nat /\ Rank(a, W) >= q.index /\ Rank(a, W) < q.index + PageSize
  <2> TAKE a \in page
  <2>1. Rank(a, W) \in Nat
    BY <1>1, RankType
  <2> QED BY <2>1 DEF PageOf, Unread
<1>4. \A a \in page : Rank(a, W) \in places
  <2> HIDE DEF W, page
  <2> QED BY <1>2, <1>3
<1>5. f \in Injection(page, places)
  <2>1. f \in [page -> places]
    <3> HIDE DEF page, W, places
    <3> QED BY <1>4
  <2>2. ASSUME NEW a \in page, NEW b \in page, f[a] = f[b]
        PROVE  a = b
    <3>1. Rank(a, W) = Rank(b, W) /\ Rank(a, W) \in Nat /\ a \in W /\ b \in W /\ a \in Nat /\ b \in Nat
      BY <1>1, <1>3, <2>2, IngestAssumption
    <3>2. ~(a < b) /\ ~(b < a)
      <4> HIDE DEF W, page
      <4> QED BY <1>1, <3>1, RankGrows
    <3> QED BY <3>1, <3>2
  <2> HIDE DEF f, page, places
  <2>3. DOMAIN f = page
    BY <2>1
  <2> QED BY <2>1, <2>2, <2>3 DEF Injection, IsInjective
<1>6. IsFiniteSet(places) /\ Cardinality(places) = PageSize
  <2>1. q.index \in Int /\ q.index + PageSize - 1 \in Int /\ ~(q.index > q.index + PageSize - 1)
        /\ (q.index + PageSize - 1) - q.index + 1 = PageSize
    BY <1>2
  <2> QED BY <2>1, FS_Interval
<1>7. IsFiniteSet(page) /\ Cardinality(page) <= Cardinality(places)
  <2> HIDE DEF f, page, places
  <2> QED BY <1>5, <1>6, FS_Injection
<1> QED BY <1>6, <1>7, FS_CardinalityType

LEMMA NvdStep ==
  ASSUME IngestTyped, NvdInv, UNCHANGED feed, NEW r \in Runners,
         \A a \in Advisories : TakenIn("nvd", a) => TakenIn("nvd", a)',
         \A p \in Runners : p # r => run'[p] = run[p],
         run'[r].pc = "pages" => NvdRead(run[r])',
         \A a \in Advisories : feed["nvd"][a] < cursor'["nvd"] => TakenIn("nvd", a)'
  PROVE  NvdInv'
<1>1. ASSUME NEW p \in Runners, p # r, run'[p].pc = "pages"
      PROVE  NvdRead(run[p])'
  <2>1. run'[p] = run[p] /\ NvdRead(run[p])
    BY <1>1 DEF NvdInv
  <2> QED BY <2>1 DEF NvdRead, Unread, Results, Rank
<1> QED BY <1>1 DEF NvdInv

LEMMA BeginNvdKeeps ==
  ASSUME IngestTyped, InThePast, NvdInv, NEW r \in Runners, BeginNvd(r)
  PROVE  NvdInv'
<1> DEFINE from == cursor["nvd"]
           to == Min({from + Window, released})
<1>1. /\ UNCHANGED <<feed, released, cursor, written, missed>>
      /\ run' = [run EXCEPT ![r] = [NoRun EXCEPT !.src = "nvd", !.pc = "pages", !.from = from,
                                       !.now = released, !.to = to, !.top = from]]
  BY DEF BeginNvd
<1>2. from \in Nat /\ released \in Nat /\ Window \in Nat /\ from + Window \in Nat /\ from <= released
  BY IngestAssumption DEF IngestTyped, InThePast, Sources
<1>3. to \in Nat /\ from <= to /\ to <= released
  <2>1. to \in Nat /\ to <= released /\ (to = from + Window \/ to = released)
    BY <1>2, MinOfTwo
  <2> QED BY <1>2, <2>1
<1> HIDE DEF from, to
<1>4. /\ \A p \in Runners : p # r => run'[p] = run[p]
      /\ run'[r].from = from /\ run'[r].to = to /\ run'[r].now = released /\ run'[r].top = from
      /\ run'[r].index = 0
  BY <1>1 DEF IngestTyped, NoRun
<1>5. \A a \in Advisories : TakenIn("nvd", a) => TakenIn("nvd", a)'
  BY <1>1 DEF TakenIn
<1>6. ASSUME NEW a \in Advisories, feed["nvd"][a] <= to, ~TakenIn("nvd", a)
      PROVE  a \in Unread(run[r], feed["nvd"])'
  <2> DEFINE W == {b \in Advisories : feed["nvd"][b] # 0 /\ feed["nvd"][b] \in from..to}
  <2>1. feed["nvd"][a] \in Nat /\ feed["nvd"][a] # 0
    BY <1>6 DEF TakenIn, IngestTyped, Sources
  <2>2. ~(feed["nvd"][a] < from)
    BY <1>6 DEF NvdInv, from
  <2>3. a \in W
    BY <1>2, <1>3, <1>6, <2>1, <2>2
  <2>4. Results(run[r], feed["nvd"])' = W
    BY <1>1, <1>4 DEF Results
  <2>5. Rank(a, W) \in Nat
    BY RankType
  <2>6. Rank(a, W) >= 0
    BY <2>5
  <2>7. Unread(run[r], feed["nvd"])' = {b \in W : Rank(b, W) >= 0}
    <3> HIDE DEF W
    <3> QED BY <1>1, <1>4, <2>4 DEF Unread, Rank
  <2> QED BY <2>3, <2>6, <2>7
<1>7. NvdRead(run[r])'
  BY <1>1, <1>2, <1>3, <1>4, <1>5, <1>6 DEF NvdRead
<1>8. \A a \in Advisories : feed["nvd"][a] < cursor'["nvd"] => TakenIn("nvd", a)'
  BY <1>1, <1>5 DEF NvdInv
<1> QED BY <1>1, <1>4, <1>5, <1>7, <1>8, NvdStep

LEMMA IngestPageKeeps ==
  ASSUME IngestTyped, InThePast, NvdInv, NEW r \in Runners, NEW bad, IngestPage(r, bad)
  PROVE  /\ NvdInv'
         /\ \A s \in Sources, a \in Advisories : TakenIn(s, a) => TakenIn(s, a)'
<1>1. PICK q \in RunState : q = run[r]
  BY DEF IngestTyped
<1> DEFINE page == PageOf(q)
           W == Results(q, feed["nvd"])
           unread == Unread(q, feed["nvd"])
           top == MaxModified(q.top, page, feed["nvd"])
<1>2. /\ UNCHANGED <<feed, released>> /\ q.pc = "pages" /\ bad \in SUBSET page
      /\ Upsert("nvd", page, bad, feed["nvd"])
  BY <1>1 DEF IngestPage, WriteMetadata
<1>3. page \in SUBSET unread /\ unread \in SUBSET W /\ W \in SUBSET Advisories
  BY DEF PageOf, Unread, Results
<1>4. /\ \A s \in Sources, a \in Advisories : TakenIn(s, a) => TakenIn(s, a)'
      /\ \A a \in page : TakenIn("nvd", a)'
  <2>1. "nvd" \in Sources /\ page \in SUBSET Advisories
    BY <1>3 DEF Sources
  <2> HIDE DEF page
  <2> QED BY <1>2, <2>1, PageTakes
<1>5. /\ q.from \in Nat /\ q.to \in Nat /\ q.now \in Nat /\ q.top \in Nat /\ q.index \in Nat
      /\ feed["nvd"] \in [Advisories -> Nat] /\ Window \in Nat \ {0}
      /\ q.from <= q.to /\ q.to <= q.now /\ q.top <= q.to
  BY <1>1, <1>2, IngestAssumption DEF IngestTyped, RunState, Sources, NvdInv, NvdRead
<1>6. \A a \in Advisories : feed["nvd"][a] <= q.to => TakenIn("nvd", a) \/ a \in unread
  BY <1>1, <1>2 DEF NvdInv, NvdRead
<1>7. top \in Nat /\ top <= q.to
  <2>1. \A a \in page : feed["nvd"][a] <= q.to
    <3>1. \A a \in W : feed["nvd"][a] \in q.from..q.to
      BY DEF Results
    <3> QED BY <1>3, <1>5, <3>1
  <2>2. page \in SUBSET Advisories
    BY <1>3
  <2> HIDE DEF page
  <2> QED BY <1>5, <2>1, <2>2, MaxModifiedBounds
<1>8. CASE page = unread
  <2>1. NextWindow(r, top)
    BY <1>1, <1>8 DEF IngestPage
  <2>2. \A a \in Advisories : feed["nvd"][a] <= q.to => TakenIn("nvd", a)'
    BY <1>4, <1>6, <1>8 DEF Sources
  <2> HIDE DEF top, page, unread
  <2>3. CASE q.to < q.now
    <3> DEFINE to == Min({q.to + Window, q.now})
    <3>1. to \in Nat /\ q.to <= to /\ to <= q.now
      <4>1. q.to + Window \in Nat
        BY <1>5
      <4>2. to \in Nat /\ to <= q.now /\ (to = q.to + Window \/ to = q.now)
        BY <1>5, <4>1, MinOfTwo
      <4> QED BY <1>5, <2>3, <4>2
    <3>2. /\ run' = [run EXCEPT ![r] = [q EXCEPT !.from = q.to, !.index = 0, !.top = top, !.to = to]]
          /\ UNCHANGED cursor
      BY <1>1, <2>1, <2>3 DEF NextWindow
    <3> HIDE DEF to
    <3>3. /\ \A p \in Runners : p # r => run'[p] = run[p]
          /\ run'[r].from = q.to /\ run'[r].to = to /\ run'[r].now = q.now /\ run'[r].top = top
          /\ run'[r].index = 0
      BY <3>2 DEF IngestTyped, RunState
    <3>4. ASSUME NEW a \in Advisories, feed["nvd"][a] <= to, ~TakenIn("nvd", a)'
          PROVE  a \in Unread(run[r], feed["nvd"])'
      <4> DEFINE V == {b \in Advisories : feed["nvd"][b] # 0 /\ feed["nvd"][b] \in q.to..to}
      <4>1. feed["nvd"][a] \in Nat /\ feed["nvd"][a] # 0
        BY <1>2, <1>5, <3>4 DEF TakenIn
      <4>2. ~(feed["nvd"][a] <= q.to)
        BY <2>2, <3>4
      <4>3. a \in V
        BY <1>5, <3>1, <3>4, <4>1, <4>2
      <4>4. Results(run[r], feed["nvd"])' = V
        BY <1>2, <3>3 DEF Results
      <4>5. Rank(a, V) \in Nat
        BY RankType
      <4>6. Rank(a, V) >= 0
        BY <4>5
      <4>7. Unread(run[r], feed["nvd"])' = {b \in V : Rank(b, V) >= 0}
        <5> HIDE DEF V
        <5> QED BY <1>2, <3>3, <4>4 DEF Unread, Rank
      <4> QED BY <4>3, <4>6, <4>7
    <3>5. NvdRead(run[r])'
      <4>1. top <= to
        BY <1>5, <1>7, <3>1
      <4> QED BY <1>2, <3>1, <3>3, <3>4, <4>1 DEF NvdRead
    <3>6. \A a \in Advisories : feed["nvd"][a] < cursor'["nvd"] => TakenIn("nvd", a)'
      BY <1>4, <3>2 DEF NvdInv, Sources
    <3> QED BY <1>2, <1>4, <3>3, <3>5, <3>6, NvdStep DEF Sources
  <2>4. CASE ~(q.to < q.now)
    <3>1. run' = [run EXCEPT ![r] = NoRun] /\ cursor'["nvd"] = top
      BY <1>1, <2>1, <2>4 DEF NextWindow, UpdateCursor, IngestTyped, Sources
    <3>2. (\A p \in Runners : p # r => run'[p] = run[p]) /\ run'[r].pc # "pages"
      BY <3>1, NoRunTyped DEF IngestTyped
    <3>3. \A a \in Advisories : feed["nvd"][a] < cursor'["nvd"] => TakenIn("nvd", a)'
      BY <1>5, <1>7, <2>2, <3>1
    <3> QED BY <1>2, <1>4, <3>2, <3>3, NvdStep DEF Sources
  <2> QED BY <2>3, <2>4
<1>9. CASE page # unread
  <2> DEFINE n == Cardinality(page)
  <2>1. /\ run' = [run EXCEPT ![r] = [q EXCEPT !.index = q.index + n, !.top = top]]
        /\ UNCHANGED cursor
    BY <1>1, <1>9 DEF IngestPage
  <2>2. n \in Nat /\ n <= PageSize /\ PageSize \in Nat
    BY PageFits, IngestAssumption
  <2> HIDE DEF n, top
  <2>3. /\ \A p \in Runners : p # r => run'[p] = run[p]
        /\ run'[r].from = q.from /\ run'[r].to = q.to /\ run'[r].now = q.now /\ run'[r].top = top
        /\ run'[r].index = q.index + n
    BY <2>1 DEF IngestTyped, RunState
  <2>4. Unread(run[r], feed["nvd"])' = {a \in W : Rank(a, W) >= q.index + n}
    BY <1>2, <2>3 DEF Unread, Results, Rank
  <2>5. \A a \in unread \ page : a \in Unread(run[r], feed["nvd"])'
    <3> SUFFICES ASSUME NEW a \in unread, a \notin page PROVE Rank(a, W) >= q.index + n
      BY <1>3, <2>4
    <3>1. ~(Rank(a, W) < q.index + PageSize)
      BY DEF PageOf
    <3>2. Rank(a, W) \in Nat
      BY <1>3, RankType
    <3> HIDE DEF W
    <3> QED BY <1>5, <2>2, <3>1, <3>2
  <2>6. NvdRead(run[r])'
    <3>1. \A a \in Advisories : feed["nvd"][a] <= q.to => TakenIn("nvd", a)' \/ a \in Unread(run[r], feed["nvd"])'
      BY <1>4, <1>6, <2>5 DEF Sources
    <3> QED BY <1>2, <1>5, <1>7, <2>3, <3>1 DEF NvdRead
  <2>7. \A a \in Advisories : feed["nvd"][a] < cursor'["nvd"] => TakenIn("nvd", a)'
    BY <1>4, <2>1 DEF NvdInv, Sources
  <2> QED BY <1>2, <1>4, <2>3, <2>6, <2>7, NvdStep DEF Sources
<1> QED BY <1>4, <1>8, <1>9

LEMMA NvdFailsKeeps ==
  ASSUME IngestTyped, InThePast, NvdInv, NEW r \in Runners, NvdFails(r)
  PROVE  NvdInv'
<1>1. PICK q \in RunState : q = run[r]
  BY DEF IngestTyped
<1> DEFINE unread == Unread(q, feed["nvd"])
<1>2. /\ UNCHANGED <<feed, released, written>> /\ q.pc = "pages"
      /\ run' = [run EXCEPT ![r] = NoRun] /\ cursor'["nvd"] = q.top
      /\ missed' = missed \cup Texts("nvd", unread, feed["nvd"])
  BY <1>1 DEF NvdFails, UpdateCursor, IngestTyped, Sources
<1>3. /\ q.to \in Nat /\ q.top \in Nat /\ feed["nvd"] \in [Advisories -> Nat] /\ q.top <= q.to
      /\ \A a \in Advisories : feed["nvd"][a] <= q.to => TakenIn("nvd", a) \/ a \in unread
  BY <1>1, <1>2 DEF IngestTyped, RunState, Sources, NvdInv, NvdRead
<1>4. \A a \in Advisories : TakenIn("nvd", a) => TakenIn("nvd", a)'
  BY <1>2 DEF TakenIn
<1>5. \A a \in unread : TakenIn("nvd", a)'
  BY <1>2 DEF TakenIn, Texts
<1>6. \A a \in Advisories : feed["nvd"][a] < cursor'["nvd"] => TakenIn("nvd", a)'
  <2> HIDE DEF unread
  <2> QED BY <1>2, <1>3, <1>4, <1>5
<1>7. (\A p \in Runners : p # r => run'[p] = run[p]) /\ run'[r].pc # "pages"
  BY <1>2, NoRunTyped DEF IngestTyped
<1> QED BY <1>2, <1>4, <1>6, <1>7, NvdStep

LEMMA PublishKeepsNvd ==
  ASSUME IngestTyped, InThePast, NvdInv, NEW s \in Sources, NEW A \in SUBSET Advisories,
         NEW gone \in BOOLEAN, Publish(s, A, gone)
  PROVE  NvdInv'
<1>0. "nvd" \in Sources /\ released \in Nat
  BY DEF Sources, IngestTyped
<1>1. PICK new \in [Advisories -> Nat] : new = feed'["nvd"]
  BY <1>0, PublishFeed
<1>2. /\ UNCHANGED <<cursor, written, run>> /\ missed \subseteq missed'
      /\ \A a \in Advisories : \/ new[a] = feed["nvd"][a]
                               \/ a \in A /\ new[a] \in {0, released + 1}
  BY <1>0, <1>1, PublishFeed
<1>3. \A a \in Advisories : new[a] = feed["nvd"][a] /\ TakenIn("nvd", a) => TakenIn("nvd", a)'
  BY <1>1, <1>2 DEF TakenIn
<1>4. \A a \in Advisories : new[a] = 0 => TakenIn("nvd", a)'
  BY <1>1 DEF TakenIn
<1>5. cursor["nvd"] \in Nat /\ cursor["nvd"] <= released
  BY <1>0 DEF IngestTyped, InThePast
<1>6. ASSUME NEW a \in Advisories, new[a] < cursor["nvd"]
      PROVE  TakenIn("nvd", a)'
  <2>1. new[a] # released + 1
    BY <1>0, <1>5, <1>6
  <2> QED BY <1>2, <1>3, <1>4, <1>6, <2>1 DEF NvdInv
<1>7. ASSUME NEW r \in Runners, run[r].pc = "pages"
      PROVE  NvdRead(run[r])'
  <2>1. PICK q \in RunState : q = run[r]
    BY DEF IngestTyped
  <2>2. /\ q.to \in Nat /\ q.to <= released /\ q.from <= q.to /\ q.to <= q.now /\ q.top <= q.to
        /\ \A a \in Advisories : feed["nvd"][a] <= q.to => TakenIn("nvd", a) \/ a \in Unread(q, feed["nvd"])
    BY <2>1, <1>7 DEF NvdInv, NvdRead, RunState, InThePast
  <2>3. ASSUME NEW a \in Advisories, new[a] <= q.to, ~TakenIn("nvd", a)', a \notin Unread(q, new)
        PROVE  FALSE
    <3>1. new[a] # released + 1 /\ new[a] # 0
      BY <1>0, <1>4, <2>2, <2>3
    <3>2. new[a] = feed["nvd"][a] /\ ~TakenIn("nvd", a) /\ a \in Unread(q, feed["nvd"])
      BY <1>2, <1>3, <2>2, <2>3, <3>1
    <3>3. CASE s # "nvd"
      <4>1. \A s2 \in Sources : s2 # s => feed'[s2] = feed[s2]
        BY PublishFeed
      <4>2. new = feed["nvd"]
        BY <1>0, <1>1, <3>3, <4>1
      <4> QED BY <2>3, <3>2, <4>2
    <3>4. CASE s = "nvd"
      <4> DEFINE lost == UNION {Unread(run[p], feed["nvd"]) \ Unread(run[p], new) : p \in Running("nvd")}
      <4>1. missed' = missed \cup Texts("nvd", lost \ A, feed["nvd"])
        <5> DEFINE nu == [b \in Advisories |-> IF b \notin A THEN feed[s][b]
                                     ELSE IF gone THEN 0 ELSE released + 1]
        <5>1. nu = new
          BY <1>0, <1>1, <3>4 DEF Publish, IngestTyped
        <5> QED BY <3>4, <5>1 DEF Publish
      <4>2. a \in lost
        <5>1. r \in Running("nvd")
          BY <1>7 DEF Running, IngestTyped, SourceOf
        <5> QED BY <2>1, <2>3, <3>2, <5>1
      <4>3. a \notin A
        <5>1. a \in A => new[a] \in {0, released + 1}
          BY <1>0, <1>1, <3>4 DEF Publish, IngestTyped
        <5> QED BY <3>1, <5>1
      <4>4. <<"nvd", a, new[a]>> \in missed'
        <5> HIDE DEF lost
        <5> QED BY <3>2, <4>1, <4>2, <4>3 DEF Texts
      <4> QED BY <1>1, <2>3, <4>4 DEF TakenIn
    <3> QED BY <3>3, <3>4
  <2>4. run'[r] = q
    BY <1>2, <2>1
  <2>5. Unread(run[r], feed["nvd"])' = Unread(q, new)
    BY <1>1, <2>4 DEF Unread, Results, Rank
  <2> QED BY <1>1, <2>2, <2>3, <2>4, <2>5 DEF NvdRead
<1> QED BY <1>1, <1>2, <1>6, <1>7 DEF NvdInv

----------------------------------------------------------------------------
(* GHSA *)

LEMMA GhsaStep ==
  ASSUME IngestTyped, GhsaInv, UNCHANGED feed, NEW r \in Runners,
         \A a \in Advisories : TakenIn("ghsa", a) => TakenIn("ghsa", a)',
         \A p \in Runners : p # r => run'[p] = run[p],
         run'[r].pc = "nodes" => GhsaRead(run[r])',
         \A a \in Advisories : feed["ghsa"][a] < cursor'["ghsa"] => TakenIn("ghsa", a)'
  PROVE  GhsaInv'
<1>1. ASSUME NEW p \in Runners, p # r, run'[p].pc = "nodes"
      PROVE  GhsaRead(run[p])'
  <2>1. run'[p] = run[p] /\ GhsaRead(run[p])
    BY <1>1 DEF GhsaInv
  <2> QED BY <2>1 DEF GhsaRead, Earlier, Place
<1> QED BY <1>1 DEF GhsaInv

LEMMA BeginGhsaKeeps ==
  ASSUME IngestTyped, InThePast, GhsaInv, NEW r \in Runners, BeginGhsa(r)
  PROVE  GhsaInv'
<1>1. /\ UNCHANGED <<feed, released, cursor, written, missed>>
      /\ run' = [run EXCEPT ![r] = [NoRun EXCEPT !.src = "ghsa", !.pc = "nodes",
                                       !.from = cursor["ghsa"], !.top = cursor["ghsa"]]]
  BY DEF BeginGhsa
<1>2. /\ \A p \in Runners : p # r => run'[p] = run[p]
      /\ run'[r].from = cursor["ghsa"] /\ run'[r].top = cursor["ghsa"] /\ run'[r].after = <<0, 0>>
  BY <1>1 DEF IngestTyped, NoRun
<1>3. \A a \in Advisories : TakenIn("ghsa", a) => TakenIn("ghsa", a)'
  BY <1>1 DEF TakenIn
<1>4. cursor["ghsa"] \in Nat /\ feed["ghsa"] \in [Advisories -> Nat]
  BY DEF IngestTyped, Sources
<1>5. ASSUME NEW a \in Advisories, ~Earlier(<<0, 0>>, Place(a))
      PROVE  TakenIn("ghsa", a)
  <2>1. feed["ghsa"][a] = 0
    BY <1>4, <1>5 DEF Earlier, Place
  <2> QED BY <2>1 DEF TakenIn
<1>6. GhsaRead(run[r])'
  <2>1. ASSUME NEW a \in Advisories, feed["ghsa"][a] < cursor["ghsa"] \/ ~Earlier(<<0, 0>>, Place(a))
        PROVE  TakenIn("ghsa", a)'
    BY <1>3, <1>5, <2>1 DEF GhsaInv
  <2>2. \A a \in Advisories : Place(a)' = Place(a)
    BY <1>1 DEF Place
  <2> QED BY <1>1, <1>2, <1>4, <2>1, <2>2 DEF GhsaRead, Earlier
<1>7. \A a \in Advisories : feed["ghsa"][a] < cursor'["ghsa"] => TakenIn("ghsa", a)'
  BY <1>1, <1>3 DEF GhsaInv
<1> QED BY <1>1, <1>2, <1>3, <1>6, <1>7, GhsaStep

\* A page holds everything that is not later than its last node.
LEMMA NodesAreFirst ==
  ASSUME IngestTyped, NEW q, NEW a \in Nodes(q), NEW b \in Later(q), ~Earlier(Place(a), Place(b))
  PROVE  b \in Nodes(q)
<1> DEFINE P(c) == {d \in Later(q) : Earlier(Place(d), Place(c))}
<1>1. /\ feed["ghsa"] \in [Advisories -> Nat] /\ Later(q) \in SUBSET Advisories /\ a \in Later(q)
      /\ Advisories \in SUBSET Nat /\ IsFiniteSet(Advisories) /\ PageSize \in Nat
  BY IngestAssumption DEF IngestTyped, Sources, Later, Nodes
<1>2. P(b) \in SUBSET P(a)
  <2> SUFFICES ASSUME NEW d \in Later(q), Earlier(Place(d), Place(b)) PROVE Earlier(Place(d), Place(a))
    OBVIOUS
  <2>1. feed["ghsa"][a] \in Nat /\ feed["ghsa"][b] \in Nat /\ feed["ghsa"][d] \in Nat
        /\ a \in Nat /\ b \in Nat /\ d \in Nat
    BY <1>1
  <2> QED BY <2>1 DEF Earlier, Place
<1>3. IsFiniteSet(P(a))
  <2>1. P(a) \in SUBSET Advisories
    BY <1>1
  <2> QED BY <1>1, <2>1, FS_Subset
<1>4. IsFiniteSet(P(b)) /\ Cardinality(P(b)) <= Cardinality(P(a))
  BY <1>2, <1>3, FS_Subset
<1>5. Cardinality(P(b)) \in Nat /\ Cardinality(P(a)) \in Nat
  BY <1>3, <1>4, FS_CardinalityType
<1>6. Cardinality(P(a)) < PageSize
  BY DEF Nodes
<1>7. Cardinality(P(b)) < PageSize
  BY <1>1, <1>4, <1>5, <1>6
<1> QED BY <1>7 DEF Nodes

LEMMA IngestNodesKeeps ==
  ASSUME IngestTyped, InThePast, GhsaInv, NEW r \in Runners, NEW bad, IngestNodes(r, bad)
  PROVE  /\ GhsaInv'
         /\ \A s \in Sources, a \in Advisories : TakenIn(s, a) => TakenIn(s, a)'
<1>1. PICK q \in RunState : q = run[r]
  BY DEF IngestTyped
<1> DEFINE page == Nodes(q)
           top == MaxModified(q.top, page, feed["ghsa"])
<1>2. /\ UNCHANGED <<feed, released>> /\ q.pc = "nodes" /\ bad \in SUBSET page
      /\ Upsert("ghsa", page, bad, feed["ghsa"])
  BY <1>1 DEF IngestNodes, WriteAdvisory
<1>3. page \in SUBSET Later(q) /\ Later(q) \in SUBSET Advisories
  BY DEF Nodes, Later
<1>4. /\ \A s \in Sources, a \in Advisories : TakenIn(s, a) => TakenIn(s, a)'
      /\ \A a \in page : TakenIn("ghsa", a)'
  <2>1. "ghsa" \in Sources /\ page \in SUBSET Advisories
    BY <1>3 DEF Sources
  <2> HIDE DEF page
  <2> QED BY <1>2, <2>1, PageTakes
<1>5. /\ q.from \in Nat /\ q.top \in Nat /\ q.after \in Nat \X Nat
      /\ feed["ghsa"] \in [Advisories -> Nat] /\ Advisories \in SUBSET Nat
      /\ q.top <= q.from \/ q.top <= q.after[1]
  BY <1>1, <1>2, IngestAssumption DEF IngestTyped, RunState, Sources, GhsaInv, GhsaRead
<1>6. \A a \in Advisories : feed["ghsa"][a] < q.from \/ ~Earlier(q.after, Place(a)) => TakenIn("ghsa", a)
  BY <1>1, <1>2 DEF GhsaInv, GhsaRead
<1>7. \A a \in Advisories : a \notin Later(q) => TakenIn("ghsa", a)
  BY <1>5, <1>6 DEF Later, TakenIn
<1>8. \A a \in Advisories : Place(a)' = Place(a)
  BY <1>2 DEF Place
<1>9. CASE page = Later(q)
  <2>1. run' = [run EXCEPT ![r] = NoRun]
    BY <1>1, <1>9 DEF IngestNodes
  <2>2. (\A p \in Runners : p # r => run'[p] = run[p]) /\ run'[r].pc # "nodes"
    BY <2>1, NoRunTyped DEF IngestTyped
  <2>3. \A a \in Advisories : TakenIn("ghsa", a)'
    BY <1>4, <1>7, <1>9 DEF Sources
  <2> QED BY <1>2, <1>4, <2>2, <2>3, GhsaStep
<1>10. CASE page # Later(q)
  <2>1. PICK a \in page : /\ \A b \in page : ~Earlier(Place(a), Place(b))
                          /\ run' = [run EXCEPT ![r] = [q EXCEPT !.after = Place(a), !.top = top]]
                          /\ UNCHANGED cursor
    BY <1>1, <1>10 DEF IngestNodes
  <2>2. a \in Later(q) /\ a \in Advisories /\ a \in Nat /\ feed["ghsa"][a] \in Nat
        /\ feed["ghsa"][a] >= q.from /\ Earlier(q.after, Place(a))
    BY <1>3, <1>5 DEF Later
  <2>3. q.after[1] <= feed["ghsa"][a]
    BY <1>5, <2>2 DEF Earlier, Place
  <2>4. top \in Nat /\ top <= feed["ghsa"][a]
    <3>1. \A b \in page : feed["ghsa"][b] <= feed["ghsa"][a]
      <4> TAKE b \in page
      <4>1. b \in Advisories /\ feed["ghsa"][b] \in Nat
        BY <1>3, <1>5
      <4>2. ~Earlier(Place(a), Place(b))
        BY <2>1
      <4> QED BY <2>2, <4>1, <4>2 DEF Earlier, Place
    <3>2. q.top <= feed["ghsa"][a]
      BY <1>5, <2>2, <2>3
    <3>3. page \in SUBSET Advisories
      BY <1>3
    <3> HIDE DEF page
    <3> QED BY <1>5, <2>2, <3>1, <3>2, <3>3, MaxModifiedBounds
  <2> HIDE DEF top
  <2>5. /\ \A p \in Runners : p # r => run'[p] = run[p]
        /\ run'[r].from = q.from /\ run'[r].after = Place(a) /\ run'[r].top = top
    BY <2>1 DEF IngestTyped, RunState
  <2>6. ASSUME NEW b \in Advisories, feed["ghsa"][b] < q.from \/ ~Earlier(Place(a), Place(b))
        PROVE  TakenIn("ghsa", b)'
    <3>1. CASE b \notin Later(q)
      BY <1>4, <1>7, <3>1 DEF Sources
    <3>2. CASE b \in Later(q)
      <4>1. ~Earlier(Place(a), Place(b))
        BY <1>5, <2>6, <3>2 DEF Later
      <4>2. b \in page
        BY <3>2, <4>1, NodesAreFirst
      <4> QED BY <1>4, <4>2
    <3> QED BY <3>1, <3>2
  <2>7. GhsaRead(run[r])'
    <3>1. Place(a)[1] = feed["ghsa"][a]
      BY DEF Place
    <3>2. \A b \in Advisories : Earlier(Place(a), Place(b))' <=> Earlier(Place(a), Place(b))
      BY <1>8, <2>2 DEF Earlier
    <3>3. \A b \in Advisories : Earlier(run[r].after, Place(b))' <=> Earlier(Place(a), Place(b))
      BY <1>8, <2>2, <2>5 DEF Earlier
    <3>4. run'[r].top <= run'[r].after[1]
      BY <2>4, <2>5, <3>1
    <3> QED BY <1>2, <2>5, <2>6, <3>3, <3>4 DEF GhsaRead
  <2>8. \A b \in Advisories : feed["ghsa"][b] < cursor'["ghsa"] => TakenIn("ghsa", b)'
    BY <1>4, <2>1 DEF GhsaInv, Sources
  <2> QED BY <1>2, <1>4, <2>5, <2>7, <2>8, GhsaStep DEF Sources
<1> QED BY <1>4, <1>9, <1>10

LEMMA GhsaFailsKeeps ==
  ASSUME IngestTyped, InThePast, GhsaInv, NEW r \in Runners, GhsaFails(r)
  PROVE  GhsaInv'
<1>1. PICK q \in RunState : q = run[r]
  BY DEF IngestTyped
<1>2. /\ UNCHANGED <<feed, released, written, missed>> /\ q.pc = "nodes"
      /\ run' = [run EXCEPT ![r] = NoRun] /\ cursor'["ghsa"] = q.top
  BY <1>1 DEF GhsaFails, UpdateCursor, IngestTyped, Sources
<1>3. /\ q.from \in Nat /\ q.top \in Nat /\ q.after \in Nat \X Nat /\ feed["ghsa"] \in [Advisories -> Nat]
      /\ q.top <= q.from \/ q.top <= q.after[1]
      /\ \A a \in Advisories : feed["ghsa"][a] < q.from \/ ~Earlier(q.after, Place(a)) => TakenIn("ghsa", a)
  BY <1>1, <1>2 DEF IngestTyped, RunState, Sources, GhsaInv, GhsaRead
<1>4. \A a \in Advisories : TakenIn("ghsa", a) => TakenIn("ghsa", a)'
  BY <1>2 DEF TakenIn
<1>5. ASSUME NEW a \in Advisories, feed["ghsa"][a] < q.top
      PROVE  TakenIn("ghsa", a)
  <2>1. feed["ghsa"][a] < q.from \/ feed["ghsa"][a] < q.after[1]
    BY <1>3, <1>5
  <2>2. feed["ghsa"][a] < q.after[1] => ~Earlier(q.after, Place(a))
    BY <1>3 DEF Earlier, Place
  <2> QED BY <1>3, <2>1, <2>2
<1>6. (\A p \in Runners : p # r => run'[p] = run[p]) /\ run'[r].pc # "nodes"
  BY <1>2, NoRunTyped DEF IngestTyped
<1> QED BY <1>2, <1>4, <1>5, <1>6, GhsaStep

LEMMA PublishKeepsGhsa ==
  ASSUME IngestTyped, InThePast, GhsaInv, NEW s \in Sources, NEW A \in SUBSET Advisories,
         NEW gone \in BOOLEAN, Publish(s, A, gone)
  PROVE  GhsaInv'
<1>0. "ghsa" \in Sources /\ released \in Nat
  BY DEF Sources, IngestTyped
<1>1. PICK new \in [Advisories -> Nat] : new = feed'["ghsa"]
  BY <1>0, PublishFeed
<1>2. /\ UNCHANGED <<cursor, written, run>> /\ missed \subseteq missed'
      /\ \A a \in Advisories : new[a] = feed["ghsa"][a] \/ new[a] \in {0, released + 1}
  BY <1>0, <1>1, PublishFeed
<1>3. \A a \in Advisories : new[a] = feed["ghsa"][a] /\ TakenIn("ghsa", a) => TakenIn("ghsa", a)'
  BY <1>1, <1>2 DEF TakenIn
<1>4. \A a \in Advisories : new[a] = 0 => TakenIn("ghsa", a)'
  BY <1>1 DEF TakenIn
<1>5. cursor["ghsa"] \in Nat /\ cursor["ghsa"] <= released
  BY <1>0 DEF IngestTyped, InThePast
<1>6. ASSUME NEW a \in Advisories, new[a] < cursor["ghsa"]
      PROVE  TakenIn("ghsa", a)'
  <2>1. new[a] # released + 1
    BY <1>0, <1>5, <1>6
  <2> QED BY <1>2, <1>3, <1>4, <1>6, <2>1 DEF GhsaInv
<1>7. ASSUME NEW r \in Runners, run[r].pc = "nodes"
      PROVE  GhsaRead(run[r])'
  <2>1. PICK q \in RunState : q = run[r]
    BY DEF IngestTyped
  <2>2. /\ q.from \in Nat /\ q.from <= released /\ q.after \in Nat \X Nat /\ q.after[1] <= released
        /\ q.top <= q.from \/ q.top <= q.after[1]
        /\ \A a \in Advisories : feed["ghsa"][a] < q.from \/ ~Earlier(q.after, Place(a)) => TakenIn("ghsa", a)
    BY <2>1, <1>7 DEF GhsaInv, GhsaRead, RunState, InThePast
  <2>3. ASSUME NEW a \in Advisories, new[a] < q.from \/ ~Earlier(q.after, <<new[a], a>>)
        PROVE  TakenIn("ghsa", a)'
    <3>1. new[a] # released + 1
      BY <1>0, <2>2, <2>3 DEF Earlier
    <3>2. CASE new[a] = feed["ghsa"][a]
      BY <1>3, <2>2, <2>3, <3>2 DEF Place
    <3> QED BY <1>2, <1>4, <3>1, <3>2
  <2>4. run'[r] = q /\ \A a \in Advisories : Place(a)' = <<new[a], a>>
    BY <1>1, <1>2, <2>1 DEF Place
  <2>5. \A a \in Advisories : Earlier(run[r].after, Place(a))' <=> Earlier(q.after, <<new[a], a>>)
    BY <2>4 DEF Earlier
  <2> QED BY <1>1, <2>2, <2>3, <2>4, <2>5 DEF GhsaRead
<1> QED BY <1>1, <1>2, <1>6, <1>7 DEF GhsaInv

----------------------------------------------------------------------------
(* OSV: runs overlap, so the argument is over all of them at once. *)

LEMMA DownloadKeeps ==
  ASSUME IngestTyped, InThePast, OsvInv, NEW r \in Runners, NEW ok \in BOOLEAN, Download(r, ok)
  PROVE  OsvInv'
<1>0. "osv" \in Sources /\ feed["osv"] \in [Advisories -> Nat]
  BY DEF Sources, IngestTyped
<1>1. /\ UNCHANGED <<feed, etag, released, written, missed>> /\ run[r].pc = "download"
      /\ \A p \in Runners : p # r => run'[p] = run[p]
      /\ run'[r].pc = "entries" /\ run'[r].body = feed["osv"] /\ run'[r].etag = run[r].etag
      /\ run'[r].todo = {a \in Advisories : feed["osv"][a] # 0}
  BY <1>0 DEF Download, IngestTyped, RunState
<1>2. \A a \in Advisories : TakenIn("osv", a)' <=> TakenIn("osv", a)
  BY <1>1 DEF TakenIn
<1>3. ASSUME NEW p \in Runners, run'[p].pc = "entries"
      PROVE  OsvRead(run[p])'
  <2>1. CASE p = r
    BY <1>0, <1>1, <2>1 DEF OsvRead
  <2>2. CASE p # r
    <3>1. run'[p] = run[p] /\ OsvRead(run[p])
      BY <1>1, <1>3, <2>2 DEF OsvInv
    <3> QED BY <1>1, <3>1 DEF OsvRead
  <2> QED BY <2>1, <2>2
<1>4. ASSUME NEW a \in Advisories, ~TakenIn("osv", a)
      PROVE  OwedBy(run[r], a)'
  BY <1>1, <1>4 DEF OwedBy, TakenIn
<1> QED BY <1>2, <1>3, <1>4 DEF OsvInv

LEMMA IngestEntryKeeps ==
  ASSUME IngestTyped, InThePast, OsvInv, NEW r \in Runners, NEW a \in Advisories, NEW ok \in BOOLEAN,
         IngestEntry(r, a, ok)
  PROVE  /\ OsvInv'
         /\ \A s \in Sources \ {"osv"}, b \in Advisories : TakenIn(s, b) => TakenIn(s, b)'
<1>0. "osv" \in Sources /\ feed["osv"] \in [Advisories -> Nat]
  BY DEF Sources, IngestTyped
<1>1. PICK q \in RunState : q = run[r]
  BY DEF IngestTyped
<1> DEFINE bad == IF ok THEN {} ELSE {a}
<1>2. /\ UNCHANGED <<feed, etag, released, cursor>> /\ q.pc = "entries" /\ a \in q.todo
      /\ Upsert("osv", {a}, bad, q.body)
      /\ run' = [run EXCEPT ![r] = [q EXCEPT !.todo = q.todo \ {a}]]
  BY <1>1 DEF IngestEntry, WriteAdvisory
<1>3. {a} \in SUBSET Advisories /\ bad \in SUBSET {a} /\ q.body \in [Advisories -> Nat]
  BY DEF RunState
<1> HIDE DEF bad
<1>4. /\ \A s \in Sources, b \in Advisories :
            (s # "osv" \/ b \notin {a}) /\ TakenIn(s, b) => TakenIn(s, b)'
      /\ \A b \in {a} : q.body[b] = feed["osv"][b] => TakenIn("osv", b)'
      /\ \A b \in {a} : q.body[b] < feed["osv"][b] /\ TakenIn("osv", b) => TakenIn("osv", b)'
  BY <1>0, <1>2, <1>3, UpsertTakes
<1>5. /\ \A p \in Runners : p # r => run'[p] = run[p]
      /\ run'[r].pc = "entries" /\ run'[r].body = q.body /\ run'[r].etag = q.etag
      /\ run'[r].todo = q.todo \ {a}
  BY <1>2 DEF IngestTyped, RunState
<1>6. OsvRead(q)
  BY <1>1, <1>2 DEF OsvInv
<1>7. ASSUME NEW p \in Runners, run'[p].pc = "entries"
      PROVE  OsvRead(run[p])'
  <2>1. CASE p = r
    BY <1>2, <1>5, <1>6, <2>1 DEF OsvRead
  <2>2. CASE p # r
    <3>1. run'[p] = run[p] /\ OsvRead(run[p])
      BY <1>5, <1>7, <2>2 DEF OsvInv
    <3> QED BY <1>2, <3>1 DEF OsvRead
  <2> QED BY <2>1, <2>2
<1>8. EtagKnown' => EtagKnown
  <2>1. \A p \in Runners : run'[p].pc = "entries" /\ run'[p].etag = etag
                              => run[p].pc = "entries" /\ run[p].etag = etag
    BY <1>1, <1>2, <1>5
  <2> QED BY <1>2, <2>1 DEF EtagKnown
<1>9. ASSUME NEW b \in Advisories, TakenIn("osv", b)
      PROVE  TakenIn("osv", b)'
  <2>1. CASE b # a
    BY <1>0, <1>4, <1>9, <2>1
  <2>2. CASE b = a /\ feed["osv"][a] = 0
    BY <1>2, <2>2 DEF TakenIn
  <2>3. CASE b = a /\ feed["osv"][a] # 0
    <3>1. q.body[a] \in Nat /\ feed["osv"][a] \in Nat /\ q.body[a] <= feed["osv"][a]
      BY <1>0, <1>3, <1>6, <2>3 DEF OsvRead
    <3>2. q.body[a] = feed["osv"][a] \/ q.body[a] < feed["osv"][a]
      BY <3>1
    <3> QED BY <1>4, <1>9, <2>3, <3>2
  <2> QED BY <2>1, <2>2, <2>3
<1>10. ASSUME NEW b \in Advisories, NEW p \in Runners, OwedBy(run[p], b)
       PROVE  TakenIn("osv", b)' \/ OwedBy(run[p], b)'
  <2>1. CASE p = r /\ b = a
    BY <1>1, <1>4, <1>10, <2>1 DEF OwedBy
  <2>2. CASE p = r /\ b # a
    BY <1>1, <1>2, <1>5, <1>10, <2>2 DEF OwedBy
  <2>3. CASE p # r
    <3>1. run'[p] = run[p]
      BY <1>5, <2>3
    <3> QED BY <1>2, <1>10, <3>1 DEF OwedBy
  <2> QED BY <2>1, <2>2, <2>3
<1>11. OsvInv'
  BY <1>7, <1>8, <1>9, <1>10 DEF OsvInv
<1> QED BY <1>4, <1>11

\* Runs that end or are cut short, with what they owe on record.
LEMMA OsvEnds ==
  ASSUME IngestTyped, OsvInv, UNCHANGED <<feed, etag, written>>, missed \subseteq missed',
         EtagKnown' => EtagKnown,
         \A p \in Runners : run'[p] = run[p] \/ run'[p].pc # "entries",
         \A p \in Runners, a \in Advisories :
             OwedBy(run[p], a) /\ run'[p] # run[p] => <<"osv", a, feed["osv"][a]>> \in missed'
  PROVE  OsvInv'
<1>1. \A a \in Advisories : TakenIn("osv", a) => TakenIn("osv", a)'
  BY DEF TakenIn
<1>2. ASSUME NEW p \in Runners, run'[p].pc = "entries"
      PROVE  OsvRead(run[p])'
  <2>1. run'[p] = run[p] /\ OsvRead(run[p])
    BY <1>2 DEF OsvInv
  <2> QED BY <2>1 DEF OsvRead
<1>3. ASSUME NEW a \in Advisories, NEW p \in Runners, OwedBy(run[p], a)
      PROVE  TakenIn("osv", a)' \/ OwedBy(run[p], a)'
  <2>1. CASE run'[p] = run[p]
    BY <1>3, <2>1 DEF OwedBy
  <2>2. CASE run'[p] # run[p]
    BY <1>3, <2>2 DEF TakenIn
  <2> QED BY <2>1, <2>2
<1> QED BY <1>1, <1>2, <1>3 DEF OsvInv

LEMMA EndOsvKeeps ==
  ASSUME IngestTyped, OsvInv, NEW r \in Runners, SkipUnchanged(r) \/ EndOsv(r)
  PROVE  OsvInv'
<1>1. /\ UNCHANGED <<feed, etag, written, missed>>
      /\ (run[r].pc = "skip" \/ (run[r].pc = "entries" /\ run[r].todo = {}))
      /\ cursor'["osv"] = run[r].etag /\ run' = [run EXCEPT ![r] = NoRun]
  BY DEF SkipUnchanged, EndOsv, UpdateCursor, IngestTyped, Sources
<1>2. (\A p \in Runners : p # r => run'[p] = run[p]) /\ run'[r].pc = "idle"
  BY <1>1, NoRunTyped DEF IngestTyped
<1>3. EtagKnown' => EtagKnown
  BY <1>1, <1>2 DEF EtagKnown
<1>4. \A a \in Advisories : ~OwedBy(run[r], a)
  BY <1>1 DEF OwedBy
<1> QED BY <1>1, <1>2, <1>3, <1>4, OsvEnds

LEMMA StopKeeps ==
  ASSUME IngestTyped, NvdInv, GhsaInv, OsvInv, NEW S \in SUBSET Runners, Stop(S)
  PROVE  NvdInv' /\ GhsaInv' /\ OsvInv'
<1>1. /\ run' = [p \in Runners |-> IF p \in S THEN NoRun ELSE run[p]]
      /\ UNCHANGED <<feed, etag, released, cursor, written>>
      /\ missed' = missed \cup UNION {Texts("osv", run[p].todo, run[p].body) : p \in S}
  BY DEF Stop
<1>2. \A p \in Runners : IF p \in S THEN run'[p].pc = "idle" ELSE run'[p] = run[p]
  BY <1>1, NoRunTyped
<1>3. \A s \in Sources, a \in Advisories : TakenIn(s, a) => TakenIn(s, a)'
  BY <1>1 DEF TakenIn
<1>4. NvdInv'
  BY <1>1, <1>2, <1>3, NvdFrame DEF Sources
<1>5. GhsaInv'
  BY <1>1, <1>2, <1>3, GhsaFrame DEF Sources
<1>6. EtagKnown' => EtagKnown
  BY <1>1, <1>2 DEF EtagKnown
<1>7. ASSUME NEW p \in Runners, NEW a \in Advisories, OwedBy(run[p], a), run'[p] # run[p]
      PROVE  <<"osv", a, feed["osv"][a]>> \in missed'
  <2>1. p \in S
    BY <1>2, <1>7
  <2>2. <<"osv", a, feed["osv"][a]>> \in Texts("osv", run[p].todo, run[p].body)
    BY <1>7 DEF OwedBy, Texts
  <2> QED BY <1>1, <2>1, <2>2
<1>8. OsvInv'
  <2>1. missed \subseteq missed'
    BY <1>1
  <2>2. \A p \in Runners : run'[p] = run[p] \/ run'[p].pc # "entries"
    BY <1>2
  <2> QED BY <1>1, <1>6, <1>7, <2>1, <2>2, OsvEnds
<1> QED BY <1>4, <1>5, <1>8

LEMMA PublishKeepsOsv ==
  ASSUME IngestTyped, InThePast, OsvInv, NEW s \in Sources, NEW A \in SUBSET Advisories,
         NEW gone \in BOOLEAN, Publish(s, A, gone)
  PROVE  OsvInv'
<1>0. "osv" \in Sources /\ released \in Nat
  BY DEF Sources, IngestTyped
<1>1. PICK new \in [Advisories -> Nat] : new = feed'["osv"]
  BY <1>0, PublishFeed
<1>2. /\ UNCHANGED <<cursor, written, run>> /\ missed \subseteq missed'
      /\ \A a \in Advisories : new[a] = feed["osv"][a] \/ new[a] \in {0, released + 1}
  BY <1>0, <1>1, PublishFeed
<1>3. ASSUME NEW p \in Runners, run'[p].pc = "entries"
      PROVE  OsvRead(run[p])'
  <2>1. PICK q \in RunState : q = run[p]
    BY DEF IngestTyped
  <2>2. OsvRead(q) /\ run'[p] = q
    BY <1>2, <1>3, <2>1 DEF OsvInv
  <2>3. \A a \in Advisories : q.body[a] \in Nat /\ q.body[a] <= released
    BY <2>1 DEF InThePast, RunState
  <2>4. \A a \in Advisories : new[a] # 0 => q.body[a] <= new[a]
    BY <1>0, <1>2, <2>2, <2>3 DEF OsvRead
  <2> QED BY <1>1, <2>2, <2>4 DEF OsvRead
<1>4. CASE s = "osv"
  <2>1. etag' = released + 1
    BY <1>4 DEF Publish
  <2>2. cursor["osv"] # released + 1
    BY <1>0 DEF InThePast, IngestTyped
  <2>3. \A p \in Runners : run[p].etag # released + 1
    BY <1>0 DEF InThePast, IngestTyped, RunState
  <2>4. ~EtagKnown'
    BY <1>2, <2>1, <2>2, <2>3 DEF EtagKnown
  <2> QED BY <1>3, <2>4 DEF OsvInv
<1>5. CASE s # "osv"
  <2>1. feed'["osv"] = feed["osv"] /\ etag' = etag
    BY <1>0, <1>5 DEF Publish, IngestTyped
  <2>2. \A a \in Advisories : TakenIn("osv", a) => TakenIn("osv", a)'
    BY <1>2, <2>1 DEF TakenIn
  <2>3. \A p \in Runners, a \in Advisories : OwedBy(run[p], a) => OwedBy(run[p], a)'
    BY <1>2, <2>1 DEF OwedBy
  <2>4. EtagKnown' => EtagKnown
    BY <1>2, <2>1 DEF EtagKnown
  <2> QED BY <1>3, <2>2, <2>3, <2>4 DEF OsvInv
<1> QED BY <1>4, <1>5

----------------------------------------------------------------------------

LEMMA IngestInvInit == IngestInit => IngestInv
<1> SUFFICES ASSUME IngestInit PROVE IngestInv
  OBVIOUS
<1>1. /\ NoRun \in RunState /\ NoRun.src = SourceOf(NoRun.pc) /\ NoRun.etag = 0 /\ NoRun.from = 0
      /\ NoRun.to = 0 /\ NoRun.now = 0 /\ NoRun.after[1] = 0 /\ NoRun.top = 0 /\ NoRun.pc = "idle"
      /\ \A a \in Advisories : NoRun.body[a] = 0
  BY NoRunTyped DEF NoRun
<1>2. IngestTyped
  BY <1>1 DEF IngestInit, IngestTyped
<1>3. \A r \in Runners : run[r] = NoRun
  BY DEF IngestInit
<1>4. \A s \in Sources, a \in Advisories : TakenIn(s, a) /\ feed[s][a] = 0
  BY DEF IngestInit, TakenIn
<1>5. InThePast
  BY <1>1, <1>3, <1>4 DEF IngestInit, InThePast
<1>6. NvdInv /\ GhsaInv /\ OsvInv
  BY <1>1, <1>3, <1>4 DEF NvdInv, GhsaInv, OsvInv, Sources
<1> QED BY <1>2, <1>5, <1>6 DEF IngestInv

LEMMA IngestInvStep == IngestInv /\ [IngestNext]_ingestVars => IngestInv'
<1> SUFFICES ASSUME IngestInv, [IngestNext]_ingestVars PROVE IngestInv'
  OBVIOUS
<1>0. IngestTyped /\ InThePast /\ NvdInv /\ GhsaInv /\ OsvInv
  BY DEF IngestInv
<1>1. ASSUME NEW s \in Sources, NEW A \in SUBSET Advisories, NEW gone \in BOOLEAN, Publish(s, A, gone)
      PROVE  IngestInv'
  BY <1>0, <1>1, PublishTyped, PublishKeepsNvd, PublishKeepsGhsa, PublishKeepsOsv DEF IngestInv
<1>2. ASSUME NEW S \in SUBSET Runners, Stop(S)
      PROVE  IngestInv'
  BY <1>0, <1>2, StopTyped, StopKeeps DEF IngestInv
<1>3. ASSUME NEW r \in Runners, Begins(r)
      PROVE  IngestInv'
  <2>1. IngestTyped' /\ InThePast'
    BY <1>0, <1>3, BeginTyped
  <2>2. /\ UNCHANGED <<feed, etag, released, cursor, written, missed>> /\ run[r] = NoRun
        /\ \A p \in Runners : p # r => run'[p] = run[p]
    BY <1>0, <1>3 DEF Begins, CheckEtag, BeginNvd, BeginGhsa, MayRun, IngestTyped
  <2>3. \A s \in Sources, a \in Advisories : TakenIn(s, a) => TakenIn(s, a)'
    BY <2>2 DEF TakenIn
  <2>4. /\ CheckEtag(r) => (run'[r].pc = "download" \/ (run'[r].pc = "skip" /\ cursor["osv"] = etag))
        /\ BeginNvd(r) => run'[r].pc = "pages"
        /\ BeginGhsa(r) => run'[r].pc = "nodes"
    BY <1>0 DEF CheckEtag, BeginNvd, BeginGhsa, IngestTyped, NoRun
  <2>5. run[r].pc = "idle" /\ run'[r].pc # "entries" /\ (run'[r].pc = "skip" => cursor["osv"] = etag)
    BY <1>3, <2>2, <2>4, NoRunTyped DEF Begins
  <2>6. OsvInv'
    BY <1>0, <2>2, <2>3, <2>5, OsvFrame DEF Sources
  <2>7. NvdInv'
    <3>1. CASE BeginNvd(r)
      BY <1>0, <3>1, BeginNvdKeeps
    <3>2. CASE run'[r].pc # "pages"
      BY <1>0, <2>2, <2>3, <3>2, NvdFrame DEF Sources
    <3> QED BY <1>3, <2>4, <3>1, <3>2 DEF Begins
  <2>8. GhsaInv'
    <3>1. CASE BeginGhsa(r)
      BY <1>0, <3>1, BeginGhsaKeeps
    <3>2. CASE run'[r].pc # "nodes"
      BY <1>0, <2>2, <2>3, <3>2, GhsaFrame DEF Sources
    <3> QED BY <1>3, <2>4, <3>1, <3>2 DEF Begins
  <2> QED BY <2>1, <2>6, <2>7, <2>8 DEF IngestInv
<1>4. ASSUME NEW r \in Runners, NEW ok \in BOOLEAN, SkipUnchanged(r) \/ Download(r, ok) \/ EndOsv(r)
      PROVE  IngestInv'
  <2>1. IngestTyped' /\ InThePast'
    BY <1>0, <1>4, ProceedTyped
  <2>2. /\ UNCHANGED <<feed, released, written, missed>>
        /\ cursor'["nvd"] = cursor["nvd"] /\ cursor'["ghsa"] = cursor["ghsa"]
        /\ \A p \in Runners : run'[p] = run[p] \/ run'[p].pc \in {"entries", "idle"}
    BY <1>0, <1>4, NoRunTyped DEF SkipUnchanged, Download, EndOsv, UpdateCursor, IngestTyped, RunState, Sources
  <2>3. \A s \in Sources, a \in Advisories : TakenIn(s, a) => TakenIn(s, a)'
    BY <2>2 DEF TakenIn
  <2>4. NvdInv' /\ GhsaInv'
    BY <1>0, <2>2, <2>3, NvdFrame, GhsaFrame DEF Sources
  <2> QED BY <1>0, <1>4, <2>1, <2>4, DownloadKeeps, EndOsvKeeps DEF IngestInv
<1>5. ASSUME NEW r \in Runners, NEW a \in Advisories, NEW ok \in BOOLEAN, IngestEntry(r, a, ok)
      PROVE  IngestInv'
  <2>1. IngestTyped' /\ InThePast'
    BY <1>0, <1>5, ProceedTyped
  <2>2. OsvInv' /\ \A s \in Sources \ {"osv"}, b \in Advisories : TakenIn(s, b) => TakenIn(s, b)'
    BY <1>0, <1>5, IngestEntryKeeps
  <2>3. /\ UNCHANGED <<feed, released, cursor>>
        /\ \A p \in Runners : run'[p] = run[p] \/ run'[p].pc = "entries"
    BY <1>0, <1>5 DEF IngestEntry, IngestTyped, RunState
  <2>4. NvdInv'
    BY <1>0, <2>2, <2>3, NvdFrame DEF Sources
  <2>5. GhsaInv'
    BY <1>0, <2>2, <2>3, GhsaFrame DEF Sources
  <2> QED BY <2>1, <2>2, <2>4, <2>5 DEF IngestInv
<1>6. ASSUME NEW r \in Runners, NEW bad, IngestPage(r, bad)
      PROVE  IngestInv'
  <2>1. IngestTyped' /\ InThePast'
    BY <1>0, <1>6, ProceedTyped
  <2>2. NvdInv' /\ \A s \in Sources, a \in Advisories : TakenIn(s, a) => TakenIn(s, a)'
    BY <1>0, <1>6, IngestPageKeeps
  <2>3. /\ UNCHANGED <<feed, etag, released>> /\ run[r].pc = "pages"
        /\ cursor'["osv"] = cursor["osv"] /\ cursor'["ghsa"] = cursor["ghsa"]
        /\ \A p \in Runners : p # r => run'[p] = run[p]
        /\ run'[r].pc \in {"pages", "idle"}
    BY <1>0, <1>6, NoRunTyped DEF IngestPage, NextWindow, UpdateCursor, IngestTyped, RunState, Sources
  <2>4. OsvInv'
    BY <1>0, <2>2, <2>3, OsvFrame DEF Sources
  <2>5. GhsaInv'
    BY <1>0, <2>2, <2>3, GhsaFrame DEF Sources
  <2> QED BY <2>1, <2>2, <2>4, <2>5 DEF IngestInv
<1>7. ASSUME NEW r \in Runners, NvdFails(r)
      PROVE  IngestInv'
  <2>1. IngestTyped' /\ InThePast'
    BY <1>0, <1>7, ProceedTyped
  <2>2. NvdInv'
    BY <1>0, <1>7, NvdFailsKeeps
  <2>3. /\ UNCHANGED <<feed, etag, released, written>> /\ run[r].pc = "pages"
        /\ cursor'["osv"] = cursor["osv"] /\ cursor'["ghsa"] = cursor["ghsa"]
        /\ \A p \in Runners : p # r => run'[p] = run[p]
        /\ run'[r].pc = "idle" /\ missed \subseteq missed'
    BY <1>0, <1>7, NoRunTyped DEF NvdFails, UpdateCursor, IngestTyped, Sources
  <2>4. \A s \in Sources, a \in Advisories : TakenIn(s, a) => TakenIn(s, a)'
    BY <2>3 DEF TakenIn
  <2>5. OsvInv'
    BY <1>0, <2>3, <2>4, OsvFrame DEF Sources
  <2>6. GhsaInv'
    BY <1>0, <2>3, <2>4, GhsaFrame DEF Sources
  <2> QED BY <2>1, <2>2, <2>5, <2>6 DEF IngestInv
<1>8. ASSUME NEW r \in Runners, NEW bad, IngestNodes(r, bad)
      PROVE  IngestInv'
  <2>1. IngestTyped' /\ InThePast'
    BY <1>0, <1>8, ProceedTyped
  <2>2. GhsaInv' /\ \A s \in Sources, a \in Advisories : TakenIn(s, a) => TakenIn(s, a)'
    BY <1>0, <1>8, IngestNodesKeeps
  <2>3. /\ UNCHANGED <<feed, etag, released>> /\ run[r].pc = "nodes"
        /\ cursor'["osv"] = cursor["osv"] /\ cursor'["nvd"] = cursor["nvd"]
        /\ \A p \in Runners : p # r => run'[p] = run[p]
        /\ run'[r].pc \in {"nodes", "idle"}
    <3> DEFINE top == MaxModified(run[r].top, Nodes(run[r]), feed["ghsa"])
    <3>1. /\ UNCHANGED <<feed, etag, released>> /\ run[r].pc = "nodes"
          /\ \/ run' = [run EXCEPT ![r] = NoRun] /\ cursor' = [cursor EXCEPT !["ghsa"] = top]
             \/ UNCHANGED cursor /\ \E a : run' = [run EXCEPT ![r].after = Place(a), ![r].top = top]
      BY <1>8 DEF IngestNodes, UpdateCursor
    <3> HIDE DEF top
    <3>2. CASE run' = [run EXCEPT ![r] = NoRun] /\ cursor' = [cursor EXCEPT !["ghsa"] = top]
      BY <1>0, <3>1, <3>2, NoRunTyped DEF IngestTyped, Sources
    <3>3. ASSUME NEW a, run' = [run EXCEPT ![r].after = Place(a), ![r].top = top], UNCHANGED cursor
          PROVE  (\A p \in Runners : p # r => run'[p] = run[p]) /\ run'[r].pc = run[r].pc
      BY <1>0, <3>3 DEF IngestTyped, RunState
    <3> QED BY <3>1, <3>2, <3>3
  <2>4. OsvInv'
    BY <1>0, <2>2, <2>3, OsvFrame DEF Sources
  <2>5. NvdInv'
    BY <1>0, <2>2, <2>3, NvdFrame DEF Sources
  <2> QED BY <2>1, <2>2, <2>4, <2>5 DEF IngestInv
<1>9. ASSUME NEW r \in Runners, GhsaFails(r)
      PROVE  IngestInv'
  <2>1. IngestTyped' /\ InThePast'
    BY <1>0, <1>9, ProceedTyped
  <2>2. GhsaInv'
    BY <1>0, <1>9, GhsaFailsKeeps
  <2>3. /\ UNCHANGED <<feed, etag, released, written, missed>> /\ run[r].pc = "nodes"
        /\ cursor'["osv"] = cursor["osv"] /\ cursor'["nvd"] = cursor["nvd"]
        /\ \A p \in Runners : p # r => run'[p] = run[p]
        /\ run'[r].pc = "idle"
    BY <1>0, <1>9, NoRunTyped DEF GhsaFails, UpdateCursor, IngestTyped, Sources
  <2>4. \A s \in Sources, a \in Advisories : TakenIn(s, a) => TakenIn(s, a)'
    BY <2>3 DEF TakenIn
  <2>5. OsvInv'
    BY <1>0, <2>3, <2>4, OsvFrame DEF Sources
  <2>6. NvdInv'
    BY <1>0, <2>3, <2>4, NvdFrame DEF Sources
  <2> QED BY <2>1, <2>2, <2>5, <2>6 DEF IngestInv
<1>10. CASE UNCHANGED ingestVars
  <2>1. UNCHANGED <<feed, etag, released, cursor, written, run, missed>>
    BY <1>10 DEF ingestVars
  <2>2. IngestTyped' /\ InThePast'
    BY <1>0, <2>1 DEF IngestTyped, InThePast
  <2>3. \A s \in Sources, a \in Advisories : TakenIn(s, a) => TakenIn(s, a)'
    BY <2>1 DEF TakenIn
  <2>4. NvdInv' /\ GhsaInv' /\ OsvInv'
    BY <1>0, <2>1, <2>3, NvdFrame, GhsaFrame, OsvFrame DEF Sources
  <2> QED BY <2>2, <2>4 DEF IngestInv
<1>11. CASE \E r \in Runners : Begins(r) \/ Proceeds(r) \/ Breaks(r)
  <2>1. PICK r \in Runners : Begins(r) \/ Proceeds(r) \/ Breaks(r)
    BY <1>11
  <2>2. CASE Begins(r)
    BY <1>3, <2>2
  <2>3. CASE Proceeds(r)
    BY <1>4, <1>5, <1>6, <1>8, <2>3 DEF Proceeds
  <2>4. CASE Breaks(r)
    BY <1>2, <1>4, <1>5, <1>6, <1>7, <1>8, <1>9, <2>4 DEF Breaks
  <2> QED BY <2>1, <2>2, <2>3, <2>4
<1> QED BY <1>1, <1>2, <1>10, <1>11 DEF IngestNext

\* A release of a feed an ingester reads is taken in once the cursor is past it,
\* or is one of the named exceptions: a page whose write failed, an archive that
\* was cut short or overtaken after download stored its ETag, NVD pages behind a
\* cursor that is not in their order.  It is so for any advisories, page sizes
\* and windows and for any number of runs started beside the scheduler's.
THEOREM IngestGapsExplained == IngestSpec => []GapsAreExplained
<1>1. IngestInv => GapsAreExplained
  <2> SUFFICES ASSUME IngestInv, NEW s \in Sources, NEW a \in Advisories, Covered(s, a)
               PROVE  TakenIn(s, a)
    BY DEF GapsAreExplained
  <2>1. CASE s = "osv"
    <3>1. cursor["osv"] = etag /\ Running("osv") = {}
      BY <2>1 DEF Covered
    <3>2. \A r \in Runners : ~OwedBy(run[r], a)
      BY <3>1 DEF Running, OwedBy, IngestInv, IngestTyped, SourceOf
    <3>3. EtagKnown
      BY <3>1 DEF EtagKnown
    <3> QED BY <2>1, <3>2, <3>3 DEF IngestInv, OsvInv
  <2>2. CASE s # "osv"
    <3>1. s \in {"nvd", "ghsa"} /\ feed[s][a] < cursor[s]
      BY <2>2 DEF Covered, Sources
    <3> QED BY <3>1 DEF IngestInv, NvdInv, GhsaInv
  <2> QED BY <2>1, <2>2
<1> QED BY <1>1, IngestInvInit, IngestInvStep, PTL DEF IngestSpec

----------------------------------------------------------------------------
(* The answers of the vulnerability database.  ReportsAffected speaks of the  *)
(* rows at the time of the query; the argument needs how the walk of decompose *)
(* left the rows of the events it has seen.                                   *)

EventSet == [kind : Openers \cup Closers, v : {Zero} \cup Versions[eco]]

\* The row a closing event makes of the introduced before it.
RowOf(low, ev) ==
    IF ev.kind = "fixed" THEN Bounds({low}, {ev.v}, {}) ELSE Bounds({low}, {}, {ev.v})

\* The events alternate and ascend.
Ascending(events) ==
    \A i \in 1..Len(events) :
        /\ i = 1 => events[i].kind = "introduced"
        /\ events[i].v = Zero => i = 1
        /\ events[i].v # Zero => VersionCompare(eco, events[i].v, events[i].v) # Err
        /\ i > 1 => /\ (events[i].kind = "introduced" <=> events[i - 1].kind # "introduced")
                    /\ events[i - 1].v # Zero =>
                           VersionCompare(eco, events[i - 1].v, events[i].v) \in
                               (IF events[i].kind = "last_affected" THEN {-1, 0} ELSE {-1})

\* What the walk holds after these events.
Walked(events) ==
    /\ walk = [open |-> walk.open, rows |-> walk.rows]
    /\ walk.open = {events[i].v : i \in {j \in 1..Len(events) : j = Len(events) /\ events[j].kind = "introduced"}}
    /\ walk.rows = {RowOf(events[i - 1].v, events[i]) :
                       i \in {j \in 2..Len(events) : events[j].kind \in {"fixed", "last_affected"}}}

MatchInv ==
    /\ eco \in Ecosystems /\ asked \in BOOLEAN
    /\ advisory = [form |-> advisory.form, events |-> advisory.events]
    /\ advisory.events \in Seq(EventSet)
    /\ advisory.form \in {"none", "ranges"} => Ascending(advisory.events) /\ Walked(advisory.events)
    /\ advisory.form = "ranges" => rows = Emitted(walk)
    /\ IF asked THEN reported = {v \in Versions[eco] : \E row \in rows : InRange(v, row)}
                ELSE reported = {}

LEMMA MatchInvInit == MatchInit => MatchInv
<1> SUFFICES ASSUME MatchInit PROVE MatchInv
  OBVIOUS
<1>1. advisory.events = <<>> /\ walk.open = {} /\ walk.rows = {} /\ advisory.form = "none"
      /\ advisory = [form |-> advisory.form, events |-> advisory.events]
      /\ walk = [open |-> walk.open, rows |-> walk.rows]
  BY DEF MatchInit, NoWalk
<1>2. <<>> \in Seq(EventSet) /\ Len(<<>>) = 0
  OBVIOUS
<1>3. Ascending(<<>>) /\ Walked(<<>>)
  BY <1>1, <1>2 DEF Ascending, Walked
<1> QED BY <1>1, <1>2, <1>3 DEF MatchInit, MatchInv

LEMMA WalkKeeps ==
  ASSUME MatchInv, NEW ev \in EventSet, IngestEvent(ev)
  PROVE  MatchInv'
<1> DEFINE events == advisory.events
           n == Len(events)
<1>1. /\ events \in Seq(EventSet) /\ Ascending(events) /\ Walked(events) /\ Extends(events, ev)
      /\ n \in Nat /\ advisory' = [form |-> "ranges", events |-> Append(events, ev)]
      /\ walk' = Walk(walk, ev) /\ rows' = Emitted(walk') /\ asked' = FALSE /\ reported' = {}
      /\ eco' = eco
  BY DEF MatchInv, IngestEvent, Ingest
<1>2. PICK new : new = Append(events, ev)
  OBVIOUS
<1>3. /\ new \in Seq(EventSet) /\ Len(new) = n + 1 /\ new[n + 1] = ev
      /\ \A i \in 1..n : new[i] = events[i] /\ events[i] \in EventSet
  BY <1>1, <1>2
<1> HIDE DEF events, n
<1>4. Ascending(new)
  <2> SUFFICES ASSUME NEW i \in 1..(n + 1)
               PROVE  /\ i = 1 => new[i].kind = "introduced"
                      /\ new[i].v = Zero => i = 1
                      /\ new[i].v # Zero => VersionCompare(eco, new[i].v, new[i].v) # Err
                      /\ i > 1 => /\ (new[i].kind = "introduced" <=> new[i - 1].kind # "introduced")
                                  /\ new[i - 1].v # Zero =>
                                       VersionCompare(eco, new[i - 1].v, new[i].v) \in
                                         (IF new[i].kind = "last_affected" THEN {-1, 0} ELSE {-1})
    BY <1>3 DEF Ascending
  <2>1. CASE i \in 1..n
    <3>1. new[i] = events[i] /\ (i > 1 => new[i - 1] = events[i - 1])
      BY <1>1, <1>3, <2>1
    <3> QED BY <1>1, <2>1, <3>1 DEF Ascending, n
  <2>2. CASE i = n + 1
    <3>1. new[i] = ev /\ (i > 1 => n \in 1..n /\ i - 1 = n /\ new[i - 1] = events[n] /\ events[n] \in EventSet)
      BY <1>1, <1>3, <2>2
    <3>2. /\ ev.v # Zero => VersionCompare(eco, ev.v, ev.v) # Err
          /\ n = 0 => ev.kind = "introduced"
          /\ n > 0 => (ev.kind = "introduced" <=> events[n].kind # "introduced")
          /\ ev.v = Zero => n = 0
          /\ n > 0 /\ events[n].v # Zero =>
               VersionCompare(eco, events[n].v, ev.v) \in
                   (IF ev.kind = "last_affected" THEN {-1, 0} ELSE {-1})
      <4>1. /\ Parses(ev.v)
            /\ ev.kind \in IF n = 0 \/ events[n].kind \in Closers THEN Openers ELSE Closers
            /\ ev.v = Zero => n = 0
            /\ n > 0 /\ events[n].v # Zero =>
                 VersionCompare(eco, events[n].v, ev.v) \in
                     (IF ev.kind = "last_affected" THEN {-1, 0} ELSE {-1})
        BY <1>1 DEF Extends, n
      <4>2. n > 0 => events[n].kind \in Openers \cup Closers
        BY <1>1, <2>2, <3>1 DEF EventSet
      <4> QED BY <1>1, <4>1, <4>2 DEF Parses, Openers, Closers
    <3> QED BY <1>1, <2>2, <3>1, <3>2
  <2> QED BY <1>1, <2>1, <2>2
<1>5. /\ n > 0 /\ ev.kind # "introduced" => n \in 1..n /\ events[n].kind = "introduced"
      /\ ev.kind # "introduced" => n > 0
      /\ ev.kind \in {"introduced", "fixed", "last_affected", "limit"}
  BY <1>1, <1>3 DEF Extends, Openers, Closers, EventSet, n
<1>6. /\ walk'.open = IF ev.kind = "introduced" THEN {ev.v} ELSE {}
      /\ walk'.rows = walk.rows \cup (IF ev.kind \in {"fixed", "last_affected"}
                                      THEN {RowOf(events[n].v, ev)} ELSE {})
      /\ walk' = [open |-> walk'.open, rows |-> walk'.rows]
  <2>1. walk = [open |-> walk.open, rows |-> walk.rows]
    BY <1>1 DEF Walked
  <2>2. ev.kind # "introduced" => walk.open = {events[n].v}
    BY <1>1, <1>5 DEF Walked, n
  <2>3. CASE ev.kind = "introduced"
    BY <1>1, <2>1, <2>3 DEF Walk
  <2>4. CASE ev.kind = "fixed"
    BY <1>1, <2>1, <2>2, <2>4 DEF Walk, RowOf
  <2>5. CASE ev.kind = "last_affected"
    BY <1>1, <2>1, <2>2, <2>5 DEF Walk, RowOf
  <2>6. CASE ev.kind = "limit"
    BY <1>1, <2>1, <2>6 DEF Walk
  <2> QED BY <1>5, <2>3, <2>4, <2>5, <2>6
<1>7. walk'.open = {new[i].v : i \in {j \in 1..Len(new) : j = Len(new) /\ new[j].kind = "introduced"}}
  <2>1. {j \in 1..Len(new) : j = Len(new) /\ new[j].kind = "introduced"}
            = IF ev.kind = "introduced" THEN {n + 1} ELSE {}
    BY <1>1, <1>3
  <2> QED BY <1>3, <1>6, <2>1
<1>8. walk'.rows = {RowOf(new[i - 1].v, new[i]) :
                       i \in {j \in 2..Len(new) : new[j].kind \in {"fixed", "last_affected"}}}
  <2> DEFINE I == {j \in 2..n : events[j].kind \in {"fixed", "last_affected"}}
             J == {j \in 2..Len(new) : new[j].kind \in {"fixed", "last_affected"}}
             one == IF ev.kind \in {"fixed", "last_affected"} THEN {n + 1} ELSE {}
  <2>1. J = I \cup one
    <3>1. \A j \in 2..(n + 1) : j \in 2..n \/ j = n + 1
      BY <1>1
    <3>2. \A j \in 2..n : j \in 1..n /\ j \in 2..(n + 1) /\ j # n + 1
      BY <1>1
    <3>3. ev.kind \in {"fixed", "last_affected"} => n + 1 \in 2..(n + 1)
      BY <1>1, <1>5
    <3> QED BY <1>3, <3>1, <3>2, <3>3
  <2>2. \A j \in I : RowOf(new[j - 1].v, new[j]) = RowOf(events[j - 1].v, events[j])
    <3> TAKE j \in I
    <3>1. j \in 1..n /\ j - 1 \in 1..n
      BY <1>1
    <3> QED BY <1>3, <3>1
  <2>3. \A j \in one : j = n + 1 /\ n > 0 /\ RowOf(new[j - 1].v, new[j]) = RowOf(events[n].v, ev)
    <3>1. ev.kind \in {"fixed", "last_affected"} => n \in 1..n /\ (n + 1) - 1 = n
      BY <1>1, <1>5
    <3> QED BY <1>3, <1>5, <3>1
  <2>4. walk.rows = {RowOf(events[j - 1].v, events[j]) : j \in I}
    BY <1>1 DEF Walked, n
  <2>5. {RowOf(new[j - 1].v, new[j]) : j \in one}
           = IF ev.kind \in {"fixed", "last_affected"} THEN {RowOf(events[n].v, ev)} ELSE {}
    BY <2>3
  <2>6. {RowOf(new[j - 1].v, new[j]) : j \in J}
           = {RowOf(events[j - 1].v, events[j]) : j \in I} \cup {RowOf(new[j - 1].v, new[j]) : j \in one}
    <3> HIDE DEF I, J, one
    <3> QED BY <2>1, <2>2
  <2> QED BY <1>6, <2>4, <2>5, <2>6
<1>9. /\ Ascending(advisory.events)' /\ Walked(advisory.events)'
      /\ advisory'.events \in Seq(EventSet)' /\ advisory' = [form |-> advisory'.form, events |-> advisory'.events]
  <2>1. advisory'.events = new /\ advisory' = [form |-> advisory'.form, events |-> advisory'.events]
    BY <1>1, <1>2
  <2>2. Ascending(advisory.events)'
    BY <1>1, <1>4, <2>1 DEF Ascending
  <2>3. Walked(advisory.events)'
    BY <1>6, <1>7, <1>8, <2>1 DEF Walked
  <2>4. EventSet' = EventSet
    BY <1>1 DEF EventSet
  <2> QED BY <1>3, <2>1, <2>2, <2>3, <2>4
<1> QED BY <1>1, <1>9 DEF MatchInv

LEMMA MatchInvStep == MatchInv /\ [MatchNext]_matchVars => MatchInv'
<1> SUFFICES ASSUME MatchInv, [MatchNext]_matchVars PROVE MatchInv'
  OBVIOUS
<1>1. ASSUME NEW k \in Openers \cup Closers, NEW v \in {Zero} \cup Versions[eco], IngestEvent([kind |-> k, v |-> v])
      PROVE  MatchInv'
  <2>1. [kind |-> k, v |-> v] \in EventSet
    BY DEF EventSet
  <2> QED BY <1>1, <2>1, WalkKeeps
<1>2. ASSUME NEW form \in {"versions", "constraints"}, NEW new, Ingest(form, <<>>, new), UNCHANGED walk
      PROVE  MatchInv'
  <2>1. /\ advisory' = [form |-> form, events |-> <<>>] /\ asked' = FALSE /\ reported' = {} /\ eco' = eco
    BY <1>2 DEF Ingest
  <2>2. <<>> \in Seq(EventSet)'
    OBVIOUS
  <2> QED BY <2>1, <2>2 DEF MatchInv
<1>3. CASE \E v, w \in Versions[eco] : IngestVersions(v, w)
  BY <1>2, <1>3 DEF IngestVersions
<1>4. ASSUME NEW parts, NEW patched, IngestConstraints(parts, patched)
      PROVE  MatchInv'
  BY <1>2, <1>4 DEF IngestConstraints
<1>5. CASE Query
  <2>1. UNCHANGED <<eco, advisory, walk, rows>> /\ asked' = TRUE
        /\ reported' = {v \in Versions[eco] : \E row \in rows : InRange(v, row)}
    BY <1>5 DEF Query
  <2>2. \A v, row : InRange(v, row)' <=> InRange(v, row)
    BY <2>1 DEF InRange
  <2>3. EventSet' = EventSet /\ (Ascending(advisory.events)' <=> Ascending(advisory.events))
        /\ (Walked(advisory.events)' <=> Walked(advisory.events)) /\ Emitted(walk)' = Emitted(walk)
    BY <2>1 DEF EventSet, Ascending, Walked, Emitted
  <2> QED BY <2>1, <2>2, <2>3 DEF MatchInv
<1>6. CASE UNCHANGED matchVars
  <2>1. UNCHANGED <<eco, advisory, walk, rows, asked, reported>>
    BY <1>6 DEF matchVars
  <2>2. \A v, row : InRange(v, row)' <=> InRange(v, row)
    BY <2>1 DEF InRange
  <2>3. EventSet' = EventSet /\ (Ascending(advisory.events)' <=> Ascending(advisory.events))
        /\ (Walked(advisory.events)' <=> Walked(advisory.events)) /\ Emitted(walk)' = Emitted(walk)
    BY <2>1 DEF EventSet, Ascending, Walked, Emitted
  <2> QED BY <2>1, <2>2, <2>3 DEF MatchInv
<1> QED BY <1>1, <1>3, <1>4, <1>5, <1>6 DEF MatchNext

\* A version the comparator puts in order with the events has reached all those
\* before one it has reached.
LEMMA ReachedInOrder ==
  ASSUME MatchInv, advisory.form = "ranges", NEW v \in Versions[eco], Comparable(v),
         NEW j \in 2..Len(advisory.events), Reaches(v, advisory.events[j])
  PROVE  Reaches(v, advisory.events[j - 1])
<1> DEFINE ev == advisory.events
           S == {v} \cup ({ev[i].v : i \in 1..Len(ev)} \ {Zero})
           a == ev[j - 1]
           b == ev[j]
<1>1. ev \in Seq(EventSet) /\ Ascending(ev) /\ Consistent(eco, S) /\ Len(ev) \in Nat
  BY DEF MatchInv, Comparable
<1>2. j \in 1..Len(ev) /\ j - 1 \in 1..Len(ev) /\ j > 1
  BY <1>1
<1>3. a.v \in S \/ a.v = Zero
  BY <1>2
<1>4. b.v \in S /\ b.v # Zero /\ v \in S
  BY <1>1, <1>2 DEF Ascending
<1>5. a.v # Zero => VersionCompare(eco, a.v, b.v) \in (IF b.kind = "last_affected" THEN {-1, 0} ELSE {-1})
  BY <1>1, <1>2 DEF Ascending
<1>6. a.kind = "last_affected" => b.kind = "introduced"
  BY <1>1, <1>2 DEF Ascending
<1>7. VersionCompare(eco, v, b.v) \in {0, 1}
  BY <1>4 DEF Reaches
<1> HIDE DEF S, a, b
<1>8. CASE a.v = Zero
  BY <1>8 DEF Reaches, a
<1>9. CASE a.v # Zero
  <2>1. /\ VersionCompare(eco, b.v, v) \in {-1, 0}
        /\ VersionCompare(eco, a.v, v) \in {-1, 0, 1}
        /\ VersionCompare(eco, v, a.v) = -VersionCompare(eco, a.v, v)
        /\ VersionCompare(eco, a.v, b.v) = -VersionCompare(eco, b.v, a.v)
        /\ VersionCompare(eco, v, a.v) \in {-1, 0, 1}
        /\ VersionCompare(eco, b.v, a.v) \in {-1, 0, 1}
    <3>1. VersionCompare(eco, v, b.v) = -VersionCompare(eco, b.v, v) /\ VersionCompare(eco, b.v, v) \in {-1, 0, 1}
      BY <1>1, <1>4 DEF Consistent
    <3>2. /\ VersionCompare(eco, a.v, v) \in {-1, 0, 1} /\ VersionCompare(eco, v, a.v) = -VersionCompare(eco, a.v, v)
          /\ VersionCompare(eco, a.v, b.v) = -VersionCompare(eco, b.v, a.v)
          /\ VersionCompare(eco, v, a.v) \in {-1, 0, 1} /\ VersionCompare(eco, b.v, a.v) \in {-1, 0, 1}
      BY <1>1, <1>3, <1>4, <1>9 DEF Consistent
    <3> QED BY <1>7, <3>1, <3>2
  <2>2. AtMost(eco, a.v, b.v) /\ AtMost(eco, b.v, v)
    BY <1>5, <1>9, <2>1 DEF AtMost
  <2>3. AtMost(eco, a.v, v)
    BY <1>1, <1>3, <1>4, <1>9, <2>2 DEF Consistent
  <2>4. CASE a.kind # "last_affected"
    BY <1>9, <2>1, <2>3, <2>4 DEF AtMost, Reaches, a
  <2>5. CASE a.kind = "last_affected"
    <3>1. VersionCompare(eco, a.v, b.v) = -1
      BY <1>5, <1>6, <1>9, <2>5
    <3>2. ~AtMost(eco, b.v, a.v)
      BY <2>1, <3>1 DEF AtMost
    <3>3. ~AtMost(eco, v, a.v)
      BY <1>1, <1>3, <1>4, <1>9, <2>2, <3>2 DEF Consistent
    <3>4. VersionCompare(eco, v, a.v) = 1
      BY <2>1, <3>3 DEF AtMost
    <3> QED BY <1>9, <2>5, <3>4 DEF Reaches, a
  <2> QED BY <2>4, <2>5
<1> QED BY <1>8, <1>9 DEF a

\* So what it has reached is an initial part of the events.
LEMMA ReachedIsInitial ==
  ASSUME MatchInv, advisory.form = "ranges", NEW v \in Versions[eco], Comparable(v),
         NEW i \in 1..Len(advisory.events), NEW m \in 1..Len(advisory.events), i <= m,
         Reaches(v, advisory.events[m])
  PROVE  Reaches(v, advisory.events[i])
<1> DEFINE ev == advisory.events
           T == {k \in 1..Len(ev) : i <= k /\ Reaches(v, ev[k])}
<1>0. Len(ev) \in Nat
  BY DEF MatchInv
<1>1. T \in SUBSET Nat /\ m \in T
  BY <1>0
<1>2. PICK k \in T : \A l \in T : k <= l
  BY <1>1, LeastNatural
<1>3. CASE k = i
  BY <1>2, <1>3
<1>4. CASE k # i
  <2>1. k \in 2..Len(ev) /\ k - 1 \in 1..Len(ev) /\ i <= k - 1 /\ ~(k <= k - 1)
    BY <1>0, <1>2, <1>4
  <2>2. Reaches(v, ev[k - 1])
    BY <1>2, <2>1, ReachedInOrder
  <2>3. k - 1 \in T
    BY <2>1, <2>2
  <2> QED BY <1>2, <2>1, <2>3
<1> QED BY <1>3, <1>4

\* The rows of the events, seen from a version that parses.
LEMMA RowsByEvents ==
  ASSUME MatchInv, advisory.form = "ranges", NEW v \in Versions[eco], Comparable(v)
  PROVE  (\E row \in rows : InRange(v, row)) <=>
            \E i \in 1..Len(advisory.events) :
                /\ advisory.events[i].kind = "introduced" /\ Reaches(v, advisory.events[i])
                /\ i < Len(advisory.events) =>
                       /\ advisory.events[i + 1].kind # "limit"
                       /\ ~Reaches(v, advisory.events[i + 1])
<1> DEFINE ev == advisory.events
           n == Len(ev)
           Hit(i) == /\ ev[i].kind = "introduced" /\ Reaches(v, ev[i])
                     /\ i < n => ev[i + 1].kind # "limit" /\ ~Reaches(v, ev[i + 1])
<1>1. /\ ev \in Seq(EventSet) /\ Ascending(ev) /\ Walked(ev) /\ rows = Emitted(walk) /\ n \in Nat
      /\ \A i \in 1..n : ev[i] \in EventSet
  BY DEF MatchInv
<1>2. \A i \in 1..n : ev[i].v # Zero => VersionCompare(eco, v, ev[i].v) \in {-1, 0, 1}
  BY DEF Comparable, Consistent
<1>4. ASSUME NEW j \in 2..n, ev[j].kind \in {"fixed", "last_affected"}
      PROVE  /\ j - 1 \in 1..n /\ j - 1 < n /\ (j - 1) + 1 = j /\ ev[j - 1].kind = "introduced"
             /\ InRange(v, RowOf(ev[j - 1].v, ev[j])) <=> Hit(j - 1)
  <2>1. j \in 1..n /\ j - 1 \in 1..n /\ j > 1 /\ j - 1 < n /\ (j - 1) + 1 = j
    BY <1>1
  <2>2. ev[j - 1].kind = "introduced" /\ ev[j].v # Zero
    BY <1>1, <1>4, <2>1 DEF Ascending
  <2>3. VersionCompare(eco, v, ev[j].v) \in {-1, 0, 1}
    BY <1>2, <2>1, <2>2
  <2>4. Hit(j - 1) <=> Reaches(v, ev[j - 1]) /\ ~Reaches(v, ev[j])
    BY <1>4, <2>1, <2>2
  <2>5. CASE ev[j].kind = "fixed"
    <3>1. RowOf(ev[j - 1].v, ev[j]) = Bounds({ev[j - 1].v}, {ev[j].v}, {})
      BY <2>5 DEF RowOf
    <3>2. ~Reaches(v, ev[j]) <=> VersionCompare(eco, v, ev[j].v) = -1
      BY <2>2, <2>3, <2>5 DEF Reaches
    <3>3. InRange(v, Bounds({ev[j - 1].v}, {ev[j].v}, {})) <=>
             Reaches(v, ev[j - 1]) /\ VersionCompare(eco, v, ev[j].v) = -1
      BY <2>2 DEF InRange, Bounds, Reaches
    <3> HIDE DEF Hit
    <3> QED BY <2>1, <2>2, <2>4, <3>1, <3>2, <3>3
  <2>6. CASE ev[j].kind = "last_affected"
    <3>1. RowOf(ev[j - 1].v, ev[j]) = Bounds({ev[j - 1].v}, {}, {ev[j].v})
      BY <2>6 DEF RowOf
    <3>2. ~Reaches(v, ev[j]) <=> VersionCompare(eco, v, ev[j].v) \in {-1, 0}
      BY <2>2, <2>3, <2>6 DEF Reaches
    <3>3. InRange(v, Bounds({ev[j - 1].v}, {}, {ev[j].v})) <=>
             Reaches(v, ev[j - 1]) /\ VersionCompare(eco, v, ev[j].v) \in {-1, 0}
      BY <2>2 DEF InRange, Bounds, Reaches
    <3> HIDE DEF Hit
    <3> QED BY <2>1, <2>2, <2>4, <3>1, <3>2, <3>3
  <2> QED BY <1>4, <2>5, <2>6
<1>5. ASSUME n \in 1..n, ev[n].kind = "introduced"
      PROVE  InRange(v, Bounds({ev[n].v}, {}, {})) <=> Hit(n)
  <2>1. ~(n < n)
    BY <1>1
  <2> QED BY <1>5, <2>1 DEF InRange, Bounds, Reaches
<1>6. ASSUME NEW row \in rows, InRange(v, row)
      PROVE  \E i \in 1..n : Hit(i)
  <2>1. CASE row \in walk.rows
    <3>1. PICK j \in 2..n : ev[j].kind \in {"fixed", "last_affected"} /\ row = RowOf(ev[j - 1].v, ev[j])
      BY <1>1, <2>1 DEF Walked
    <3> HIDE DEF Hit
    <3> QED BY <1>4, <1>6, <3>1
  <2>2. CASE row \notin walk.rows
    <3>1. PICK w \in walk.open : row = Bounds({w}, {}, {})
      BY <1>1, <1>6, <2>2 DEF Emitted
    <3>2. n \in 1..n /\ ev[n].kind = "introduced" /\ w = ev[n].v
      BY <1>1, <3>1 DEF Walked
    <3> HIDE DEF Hit
    <3> QED BY <1>5, <1>6, <3>1, <3>2
  <2> QED BY <2>1, <2>2
<1>7. ASSUME NEW i \in 1..n, Hit(i)
      PROVE  \E row \in rows : InRange(v, row)
  <2>1. CASE i < n
    <3>1. i + 1 \in 2..n /\ (i + 1) - 1 = i /\ i + 1 \in 1..n /\ i + 1 > 1
      BY <1>1, <2>1
    <3>2. ev[i + 1].kind \in {"fixed", "last_affected"}
      BY <1>1, <1>7, <2>1, <3>1 DEF Ascending, EventSet, Openers, Closers
    <3>3. RowOf(ev[i].v, ev[i + 1]) \in rows
      <4>1. RowOf(ev[i].v, ev[i + 1]) \in walk.rows
        BY <1>1, <3>1, <3>2 DEF Walked
      <4> QED BY <1>1, <4>1 DEF Emitted
    <3>4. InRange(v, RowOf(ev[i].v, ev[i + 1]))
      <4> HIDE DEF Hit
      <4> QED BY <1>4, <1>7, <3>1, <3>2
    <3> QED BY <3>3, <3>4
  <2>2. CASE ~(i < n)
    <3>1. i = n
      BY <1>1, <2>2
    <3>2. ev[n].v \in walk.open
      BY <1>1, <1>7, <3>1 DEF Walked
    <3>3. Bounds({ev[n].v}, {}, {}) \in rows
      BY <1>1, <3>2 DEF Emitted
    <3> QED BY <1>5, <1>7, <3>1, <3>3
  <2> QED BY <2>1, <2>2
<1> QED BY <1>6, <1>7

\* OSV's reading of the events says the same of such a version.
LEMMA AffectedByEvents ==
  ASSUME MatchInv, advisory.form = "ranges", NEW v \in Versions[eco], Comparable(v), Parses(v)
  PROVE  Affected(v) <=>
            \E i \in 1..Len(advisory.events) :
                /\ advisory.events[i].kind = "introduced" /\ Reaches(v, advisory.events[i])
                /\ i < Len(advisory.events) =>
                       /\ advisory.events[i + 1].kind # "limit"
                       /\ ~Reaches(v, advisory.events[i + 1])
<1> DEFINE ev == advisory.events
           n == Len(ev)
           past == {i \in 1..n : Reaches(v, ev[i])}
           Hit(i) == /\ ev[i].kind = "introduced" /\ Reaches(v, ev[i])
                     /\ i < n => ev[i + 1].kind # "limit" /\ ~Reaches(v, ev[i + 1])
<1>1. n \in Nat /\ past \in SUBSET (0..n)
  BY DEF MatchInv
<1>2. ASSUME past # {}
      PROVE  Max(past) \in past /\ \A i \in past : i <= Max(past)
  <2>1. PICK x \in past : \A y \in past : x >= y
    BY <1>1, <1>2, GreatestBelow
  <2>2. Max(past) \in past /\ \A y \in past : Max(past) >= y
    BY <2>1 DEF Max
  <2>3. past \in SUBSET Nat
    BY <1>1
  <2> HIDE DEF past
  <2> QED BY <2>2, <2>3
<1>3. Affected(v) <=> /\ past # {} /\ ev[Max(past)].kind = "introduced"
                      /\ Max(past) < n => ev[Max(past) + 1].kind # "limit"
  BY DEF Affected
<1>4. ASSUME Affected(v)
      PROVE  \E i \in 1..n : Hit(i)
  <2>1. PICK m \in past : m = Max(past)
    BY <1>2, <1>3, <1>4
  <2>2. m \in 1..n /\ Reaches(v, ev[m]) /\ ev[m].kind = "introduced"
        /\ (m < n => ev[m + 1].kind # "limit")
    BY <1>3, <1>4, <2>1
  <2>3. m < n => ~Reaches(v, ev[m + 1])
    <3> SUFFICES ASSUME m < n, Reaches(v, ev[m + 1]) PROVE FALSE
      OBVIOUS
    <3>1. m + 1 \in 1..n /\ ~(m + 1 <= m)
      BY <1>1, <2>2
    <3>2. m + 1 \in past
      BY <3>1
    <3> HIDE DEF past
    <3> QED BY <1>2, <2>1, <3>1, <3>2
  <2> QED BY <2>2, <2>3
<1>5. ASSUME NEW i \in 1..n, Hit(i)
      PROVE  Affected(v)
  <2>1. i \in past
    BY <1>5
  <2>2. PICK m \in past : m = Max(past) /\ i <= m
    BY <1>2, <2>1
  <2>3. m \in 1..n /\ Reaches(v, ev[m])
    BY <2>2
  <2>4. m = i
    <3> SUFFICES ASSUME m # i PROVE FALSE
      OBVIOUS
    <3>1. i < n /\ i + 1 \in 1..n /\ i + 1 <= m
      BY <1>1, <2>2, <2>3
    <3>2. Reaches(v, ev[i + 1])
      BY <2>3, <3>1, ReachedIsInitial
    <3> QED BY <1>5, <3>1, <3>2
  <2>5. ev[m].kind = "introduced" /\ (m < n => ev[m + 1].kind # "limit")
    BY <1>5, <2>4
  <2> QED BY <1>3, <2>1, <2>2, <2>5
<1> QED BY <1>4, <1>5

\* A version that does not parse is in an open range from "0" and no other.
LEMMA UnparsedByEvents ==
  ASSUME MatchInv, advisory.form = "ranges", NEW v \in Versions[eco], ~Parses(v)
  PROVE  (\E row \in rows : InRange(v, row)) <=> Affected(v)
<1> DEFINE ev == advisory.events
           n == Len(ev)
           zero == <<[kind |-> "introduced", v |-> Zero]>>
<1>1. /\ eco \in Ecosystems /\ Ascending(ev) /\ Walked(ev) /\ rows = Emitted(walk) /\ n \in Nat
      /\ ev \in Seq(EventSet) /\ \A i \in 1..n : ev[i] \in EventSet
  BY DEF MatchInv
<1>2. \A w \in Versions[eco] : VersionCompare(eco, v, w) = Err
  BY <1>1, MatchAssumption DEF Parses
<1>3. \A i \in 1..n : ev[i].v # Zero => VersionCompare(eco, v, ev[i].v) = Err
  BY <1>1, <1>2 DEF EventSet
<1>4. ASSUME NEW row \in rows, InRange(v, row)
      PROVE  ev = zero
  <2>1. ASSUME NEW j \in 2..n, ev[j].kind \in {"fixed", "last_affected"}, row = RowOf(ev[j - 1].v, ev[j])
        PROVE  FALSE
    <3>1. j \in 1..n /\ j # 1
      BY <1>1
    <3>2. ev[j].v # Zero
      BY <1>1, <3>1 DEF Ascending
    <3>3. VersionCompare(eco, v, ev[j].v) = Err
      BY <1>3, <3>1, <3>2
    <3> QED BY <1>4, <2>1, <3>3 DEF RowOf, Bounds, InRange, Err
  <2>2. row \notin walk.rows
    BY <1>1, <2>1 DEF Walked
  <2>3. PICK w \in walk.open : row = Bounds({w}, {}, {})
    BY <1>1, <2>2 DEF Emitted
  <2>4. n \in 1..n /\ ev[n].kind = "introduced" /\ w = ev[n].v
    BY <1>1, <2>3 DEF Walked
  <2>5. ev[n].v = Zero
    BY <1>3, <1>4, <2>3, <2>4 DEF Bounds, InRange, Err
  <2>6. n = 1
    BY <1>1, <2>4, <2>5 DEF Ascending
  <2>7. ev[1] = [kind |-> "introduced", v |-> Zero]
    BY <1>1, <2>4, <2>5, <2>6 DEF EventSet
  <2> QED BY <1>1, <2>6, <2>7
<1>5. ASSUME ev = zero
      PROVE  \E row \in rows : InRange(v, row)
  <2>1. n = 1 /\ ev[1].kind = "introduced" /\ ev[1].v = Zero
    BY <1>5
  <2>2. Zero \in walk.open
    BY <1>1, <2>1 DEF Walked
  <2>3. Bounds({Zero}, {}, {}) \in rows
    BY <1>1, <2>2 DEF Emitted
  <2> QED BY <2>3 DEF InRange, Bounds
<1>6. Affected(v) <=> ev = zero
  BY DEF Affected
<1> QED BY <1>4, <1>5, <1>6

\* query reports a version of an advisory with events if and only if the events
\* cover it: for any number of events, any versions and any comparator, of the
\* versions it puts in order with the bounds and of those it cannot parse.
THEOREM QueriesReportAffected == MatchSpec => []ReportsAffected
<1>1. MatchInv => ReportsAffected
  <2> SUFFICES ASSUME MatchInv, advisory.form = "ranges", asked, NEW v \in Versions[eco],
                      Parses(v) => Comparable(v)
               PROVE  v \in reported <=> Affected(v)
    BY DEF ReportsAffected
  <2>1. v \in reported <=> \E row \in rows : InRange(v, row)
    BY DEF MatchInv
  <2>2. CASE Parses(v)
    BY <2>1, <2>2, RowsByEvents, AffectedByEvents
  <2>3. CASE ~Parses(v)
    BY <2>1, <2>3, UnparsedByEvents
  <2> QED BY <2>2, <2>3
<1> QED BY <1>1, MatchInvInit, MatchInvStep, PTL DEF MatchSpec

\* No row leaves a hole (NoHoles) wherever the comparators of deb.rs, rpm.rs, apk.rs and
\* pep440.rs put the firm versions that parse in order, which is the other half of
\* BetweenIsReported: in_range needs no more of them, whatever the bounds and the
\* versions, those that do not parse included.
THEOREM RowsHaveNoHoles ==
  ASSUME FirmIsOrdered
  PROVE  MatchSpec => []BetweenIsReported
<1>1. MatchInv => NoHoles
  <2> SUFFICES ASSUME MatchInv, NEW row \in rows, rows = {row},
                      row.introduced \subseteq Firm[eco] \cup {Zero}, row.fixed \cup row.last \subseteq Firm[eco],
                      NEW v \in Firm[eco], NEW u \in reported, NEW w \in reported,
                      u \in Firm[eco], w \in Firm[eco], AtMost(eco, u, v), AtMost(eco, v, w)
               PROVE  v \in reported
    BY DEF NoHoles
  <2> DEFINE P == FirmParsed(eco)
  <2>1. /\ eco \in Ecosystems /\ Consistent(eco, P) /\ v \in Versions[eco]
        /\ reported = {x \in Versions[eco] : InRange(x, row)}
        /\ InRange(u, row) /\ InRange(w, row)
    BY MatchAssumption DEF MatchInv, FirmIsOrdered
  <2>2. \A x, y \in Firm[eco] : VersionCompare(eco, x, y) \in {-1, 0, 1} => x \in P /\ y \in P
    BY <2>1, MatchAssumption DEF FirmParsed, Err
  <2>3. u \in P /\ v \in P /\ w \in P
    BY <2>2 DEF AtMost
  <2> HIDE DEF P
  <2>4. \A x, y \in P : /\ VersionCompare(eco, x, y) \in {-1, 0, 1}
                        /\ VersionCompare(eco, x, y) = -VersionCompare(eco, y, x)
    BY <2>1 DEF Consistent
  <2>5. \A x, y, z \in P : AtMost(eco, x, y) /\ AtMost(eco, y, z) => AtMost(eco, x, z)
    BY <2>1 DEF Consistent
  <2>6. ASSUME NEW b \in row.introduced, b # Zero
        PROVE  VersionCompare(eco, v, b) \in {0, 1}
    <3>1. b \in P /\ VersionCompare(eco, u, b) \in {0, 1}
      BY <2>1, <2>6, <2>2 DEF InRange
    <3>2. AtMost(eco, b, u)
      BY <2>4, <2>3, <3>1 DEF AtMost
    <3>3. AtMost(eco, b, v)
      BY <2>5, <2>3, <3>1, <3>2
    <3> QED BY <2>4, <2>3, <3>1, <3>3 DEF AtMost
  <2>7. ASSUME NEW b \in row.fixed
        PROVE  VersionCompare(eco, v, b) = -1
    <3>1. b \in P /\ VersionCompare(eco, w, b) = -1
      BY <2>1, <2>2 DEF InRange
    <3>2. ~AtMost(eco, b, w)
      BY <2>4, <2>3, <3>1 DEF AtMost
    <3>3. ~AtMost(eco, b, v)
      BY <2>5, <2>3, <3>1, <3>2
    <3> QED BY <2>4, <2>3, <3>1, <3>3 DEF AtMost
  <2>8. ASSUME NEW b \in row.last
        PROVE  VersionCompare(eco, v, b) \in {-1, 0}
    <3>1. b \in P /\ AtMost(eco, w, b)
      BY <2>1, <2>2 DEF InRange, AtMost
    <3> QED BY <2>5, <2>3, <3>1 DEF AtMost
  <2>9. InRange(v, row)
    BY <2>6, <2>7, <2>8 DEF InRange
  <2> QED BY <2>1, <2>9
<1>2. MatchInv => BetweenIsReported
  BY <1>1 DEF BetweenIsReported, FirmIsOrdered, MatchInv
<1> QED BY <1>2, MatchInvInit, MatchInvStep, PTL DEF MatchSpec

=============================================================================
