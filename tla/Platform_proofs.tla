--------------------------- MODULE Platform_proofs ---------------------------
(***************************************************************************)
(* Proofs about the parts of the platform around the store: its circuit    *)
(* breaker, blob uploads, tag expiry, the importer, the assistant's        *)
(* budget, the pull-through mirror, the lazy-pull queue and the scanner's  *)
(* jobs.  Each section states the inductive invariant its theorem needs    *)
(* and has one lemma per group of actions.                                 *)
(***************************************************************************)
EXTENDS ResilientStore, Uploads, Expiry, Importer, Pilot, Mirror, LazyJobs,
        ScanGate, Integers, FiniteSetTheorems, TLAPS

----------------------------------------------------------------------------
(* The circuit breaker of the object store, for every number of callers,      *)
(* every threshold and every retry bound.                                     *)

\* A call of the store, typed.
CallType == [pc : {"idle", "checked", "running", "done"}, op : Ops,
             attempt : 0..MaxRetries, result : Results]

\* A call that has not started is well-formed.
LEMMA IdleCallTyped == IdleCall \in CallType
BY ThresholdAssumption DEF IdleCall, CallType, Ops, Results

\* A new breaker is closed with a zero counter.
LEMMA TypeInit == Init => TypeOK
<1> SUFFICES ASSUME Init PROVE TypeOK
  OBVIOUS
<1>1. call \in [Callers -> CallType]
  BY IdleCallTyped DEF Init
<1>2. /\ state \in {"closed", "open", "half_open"}
      /\ count \in Nat
      /\ state = "closed" => count < FailureThreshold
      /\ state = "half_open" => count < SuccessThreshold
  BY ThresholdAssumption DEF Init
<1>3. cooled \in BOOLEAN /\ down \in BOOLEAN /\ outage \in BOOLEAN /\ early \subseteq Callers
  BY DEF Init
<1> QED BY <1>1, <1>2, <1>3 DEF TypeOK, CallType

(***************************************************************************)
(* What the two recording functions do to the state and its counter.       *)
(***************************************************************************)
LEMMA RecordTyped ==
  ASSUME TypeOK, RecordSuccess \/ RecordFailure
  PROVE  /\ state' \in {"closed", "open", "half_open"}
         /\ count' \in Nat
         /\ state' = "closed" => count' < FailureThreshold
         /\ state' = "half_open" => count' < SuccessThreshold
<1>1. CASE RecordSuccess
  BY <1>1, ThresholdAssumption DEF TypeOK, RecordSuccess
<1>2. CASE RecordFailure
  <2>1. CASE state = "closed" /\ count + 1 < FailureThreshold
    BY <1>2, <2>1, ThresholdAssumption DEF TypeOK, RecordFailure
  <2>2. CASE state = "open"
    BY <1>2, <2>2, ThresholdAssumption DEF TypeOK, RecordFailure
  <2>3. CASE ~(state = "closed" /\ count + 1 < FailureThreshold) /\ state # "open"
    BY <1>2, <2>3, ThresholdAssumption DEF TypeOK, RecordFailure
  <2> QED BY <2>1, <2>2, <2>3
<1> QED BY <1>1, <1>2

\* Every lock acquisition, attempt and clock step keeps the types and bounds.
LEMMA TypeNext == TypeOK /\ [Next]_vars => TypeOK'
<1> SUFFICES ASSUME TypeOK, [Next]_vars PROVE TypeOK'
  OBVIOUS
<1> USE ThresholdAssumption
<1>0. /\ call \in [Callers -> CallType]
      /\ early \subseteq Callers
  BY DEF TypeOK, CallType
<1>1. ASSUME NEW c \in Callers, NEW op \in Ops, Check(c, op) PROVE TypeOK'
  <2>1. [IdleCall EXCEPT !.pc = "checked", !.op = op] \in CallType
    BY IdleCallTyped DEF CallType
  <2>2. call' \in [Callers -> CallType]
    BY <1>0, <1>1, <2>1 DEF Check
  <2> QED BY <1>1, <2>2 DEF Check, TypeOK, CallType
<1>2. ASSUME NEW c \in Callers, Admit(c) PROVE TypeOK'
  <2>1. [call[c] EXCEPT !.pc = "running"] \in CallType
    BY <1>0 DEF CallType
  <2>2. call' \in [Callers -> CallType]
    BY <1>0, <1>2, <2>1 DEF Admit
  <2> QED BY <1>2, <2>2 DEF Admit, TypeOK, CallType
<1>3. ASSUME NEW c \in Callers, NEW answer \in Results, Attempt(c, answer) PROVE TypeOK'
  <2>1. call' \in [Callers -> CallType]
    <3>1. CASE answer = "ok" \/ call[c].attempt >= MaxRetries
      BY <1>0, <1>3, <3>1 DEF Attempt, CallType
    <3>2. CASE ~(answer = "ok" \/ call[c].attempt >= MaxRetries)
      BY <1>0, <1>3, <3>2 DEF Attempt, CallType
    <3> QED BY <3>1, <3>2
  <2> QED BY <1>3, <2>1 DEF Attempt, TypeOK, CallType
<1>4. ASSUME NEW c \in Callers, Record(c) PROVE TypeOK'
  <2>1. call' \in [Callers -> CallType]
    BY <1>0, <1>4, IdleCallTyped DEF Record
  <2>2. early' \subseteq Callers
    BY <1>0, <1>4 DEF Record, InFlight
  <2>3. cooled' \in BOOLEAN
    BY <1>4 DEF Record, TypeOK
  <2>4. RecordSuccess \/ RecordFailure
    BY <1>4 DEF Record
  <2> QED BY <1>4, <2>1, <2>2, <2>3, <2>4, RecordTyped DEF Record, TypeOK, CallType
<1>5. ASSUME NEW c \in Callers, Drop(c) PROVE TypeOK'
  <2>1. call' \in [Callers -> CallType]
    BY <1>0, <1>5, IdleCallTyped DEF Drop
  <2> QED BY <1>5, <2>1 DEF Drop, TypeOK, CallType
<1>6. CASE Cool
  BY <1>6 DEF Cool, TypeOK
<1>7. CASE BackendChanges
  BY <1>7 DEF BackendChanges, TypeOK
<1>8. CASE UNCHANGED vars
  BY <1>8 DEF vars, TypeOK
<1> QED BY <1>1, <1>2, <1>3, <1>4, <1>5, <1>6, <1>7, <1>8 DEF Next, CallStep

(***************************************************************************)
(* The breaker's counters stay below their thresholds, so that a threshold *)
(* is acted on the moment it is reached, and execute_labeled makes at most *)
(* max_retries + 1 attempts.                                               *)
(***************************************************************************)
THEOREM BreakerTyped == Spec => []TypeOK
BY TypeInit, TypeNext, PTL DEF Spec

(***************************************************************************)
(* OpenLetsNobodyIn is inductive with the type invariant: the breaker      *)
(* opens only in Record, which puts every other call in flight into early. *)
(***************************************************************************)
LEMMA OpenInit == Init => OpenLetsNobodyIn
BY DEF Init, OpenLetsNobodyIn

\* No step lets a call into an open breaker that has not cooled down.
LEMMA OpenNext == TypeOK /\ OpenLetsNobodyIn /\ [Next]_vars => OpenLetsNobodyIn'
<1> SUFFICES ASSUME TypeOK, OpenLetsNobodyIn, [Next]_vars PROVE OpenLetsNobodyIn'
  OBVIOUS
<1>0. call \in [Callers -> CallType]
  BY DEF TypeOK, CallType
<1>1. ASSUME NEW c \in Callers, NEW op \in Ops, Check(c, op) PROVE OpenLetsNobodyIn'
  <2>1. call'[c].pc = "checked" /\ \A d \in Callers \ {c} : call'[d] = call[d]
    BY <1>0, <1>1 DEF Check, IdleCall
  <2> QED BY <1>1, <2>1 DEF Check, OpenLetsNobodyIn, InFlight
<1>2. ASSUME NEW c \in Callers, Admit(c) PROVE OpenLetsNobodyIn'
  <2>1. \A d \in Callers \ {c} : call'[d] = call[d]
    BY <1>0, <1>2 DEF Admit
  <2>2. ASSUME state' = "open" PROVE c \in early
    BY <1>2, <2>2 DEF Admit, OpenLetsNobodyIn, InFlight
  <2> QED BY <1>2, <2>1, <2>2 DEF Admit, OpenLetsNobodyIn, InFlight
<1>3. ASSUME NEW c \in Callers, NEW answer \in Results, Attempt(c, answer)
      PROVE OpenLetsNobodyIn'
  <2>1. \A d \in Callers \ {c} : call'[d] = call[d]
    BY <1>0, <1>3 DEF Attempt
  <2>2. ASSUME state' = "open" PROVE c \in early
    BY <1>3, <2>2 DEF Attempt, OpenLetsNobodyIn, InFlight
  <2> QED BY <1>3, <2>1, <2>2 DEF Attempt, OpenLetsNobodyIn, InFlight
<1>4. ASSUME NEW c \in Callers, Record(c) PROVE OpenLetsNobodyIn'
  <2>1. call'[c].pc = "idle" /\ \A d \in Callers \ {c} : call'[d] = call[d]
    BY <1>0, <1>4 DEF Record, IdleCall
  <2>2. CASE Opens
    BY <1>4, <2>1, <2>2 DEF Record, OpenLetsNobodyIn, InFlight
  <2>3. CASE ~Opens
    BY <1>4, <2>1, <2>3 DEF Record, OpenLetsNobodyIn, InFlight, Opens
  <2> QED BY <2>2, <2>3
<1>5. ASSUME NEW c \in Callers, Drop(c) PROVE OpenLetsNobodyIn'
  <2>1. call'[c].pc = "idle" /\ \A d \in Callers \ {c} : call'[d] = call[d]
    BY <1>0, <1>5 DEF Drop, IdleCall
  <2> QED BY <1>5, <2>1 DEF Drop, OpenLetsNobodyIn, InFlight
<1>6. CASE Cool
  BY <1>6 DEF Cool, OpenLetsNobodyIn, InFlight
<1>7. CASE BackendChanges
  BY <1>7 DEF BackendChanges, OpenLetsNobodyIn, InFlight
<1>8. CASE UNCHANGED vars
  BY <1>8 DEF vars, OpenLetsNobodyIn, InFlight
<1> QED BY <1>1, <1>2, <1>3, <1>4, <1>5, <1>6, <1>7, <1>8 DEF Next, CallStep

(***************************************************************************)
(* call_classified: while the breaker is open, every call in flight was    *)
(* let in before it opened, or has seen the cool-down over and is about to *)
(* move the breaker to half-open.                                          *)
(***************************************************************************)
THEOREM OpenIsClosedToNewCalls == Spec => []OpenLetsNobodyIn
BY TypeInit, TypeNext, OpenInit, OpenNext, PTL DEF Spec

----------------------------------------------------------------------------
(* Blob uploads.  A request that writes the blob carries the whole content,   *)
(* and only requests behind such a write touch the session's existence.       *)

\* Where a request is.
HandlerState == [pc : {"unsent", "write", "clean", "notify", "audit", "answered"},
                 data : Seq(Chunks), parts : SUBSET Nat, failed : SUBSET Nat]

\* What holds of request r in state q while the blob is b.
Behaves(r, q, b) ==
    /\ q.pc = "write" => /\ r \in Puts => q.data = Whole
                         /\ ~(Len(q.data) > Threshold) => q.failed = {}
    /\ q.pc \in {"clean", "notify", "audit"} => b = Whole

\* The inductive invariant of uploads.
UploadInv ==
    /\ session \in Seq(Chunks) \cup {NoObject}
    /\ req \in [Requests -> HandlerState]
    /\ \A r \in Requests : Behaves(r, req[r], blob)
    /\ BlobsAreWhole

\* The records a handler's state is built from.
LEMMA HandlerRecords ==
  /\ Unsent \in HandlerState /\ Unsent.pc = "unsent"
  /\ Answered \in HandlerState /\ Answered.pc = "answered"
<1>1. <<>> \in Seq(Chunks) /\ {} \in SUBSET Nat
  OBVIOUS
<1>2. Unsent \in HandlerState /\ Unsent.pc = "unsent"
  BY <1>1 DEF Unsent, HandlerState
<1>3. \A u \in HandlerState : LET a == [u EXCEPT !.pc = "answered"] IN a \in HandlerState /\ a.pc = "answered"
  BY DEF HandlerState
<1> QED BY <1>2, <1>3 DEF Answered

\* With no failed part the store assembles exactly what was sent.
LEMMA AssembledWhole ==
  ASSUME NEW r \in Requests, NEW data \in Seq(Chunks), req[r].data = data, req[r].failed = {}
  PROVE  Assembled(r) = data
<1>1. PICK n \in Nat : n = Len(data)
  OBVIOUS
<1>2. Kept(r) = 1..n
  BY <1>1 DEF Kept
<1>3. \A i \in 0..n : Cardinality(1..i) = i
  <2> SUFFICES ASSUME NEW i \in 0..n PROVE Cardinality(1..i) = i
    OBVIOUS
  <2>1. Cardinality(1..i) = IF 1 > i THEN 0 ELSE i - 1 + 1
    BY FS_Interval
  <2> QED BY <2>1
<1>4. ASSUME NEW k \in 1..n
      PROVE  (CHOOSE i \in 1..n : Cardinality({j \in 1..n : j <= i}) = k) = k
  <2>1. \A i \in 1..n : {j \in 1..n : j <= i} = 1..i
    OBVIOUS
  <2>2. ASSUME NEW i \in 1..n PROVE Cardinality({j \in 1..n : j <= i}) = i
    <3>1. {j \in 1..n : j <= i} = 1..i
      BY <2>1
    <3>2. Cardinality(1..i) = i
      BY <1>3
    <3> QED BY <3>1, <3>2
  <2> QED BY <2>2
<1>5. Cardinality(1..n) = n
  BY <1>3
<1>6. Assembled(r) = [k \in 1..n |-> data[CHOOSE i \in 1..n : Cardinality({j \in 1..n : j <= i}) = k]]
  BY <1>2, <1>5 DEF Assembled
<1>7. Assembled(r) = [k \in 1..n |-> data[k]]
  BY <1>4, <1>6
<1> QED BY <1>1, <1>7

\* The session starts as an empty placeholder.
LEMMA UploadInvInit == UpInit => UploadInv
<1> SUFFICES ASSUME UpInit PROVE UploadInv
  OBVIOUS
<1>1. session = <<>> /\ blob = NoObject /\ req = [r \in Requests |-> Unsent]
  BY DEF UpInit
<1>2. <<>> \in Seq(Chunks) /\ <<>> # NoObject
  <2>1. <<>> \in Seq(Chunks)
    OBVIOUS
  <2>2. NoObject \notin Seq(Chunks)
    BY UploadAssumption
  <2> QED BY <2>1, <2>2
<1>3. req \in [Requests -> HandlerState] /\ \A r \in Requests : req[r].pc = "unsent"
  BY <1>1, HandlerRecords
<1> QED BY <1>1, <1>2, <1>3 DEF UploadInv, BlobsAreWhole, Behaves

\* One request moves; the blob is as it was, or whole.
LEMMA HandlerMoves ==
  ASSUME UploadInv, NEW r \in Requests, NEW q \in HandlerState, req' = [req EXCEPT ![r] = q],
         Behaves(r, q, blob'), blob' = blob \/ blob' = Whole,
         session' = session \/ session' \in Seq(Chunks) \/ (session' = NoObject /\ blob' = Whole)
  PROVE  UploadInv'
<1>1. req' \in [Requests -> HandlerState]
  BY DEF UploadInv
<1>2. \A o \in Requests : Behaves(o, req'[o], blob')
  <2> SUFFICES ASSUME NEW o \in Requests PROVE Behaves(o, req'[o], blob')
    OBVIOUS
  <2>1. CASE o = r
    BY <2>1 DEF UploadInv
  <2>2. CASE o # r
    BY <2>2 DEF UploadInv, Behaves
  <2> QED BY <2>1, <2>2
<1>3. NoObject \notin Seq(Chunks)
  BY UploadAssumption
<1>4. session' \in Seq(Chunks) \cup {NoObject} /\ BlobsAreWhole'
  BY <1>3 DEF UploadInv, BlobsAreWhole
<1> QED BY <1>1, <1>2, <1>4 DEF UploadInv

\* A request reads the session; a PUT is let on only with the whole content.
LEMMA ReadKeeps ==
  ASSUME UploadInv, NEW r \in Requests, ReadSession(r)
  PROVE  UploadInv'
<1>1. UNCHANGED <<session, blob>>
  BY DEF ReadSession
<1>2. CASE session # NoObject /\ Acceptable(r, session \o Body[r])
  <2>1. PICK data \in Seq(Chunks) : data = session \o Body[r]
    <3>1. session \in Seq(Chunks)
      BY <1>2 DEF UploadInv
    <3>2. Body[r] \in Seq(Chunks)
      BY UploadAssumption
    <3>3. session \o Body[r] \in Seq(Chunks)
      BY <3>1, <3>2
    <3> QED BY <3>3
  <2>2. PICK q : q = [Unsent EXCEPT !.pc = "write", !.data = data]
    OBVIOUS
  <2>3. q \in HandlerState /\ q.pc = "write" /\ q.data = data /\ q.failed = {}
    <3>1. PICK u \in HandlerState : u = Unsent /\ u.failed = {}
      BY HandlerRecords DEF Unsent
    <3>2. q = [u EXCEPT !.pc = "write", !.data = data]
      BY <2>2, <3>1
    <3> QED BY <3>1, <3>2 DEF HandlerState
  <2>4. req' = [req EXCEPT ![r] = q]
    BY <1>2, <2>1, <2>2 DEF ReadSession
  <2>5. Behaves(r, q, blob')
    BY <1>2, <2>1, <2>3 DEF Behaves, Acceptable
  <2> QED BY <1>1, <2>3, <2>4, <2>5, HandlerMoves
<1>3. CASE ~(session # NoObject /\ Acceptable(r, session \o Body[r]))
  <2>1. req' = [req EXCEPT ![r] = Answered]
    BY <1>3 DEF ReadSession
  <2> QED BY <1>1, <2>1, HandlerRecords, HandlerMoves DEF Behaves
<1> QED BY <1>2, <1>3

\* A part of a multipart write is stored or fails.
LEMMA PartKeeps ==
  ASSUME UploadInv, NEW r \in Requests, NEW i \in 1..Len(req[r].data), NEW fails \in BOOLEAN,
         PutPart(r, i, fails)
  PROVE  UploadInv'
<1>1. PICK q \in HandlerState : q = req[r]
  BY DEF UploadInv
<1>2. i \in Nat
  BY <1>1 DEF HandlerState
<1>3. PICK parts \in SUBSET Nat, failed \in SUBSET Nat :
         parts = q.parts \cup {i} /\ failed = IF fails THEN q.failed \cup {i} ELSE q.failed
  BY <1>2 DEF HandlerState
<1>4. PICK n : n = [q EXCEPT !.parts = parts, !.failed = failed]
  OBVIOUS
<1>5. n \in HandlerState /\ n.pc = q.pc /\ n.data = q.data
  BY <1>4 DEF HandlerState
<1>6. UNCHANGED <<session, blob>> /\ q.pc = "write" /\ Len(q.data) > Threshold
  BY <1>1 DEF PutPart, Multipart
<1>7. req' = [req EXCEPT ![r] = n]
  <2>1. req' = [req EXCEPT ![r].parts = @ \cup {i}, ![r].failed = IF fails THEN @ \cup {i} ELSE @]
    BY DEF PutPart
  <2> QED BY <1>1, <1>3, <1>4, <2>1 DEF UploadInv
<1>8. Behaves(r, n, blob')
  BY <1>1, <1>5, <1>6 DEF UploadInv, Behaves
<1> QED BY <1>5, <1>6, <1>7, <1>8, HandlerMoves

\* The blob is written by a request that carries the whole content.
LEMMA PutObjectKeeps ==
  ASSUME UploadInv, NEW r \in Requests, PutObject(r)
  PROVE  UploadInv'
<1>1. PICK data \in Seq(Chunks) : data = req[r].data
  BY DEF UploadInv, HandlerState
<1>2. req[r].pc = "write" /\ req[r].failed = {}
  BY DEF PutObject, Ready, Multipart, UploadInv, Behaves
<1>3. Assembled(r) = data
  BY <1>1, <1>2, AssembledWhole
<1>4. CASE r \in Puts
  <2>1. PICK q : q = [Unsent EXCEPT !.pc = "clean"]
    OBVIOUS
  <2>2. q \in HandlerState /\ q.pc = "clean"
    <3>1. PICK u \in HandlerState : u = Unsent
      BY HandlerRecords
    <3> QED BY <2>1, <3>1 DEF HandlerState
  <2>3. data = Whole
    BY <1>1, <1>2, <1>4 DEF UploadInv, Behaves
  <2>4. blob' = Whole /\ session' = session /\ req' = [req EXCEPT ![r] = q]
    BY <1>3, <1>4, <2>1, <2>3 DEF PutObject
  <2>5. Behaves(r, q, blob')
    BY <2>2, <2>4 DEF Behaves
  <2> QED BY <2>2, <2>4, <2>5, HandlerMoves
<1>5. CASE r \notin Puts
  <2>1. blob' = blob /\ session' = data /\ req' = [req EXCEPT ![r] = Answered]
    BY <1>3, <1>5 DEF PutObject
  <2> QED BY <2>1, HandlerRecords, HandlerMoves DEF Behaves
<1> QED BY <1>4, <1>5

\* The session is deleted behind the write of the blob.
LEMMA CompletionKeeps ==
  ASSUME UploadInv, NEW r \in Requests,
         \/ \E fails \in BOOLEAN : DeleteSession(r, fails)
         \/ NotifyWebhooks(r) \/ RecordPush(r) \/ AbortUpload(r) \/ Abandon(r)
  PROVE  UploadInv'
<1>1. PICK q \in HandlerState : q = req[r]
  BY DEF UploadInv
<1>2. blob' = blob
  BY DEF DeleteSession, NotifyWebhooks, RecordPush, AbortUpload, Abandon
<1>3. CASE RecordPush(r) \/ AbortUpload(r) \/ Abandon(r)
  <2>1. session' = session /\ req' = [req EXCEPT ![r] = Answered]
    BY <1>3 DEF RecordPush, AbortUpload, Abandon
  <2> QED BY <1>2, <2>1, HandlerRecords, HandlerMoves DEF Behaves
<1>4. CASE NotifyWebhooks(r) \/ \E fails \in BOOLEAN : DeleteSession(r, fails)
  <2>1. q.pc \in {"clean", "notify"} /\ blob = Whole
    BY <1>1, <1>4 DEF NotifyWebhooks, DeleteSession, UploadInv, Behaves
  <2>2. PICK pc \in {"notify", "audit"} : req' = [req EXCEPT ![r].pc = pc]
    BY <1>4 DEF NotifyWebhooks, DeleteSession
  <2>3. PICK n : n = [q EXCEPT !.pc = pc]
    OBVIOUS
  <2>4. n \in HandlerState /\ n.pc = pc
    BY <2>3 DEF HandlerState
  <2>5. req' = [req EXCEPT ![r] = n]
    BY <1>1, <2>2, <2>3 DEF UploadInv
  <2>6. session' \in {session, NoObject}
    BY <1>4 DEF NotifyWebhooks, DeleteSession
  <2>7. Behaves(r, n, blob')
    BY <1>2, <2>1, <2>4 DEF Behaves
  <2> QED BY <1>2, <2>1, <2>4, <2>5, <2>6, <2>7, HandlerMoves
<1> QED BY <1>3, <1>4

\* However requests on a session interleave, fail or hang up, what is visible under
\* the digest has that digest, and the session is gone only once the blob is there.
THEOREM UploadsStayWhole == UpSpec => []BlobsAreWhole
<1>1. UploadInv /\ [UpNext]_upVars => UploadInv'
  <2> SUFFICES ASSUME UploadInv, [UpNext]_upVars PROVE UploadInv'
    OBVIOUS
  <2>1. CASE UNCHANGED <<session, blob, req>>
    BY <2>1 DEF UploadInv, BlobsAreWhole
  <2>2. UNCHANGED upVars \/ NotifierStep => UNCHANGED <<session, blob, req>>
    BY DEF upVars, NotifierStep, Receive, Deliver
  <2>3. ASSUME NEW r \in Requests, HandlerStep(r) PROVE UploadInv'
    BY <2>3, ReadKeeps, PartKeeps, PutObjectKeeps, CompletionKeeps DEF HandlerStep
  <2>4. ASSUME NEW r \in Requests, StoreFault(r) PROVE UploadInv'
    BY <2>4, PartKeeps, CompletionKeeps DEF StoreFault
  <2> QED BY <2>1, <2>2, <2>3, <2>4 DEF UpNext
<1>2. UploadInv => BlobsAreWhole
  BY DEF UploadInv
<1> QED BY <1>1, <1>2, UploadInvInit, PTL DEF UpSpec

----------------------------------------------------------------------------
(* Tag expiry.  A live push is safe because its row is there when it is done, *)
(* says when it expires, and a reaper that holds the row's lock saw it        *)
(* expired.                                                                   *)

ReaperState ==
    [pc : {"sleep", "cycle", "link", "row"}, todo : SUBSET TtlTags, tag : TtlTags \cup {NoPush}]

TtlTyped ==
    /\ now \in Nat
    /\ link \in [TtlTags -> Pushes \cup {NoPush}]
    /\ row \in [TtlTags -> [by : Pushes \cup {NoPush}, expires : Nat]]
    /\ push \in [Pushes -> [pc : {"unsent", "link", "row", "done", "failed"}, expires : Nat]]
    /\ reaper \in [Reapers -> ReaperState]
    /\ \A x \in Reapers : reaper[x].pc \in {"link", "row"} <=> reaper[x].tag # NoPush

\* No two reapers have the lock of one row.
LocksAlone ==
    \A x, y \in Reapers : reaper[x].tag # NoPush /\ reaper[x].tag = reaper[y].tag => x = y

\* Pushes of one tag that are under way at the same time have crossed.
OverlapsCross ==
    \A p, q \in Pushes :
        p # q /\ TagOf[p] = TagOf[q] /\ push[p].pc \in {"link", "row"} /\ push[q].pc \in {"link", "row"}
            => p \in crossed /\ q \in crossed

\* Push p, which crossed no other, wrote the link that is there.
Owns(p) == p \notin crossed /\ Ttl[p] # NoTtl /\ link[TagOf[p]] = p

\* A push that has its row to write still has its link.
LinkIsThere == \A p \in Pushes : push[p].pc = "row" /\ p \notin crossed => link[TagOf[p]] = p

\* Nobody else is about to write the row of such a push.
RowIsNext ==
    \A p, q \in Pushes :
        Owns(p) /\ push[p].pc \in {"row", "done"} /\ p # q /\ TagOf[p] = TagOf[q] => push[q].pc # "row"

\* Once it is done, its row is there.
RowIsThere ==
    \A p \in Pushes :
        Owns(p) /\ push[p].pc = "done" => row[TagOf[p]] = [by |-> p, expires |-> push[p].expires]

\* A reaper holds the lock of an expired row, and once it deleted the link no push is
\* done that wrote it again.
RightReap(q) ==
    /\ q.pc = "link" => Expired(q.tag)
    /\ q.pc = "row" => \A p \in Pushes : Owns(p) /\ TagOf[p] = q.tag => push[p].pc # "done"
ReaperIsRight == \A x \in Reapers : RightReap(reaper[x])

\* The inductive invariant of tag expiry.
TtlInv ==
    TtlTyped /\ LocksAlone /\ OverlapsCross /\ LinkIsThere /\ RowIsNext /\ RowIsThere /\ ReaperIsRight

\* No link, no row and no lock at the start.
LEMMA TtlInvInit == TtlInit => TtlInv
<1> SUFFICES ASSUME TtlInit PROVE TtlInv
  OBVIOUS
<1>1. /\ \A x \in Reapers : reaper[x].pc = "sleep" /\ reaper[x].tag = NoPush
      /\ reaper \in [Reapers -> ReaperState]
  BY DEF TtlInit, Sleeping, ReaperState
<1>2. TtlTyped
  BY <1>1 DEF TtlInit, TtlTyped, NoRow
<1>3. \A p \in Pushes : push[p].pc = "unsent"
  BY DEF TtlInit
<1> QED BY <1>1, <1>2, <1>3
        DEF TtlInv, LocksAlone, OverlapsCross, LinkIsThere, RowIsNext, RowIsThere, ReaperIsRight, RightReap

\* A step that leaves the reapers alone, takes nobody's link and shortens no expiry
\* a reaper has seen.
LEMMA LocksStay ==
  ASSUME TtlInv, reaper' = reaper,
         \A t \in TtlTags : RowLocked(t) /\ Expired(t) => Expired(t)',
         \A p \in Pushes : Owns(p)' /\ push'[p].pc = "done" =>
             (Owns(p) /\ push[p].pc = "done") \/ ~RowLocked(TagOf[p])
  PROVE  LocksAlone' /\ ReaperIsRight'
<1>1. LocksAlone'
  BY DEF TtlInv, LocksAlone
<1>2. ASSUME NEW x \in Reapers PROVE RightReap(reaper[x])'
  <2>1. PICK q \in ReaperState : q = reaper[x] /\ q = reaper'[x] /\ (q.pc \in {"link", "row"} <=> q.tag # NoPush)
    BY DEF TtlInv, TtlTyped
  <2>2. RightReap(q)
    BY <2>1 DEF TtlInv, ReaperIsRight
  <2>3. ASSUME q.pc = "link" PROVE Expired(q.tag)'
    <3>1. PICK t \in TtlTags : t = q.tag
      BY <2>1, <2>3 DEF ReaperState
    <3>2. RowLocked(t) /\ Expired(t)
      BY <2>1, <2>2, <2>3, <3>1 DEF RowLocked, RightReap
    <3> QED BY <3>1, <3>2 DEF Expired
  <2>4. ASSUME q.pc = "row", NEW p \in Pushes, Owns(p)', TagOf[p] = q.tag PROVE push'[p].pc # "done"
    <3>1. RowLocked(TagOf[p])
      BY <2>1, <2>4 DEF RowLocked
    <3> QED BY <2>2, <2>4, <3>1 DEF RightReap
  <2> QED BY <2>1, <2>3, <2>4 DEF RightReap
<1> QED BY <1>1, <1>2 DEF ReaperIsRight

\* A push begins: it, and the pushes it overlaps, own nothing from now on.
LEMMA StartPushKeeps ==
  ASSUME TtlInv, NEW p \in Pushes, StartPush(p)
  PROVE  TtlInv'
<1> DEFINE others == {q \in Pushes \ {p} : TagOf[q] = TagOf[p] /\ push[q].pc \in {"link", "row"}}
<1>1. /\ push[p].pc = "unsent" /\ UNCHANGED <<now, link, row, reaper>>
      /\ push' = [push EXCEPT ![p].pc = "link"]
      /\ crossed' = IF others = {} THEN crossed ELSE crossed \cup others \cup {p}
  BY DEF StartPush
<1>2. push \in [Pushes -> [pc : {"unsent", "link", "row", "done", "failed"}, expires : Nat]]
  BY DEF TtlInv, TtlTyped
<1>3. /\ push' \in [Pushes -> [pc : {"unsent", "link", "row", "done", "failed"}, expires : Nat]]
      /\ push'[p].pc = "link" /\ \A q \in Pushes \ {p} : push'[q] = push[q]
  BY <1>1, <1>2
<1>4. crossed \subseteq crossed'
  BY <1>1
<1>5. \A q \in Pushes : Owns(q)' => Owns(q)
  BY <1>1, <1>4 DEF Owns
<1>6. TtlTyped'
  BY <1>1, <1>3 DEF TtlInv, TtlTyped
<1>7. OverlapsCross'
  <2> SUFFICES ASSUME NEW q \in Pushes, NEW r \in Pushes, q # r, TagOf[q] = TagOf[r],
                      push'[q].pc \in {"link", "row"}, push'[r].pc \in {"link", "row"}
               PROVE  q \in crossed' /\ r \in crossed'
    BY DEF OverlapsCross
  <2>1. CASE q # p /\ r # p
    BY <1>3, <1>4, <2>1 DEF TtlInv, OverlapsCross
  <2>2. CASE q = p
    BY <1>1, <1>3, <2>2
  <2>3. CASE r = p
    BY <1>1, <1>3, <2>3
  <2> QED BY <2>1, <2>2, <2>3
<1>8. LinkIsThere' /\ RowIsNext' /\ RowIsThere'
  BY <1>1, <1>3, <1>4, <1>5 DEF TtlInv, LinkIsThere, RowIsNext, RowIsThere
<1>9. LocksAlone' /\ ReaperIsRight'
  <2>1. \A t : Expired(t) => Expired(t)'
    BY <1>1 DEF Expired
  <2>2. \A q \in Pushes : Owns(q)' /\ push'[q].pc = "done" => Owns(q) /\ push[q].pc = "done"
    BY <1>3, <1>5
  <2> QED BY <1>1, <2>1, <2>2, LocksStay
<1> QED BY <1>6, <1>7, <1>8, <1>9 DEF TtlInv

\* The link is p's; any other push of the tag that still has its row to write
\* was under way, so they have crossed.
LEMMA WriteLinkKeeps ==
  ASSUME TtlInv, NEW p \in Pushes, WriteLink(p)
  PROVE  TtlInv'
<1>1. TtlTyped /\ TagOf[p] \in TtlTags
  BY ExpiryAssumption DEF TtlInv
<1>2. PICK n \in [pc : {"done", "row"}, expires : Nat] :
         /\ n = (IF Ttl[p] = NoTtl THEN [pc |-> "done", expires |-> 0]
                 ELSE [pc |-> "row", expires |-> ExpiresAt(p)])
         /\ (n.pc = "done" <=> Ttl[p] = NoTtl)
  <2>1. PICK n : n = (IF Ttl[p] = NoTtl THEN [pc |-> "done", expires |-> 0]
                      ELSE [pc |-> "row", expires |-> ExpiresAt(p)])
    OBVIOUS
  <2>2. CASE Ttl[p] = NoTtl
    <3>1. n = [pc |-> "done", expires |-> 0]
      BY <2>1, <2>2
    <3> QED BY <2>1, <2>2, <3>1
  <2>3. CASE Ttl[p] # NoTtl
    <3>1. ExpiresAt(p) \in Nat
      BY <1>1, <2>3, ExpiryAssumption DEF ExpiresAt, TtlTyped
    <3>2. n = [pc |-> "row", expires |-> ExpiresAt(p)]
      BY <2>1, <2>3
    <3>3. n \in [pc : {"done", "row"}, expires : Nat] /\ n.pc = "row"
      BY <3>1, <3>2
    <3> QED BY <2>1, <2>3, <3>3
  <2> QED BY <2>2, <2>3
<1>3. /\ push[p].pc = "link" /\ UNCHANGED <<now, row, reaper, crossed>>
      /\ link' = [link EXCEPT ![TagOf[p]] = p] /\ push' = [push EXCEPT ![p] = n]
  BY <1>2 DEF WriteLink
<1>4. /\ push'[p] = n /\ \A q \in Pushes \ {p} : push'[q] = push[q]
      /\ link'[TagOf[p]] = p /\ \A t \in TtlTags \ {TagOf[p]} : link'[t] = link[t]
  BY <1>1, <1>3 DEF TtlTyped
<1>5. TtlTyped'
  <2>1. n \in [pc : {"unsent", "link", "row", "done", "failed"}, expires : Nat]
    BY <1>2
  <2> QED BY <1>1, <1>3, <2>1 DEF TtlTyped
<1>6. OverlapsCross'
  BY <1>3, <1>4 DEF TtlInv, OverlapsCross
<1>7. \A q \in Pushes : q # p /\ Owns(q)' => Owns(q) /\ TagOf[q] # TagOf[p]
  BY <1>3, <1>4, ExpiryAssumption DEF Owns
<1>8. RowIsNext'
  <2> SUFFICES ASSUME NEW q \in Pushes, NEW r \in Pushes, Owns(q)', push'[q].pc \in {"row", "done"},
                      q # r, TagOf[q] = TagOf[r], push'[r].pc = "row"
               PROVE  FALSE
    BY DEF RowIsNext
  <2>1. CASE q = p
    BY <1>3, <1>4, <2>1 DEF TtlInv, OverlapsCross, Owns
  <2>2. CASE q # p
    BY <1>4, <1>7, <2>2 DEF TtlInv, RowIsNext
  <2> QED BY <2>1, <2>2
<1>9. RowIsThere'
  <2> SUFFICES ASSUME NEW q \in Pushes, Owns(q)', push'[q].pc = "done"
               PROVE  row'[TagOf[q]] = [by |-> q, expires |-> push'[q].expires]
    BY DEF RowIsThere
  <2>1. q # p
    BY <1>2, <1>4 DEF Owns
  <2> QED BY <1>3, <1>4, <1>7, <2>1 DEF TtlInv, RowIsThere
<1>10. LocksAlone' /\ ReaperIsRight'
  <2>1. \A q \in Pushes : Owns(q)' /\ push'[q].pc = "done" => Owns(q) /\ push[q].pc = "done"
    BY <1>2, <1>4, <1>7 DEF Owns
  <2>2. \A t : Expired(t) => Expired(t)'
    BY <1>3 DEF Expired
  <2> QED BY <1>3, <2>1, <2>2, LocksStay
<1>11. LinkIsThere'
  <2> SUFFICES ASSUME NEW q \in Pushes, push'[q].pc = "row", q \notin crossed' PROVE link'[TagOf[q]] = q
    BY DEF LinkIsThere
  <2>1. CASE q = p
    BY <1>4, <2>1
  <2>2. CASE q # p
    <3>1. TagOf[q] # TagOf[p]
      BY <1>3, <1>4, <2>2 DEF TtlInv, OverlapsCross
    <3> QED BY <1>3, <1>4, <2>2, <3>1, ExpiryAssumption DEF TtlInv, LinkIsThere
  <2> QED BY <2>1, <2>2
<1> QED BY <1>5, <1>6, <1>8, <1>9, <1>10, <1>11 DEF TtlInv

\* The row is written under the lock; the owner of the link is the only writer.
LEMMA UpsertKeeps ==
  ASSUME TtlInv, NEW p \in Pushes, UpsertRow(p) \/ UpsertFails(p)
  PROVE  TtlInv'
<1>1. TtlTyped /\ TagOf[p] \in TtlTags
  BY ExpiryAssumption DEF TtlInv
<1>2. PICK s \in {"done", "failed"} :
         /\ push' = [push EXCEPT ![p].pc = s] /\ push[p].pc = "row"
         /\ UNCHANGED <<now, link, reaper, crossed>>
         /\ s = "failed" => row' = row
         /\ s = "done" => /\ ~RowLocked(TagOf[p])
                          /\ row' = [row EXCEPT ![TagOf[p]] = [by |-> p, expires |-> push[p].expires]]
  BY DEF UpsertRow, UpsertFails
<1>3. /\ push' \in [Pushes -> [pc : {"unsent", "link", "row", "done", "failed"}, expires : Nat]]
      /\ push'[p].pc = s /\ push'[p].expires = push[p].expires /\ \A q \in Pushes \ {p} : push'[q] = push[q]
  BY <1>1, <1>2 DEF TtlTyped
<1>4. row' \in [TtlTags -> [by : Pushes \cup {NoPush}, expires : Nat]]
  BY <1>1, <1>2 DEF TtlTyped
<1>5. TtlTyped'
  BY <1>1, <1>2, <1>3, <1>4 DEF TtlTyped
<1>6. \A q \in Pushes : Owns(q)' <=> Owns(q)
  BY <1>2 DEF Owns
<1>7. OverlapsCross'
  BY <1>2, <1>3 DEF TtlInv, OverlapsCross
<1>8. RowIsNext'
  BY <1>2, <1>3, <1>6 DEF TtlInv, RowIsNext
<1>9. RowIsThere'
  <2> SUFFICES ASSUME NEW q \in Pushes, Owns(q), push'[q].pc = "done"
               PROVE  row'[TagOf[q]] = [by |-> q, expires |-> push'[q].expires]
    BY <1>6 DEF RowIsThere
  <2>1. CASE q = p
    BY <1>1, <1>2, <1>3, <2>1 DEF TtlTyped
  <2>2. CASE q # p /\ TagOf[q] = TagOf[p]
    BY <1>2, <1>3, <2>2 DEF TtlInv, RowIsNext
  <2>3. CASE q # p /\ TagOf[q] # TagOf[p]
    <3>1. row'[TagOf[q]] = row[TagOf[q]]
      BY <1>1, <1>2, <2>3, ExpiryAssumption DEF TtlTyped
    <3> QED BY <1>3, <2>3, <3>1 DEF TtlInv, RowIsThere
  <2> QED BY <2>1, <2>2, <2>3
<1>10. LocksAlone' /\ ReaperIsRight'
  <2>1. ASSUME NEW t \in TtlTags, RowLocked(t), Expired(t) PROVE Expired(t)'
    <3>1. row'[t] = row[t]
      BY <1>1, <1>2, <2>1 DEF TtlTyped
    <3> QED BY <1>2, <2>1, <3>1 DEF Expired
  <2>2. ASSUME NEW q \in Pushes, Owns(q)', push'[q].pc = "done"
        PROVE  (Owns(q) /\ push[q].pc = "done") \/ ~RowLocked(TagOf[q])
    BY <1>2, <1>3, <1>6, <2>2
  <2> QED BY <1>2, <2>1, <2>2, LocksStay
<1>11. LinkIsThere'
  BY <1>2, <1>3 DEF TtlInv, LinkIsThere
<1> QED BY <1>5, <1>7, <1>8, <1>9, <1>10, <1>11 DEF TtlInv

\* A reaper moves on without touching link or row.
LEMMA ReaperMoves ==
  ASSUME TtlInv, UNCHANGED <<now, link, row, push, crossed>>, NEW x \in Reapers, NEW q \in ReaperState,
         reaper' = [reaper EXCEPT ![x] = q],
         \/ q.pc \in {"sleep", "cycle"} /\ q.tag = NoPush
         \/ q.pc = "link" /\ q.tag \in TtlTags /\ Expired(q.tag) /\ ~RowLocked(q.tag)
  PROVE  TtlInv'
<1>1. reaper \in [Reapers -> ReaperState] /\ NoPush \notin TtlTags
  BY ExpiryAssumption DEF TtlInv, TtlTyped
<1>2. reaper' \in [Reapers -> ReaperState] /\ reaper'[x] = q /\ \A y \in Reapers \ {x} : reaper'[y] = reaper[y]
  BY <1>1
<1>3. TtlTyped'
  BY <1>1, <1>2 DEF TtlInv, TtlTyped
<1>4. \A p \in Pushes : Owns(p)' <=> Owns(p)
  BY DEF Owns
<1>5. OverlapsCross' /\ LinkIsThere' /\ RowIsNext' /\ RowIsThere'
  BY <1>4 DEF TtlInv, OverlapsCross, LinkIsThere, RowIsNext, RowIsThere
<1>6. \A t : Expired(t)' <=> Expired(t)
  BY DEF Expired
<1>7. LocksAlone'
  BY <1>1, <1>2 DEF TtlInv, LocksAlone, RowLocked
<1>8. ASSUME NEW y \in Reapers PROVE RightReap(reaper[y])'
  <2>1. CASE y = x
    BY <1>2, <1>6, <2>1 DEF RightReap, Expired
  <2>2. CASE y # x
    <3>1. RightReap(reaper[y]) /\ reaper'[y] = reaper[y]
      BY <1>2, <2>2 DEF TtlInv, ReaperIsRight
    <3> QED BY <1>4, <3>1 DEF RightReap, Expired
  <2> QED BY <2>1, <2>2
<1> QED BY <1>3, <1>5, <1>7, <1>8 DEF TtlInv, ReaperIsRight

\* What a reaper is when it lets go of a row.
LEMMA UnlockedTyped ==
  ASSUME TtlTyped, NEW x \in Reapers
  PROVE  Unlocked(x) \in ReaperState /\ Unlocked(x).pc = "cycle" /\ Unlocked(x).tag = NoPush
  BY DEF TtlTyped, Unlocked, ReaperState

\* A reaper looks for candidates, locks one that is still expired, or lets go.
LEMMA ReaperReadsKeep ==
  ASSUME TtlInv, NEW x \in Reapers,
         \/ SelectCandidates(x) \/ EndCycle(x) \/ ReapFails(x) \/ RestartReaper(x)
         \/ \E t \in TtlTags : LockRow(x, t)
  PROVE  TtlInv'
<1>1. UNCHANGED <<now, link, row, push, crossed>>
  BY DEF SelectCandidates, EndCycle, ReapFails, RestartReaper, LockRow
<1>2. TtlTyped /\ reaper[x] \in ReaperState
  BY DEF TtlInv, TtlTyped
<1>3. CASE SelectCandidates(x)
  <2>1. PICK B \in SUBSET TtlTags : reaper' = [reaper EXCEPT ![x] = [pc |-> "cycle", todo |-> B, tag |-> NoPush]]
    BY <1>3 DEF SelectCandidates, Batches
  <2>2. [pc |-> "cycle", todo |-> B, tag |-> NoPush] \in ReaperState
    BY DEF ReaperState
  <2> QED BY <1>1, <2>1, <2>2, ReaperMoves
<1>4. CASE EndCycle(x) \/ RestartReaper(x)
  <2>1. reaper' = [reaper EXCEPT ![x] = Sleeping]
    BY <1>4 DEF EndCycle, RestartReaper
  <2>2. Sleeping \in ReaperState /\ Sleeping.pc = "sleep" /\ Sleeping.tag = NoPush
    BY DEF Sleeping, ReaperState
  <2> QED BY <1>1, <2>1, <2>2, ReaperMoves
<1>5. CASE ReapFails(x)
  BY <1>1, <1>2, <1>5, UnlockedTyped, ReaperMoves DEF ReapFails
<1>6. ASSUME NEW t \in TtlTags, LockRow(x, t) PROVE TtlInv'
  <2> DEFINE q == [pc |-> IF StillExpired(t) THEN "link" ELSE "cycle", todo |-> reaper[x].todo \ {t},
                   tag |-> IF StillExpired(t) THEN t ELSE NoPush]
  <2>1. reaper' = [reaper EXCEPT ![x] = q] /\ ~RowLocked(t)
    BY <1>6 DEF LockRow
  <2>2. q \in ReaperState
    BY <1>2 DEF ReaperState
  <2>3. CASE Expired(t)
    <3>1. q.pc = "link" /\ q.tag = t
      BY <2>3 DEF StillExpired
    <3> HIDE DEF q
    <3> QED BY <1>1, <2>1, <2>2, <2>3, <3>1, ReaperMoves
  <2>4. CASE ~Expired(t)
    <3>1. q.pc = "cycle" /\ q.tag = NoPush
      BY <2>4 DEF StillExpired
    <3> HIDE DEF q
    <3> QED BY <1>1, <2>1, <2>2, <3>1, ReaperMoves
  <2> QED BY <2>3, <2>4
<1> QED BY <1>3, <1>4, <1>5, <1>6

\* Under the lock the link goes first, then the row.
LEMMA ReapsKeep ==
  ASSUME TtlInv, NEW x \in Reapers, DeleteLink(x) \/ DeleteRow(x)
  PROVE  TtlInv'
<1>1. TtlTyped /\ UNCHANGED <<now, push>> /\ reaper[x].pc \in {"link", "row"} /\ crossed \subseteq crossed'
  BY DEF TtlInv, DeleteLink, DeleteRow
<1>2. PICK r \in ReaperState : r = reaper[x] /\ r.tag # NoPush
  BY <1>1 DEF TtlTyped
<1>3. PICK t \in TtlTags : t = reaper[x].tag
  BY <1>2 DEF ReaperState
<1>4. NoPush \notin Pushes /\ NoPush # t
  BY ExpiryAssumption
<1>5. \A y \in Reapers : y # x => reaper[y].tag # t
  BY <1>3, <1>4 DEF TtlInv, LocksAlone
<1>6. CASE DeleteLink(x)
  <2> DEFINE q == [r EXCEPT !.pc = "row"]
  <2>1. /\ link' = [link EXCEPT ![t] = NoPush] /\ row' = row /\ reaper' = [reaper EXCEPT ![x] = q]
        /\ crossed' = crossed \cup {p \in Pushes : push[p].pc = "row" /\ link[t] = p}
    BY <1>2, <1>3, <1>6 DEF DeleteLink, Deletable
  <2>2. q \in ReaperState /\ q.pc = "row" /\ q.tag = t
    BY <1>2, <1>3 DEF ReaperState
  <2> HIDE DEF q
  <2>3. reaper' \in [Reapers -> ReaperState] /\ reaper'[x] = q /\ \A y \in Reapers \ {x} : reaper'[y] = reaper[y]
    BY <1>1, <2>1, <2>2 DEF TtlTyped
  <2>4. \A p \in Pushes : Owns(p)' => Owns(p) /\ TagOf[p] # t
    BY <1>1, <1>4, <2>1, ExpiryAssumption DEF Owns, TtlTyped
  <2>5. TtlTyped'
    BY <1>1, <1>4, <2>1, <2>2, <2>3 DEF TtlTyped
  <2>6. LocksAlone'
    BY <1>2, <1>3, <2>2, <2>3 DEF TtlInv, LocksAlone
  <2>7. OverlapsCross' /\ RowIsNext' /\ RowIsThere'
    BY <1>1, <2>1, <2>4 DEF TtlInv, OverlapsCross, RowIsNext, RowIsThere
  <2>8. LinkIsThere'
    <3> SUFFICES ASSUME NEW p \in Pushes, push[p].pc = "row", p \notin crossed' PROVE link'[TagOf[p]] = p
      BY <1>1 DEF LinkIsThere
    <3>1. link[TagOf[p]] = p
      BY <1>1 DEF TtlInv, LinkIsThere
    <3>2. TagOf[p] # t
      BY <2>1, <3>1
    <3> QED BY <1>1, <2>1, <3>1, <3>2, ExpiryAssumption DEF TtlTyped
  <2>9. ASSUME NEW y \in Reapers PROVE RightReap(reaper[y])'
    <3>1. CASE y = x
      BY <2>2, <2>3, <2>4, <3>1 DEF RightReap
    <3>2. CASE y # x
      <4>1. RightReap(reaper[y]) /\ reaper'[y] = reaper[y]
        BY <2>3, <3>2 DEF TtlInv, ReaperIsRight
      <4> QED BY <1>1, <2>1, <2>4, <4>1 DEF RightReap, Expired
    <3> QED BY <3>1, <3>2
  <2> QED BY <2>5, <2>6, <2>7, <2>8, <2>9 DEF TtlInv, ReaperIsRight
<1>7. CASE DeleteRow(x)
  <2> DEFINE q == Unlocked(x)
  <2>1. /\ link' = link /\ crossed' = crossed /\ row' = [row EXCEPT ![t] = NoRow]
        /\ reaper' = [reaper EXCEPT ![x] = q] /\ reaper[x].pc = "row"
    BY <1>3, <1>7 DEF DeleteRow
  <2>2. q \in ReaperState /\ q.pc = "cycle" /\ q.tag = NoPush
    BY <1>1, UnlockedTyped
  <2> HIDE DEF q
  <2>3. reaper' \in [Reapers -> ReaperState] /\ reaper'[x] = q /\ \A y \in Reapers \ {x} : reaper'[y] = reaper[y]
    BY <1>1, <2>1, <2>2 DEF TtlTyped
  <2>4. \A p \in Pushes : Owns(p)' <=> Owns(p)
    BY <1>1, <2>1 DEF Owns
  <2>5. TtlTyped'
    BY <1>1, <2>1, <2>2, <2>3 DEF TtlTyped, NoRow
  <2>6. LocksAlone'
    BY <2>2, <2>3 DEF TtlInv, LocksAlone
  <2>7. OverlapsCross' /\ LinkIsThere' /\ RowIsNext'
    BY <1>1, <2>1, <2>4 DEF TtlInv, OverlapsCross, LinkIsThere, RowIsNext
  <2>8. RowIsThere'
    <3> SUFFICES ASSUME NEW p \in Pushes, Owns(p), push[p].pc = "done"
                 PROVE  row'[TagOf[p]] = [by |-> p, expires |-> push[p].expires]
      BY <1>1, <2>4 DEF RowIsThere
    <3>1. TagOf[p] # t
      BY <1>3, <2>1 DEF TtlInv, ReaperIsRight, RightReap
    <3>2. row'[TagOf[p]] = row[TagOf[p]]
      BY <1>1, <2>1, <3>1, ExpiryAssumption DEF TtlTyped
    <3> QED BY <3>2 DEF TtlInv, RowIsThere
  <2>9. ASSUME NEW y \in Reapers PROVE RightReap(reaper[y])'
    <3>1. CASE y = x
      BY <2>2, <2>3, <3>1 DEF RightReap
    <3>2. CASE y # x
      <4>1. PICK w \in ReaperState : w = reaper[y] /\ w = reaper'[y] /\ w.tag # t
        BY <1>1, <1>5, <2>3, <3>2 DEF TtlTyped
      <4>2. RightReap(w)
        BY <4>1 DEF TtlInv, ReaperIsRight
      <4>3. \A u : u # t /\ Expired(u) => Expired(u)'
        <5> SUFFICES ASSUME NEW u, u # t, Expired(u) PROVE Expired(u)'
          OBVIOUS
        <5>1. row'[u] = row[u]
          BY <1>1, <2>1 DEF TtlTyped
        <5> QED BY <1>1, <5>1 DEF Expired
      <4> QED BY <1>1, <2>4, <4>1, <4>2, <4>3 DEF RightReap, Expired
    <3> QED BY <3>1, <3>2
  <2> QED BY <2>5, <2>6, <2>7, <2>8, <2>9 DEF TtlInv, ReaperIsRight
<1> QED BY <1>6, <1>7

\* What has expired stays expired.
LEMMA ClockKeepsTtl == TtlInv /\ Advance => TtlInv'
<1> SUFFICES ASSUME TtlInv, Advance PROVE TtlInv'
  OBVIOUS
<1>1. now \in Nat /\ now' = now + 1 /\ UNCHANGED <<link, row, push, reaper, crossed>> /\ TtlTyped
  BY DEF TtlInv, TtlTyped, Advance
<1>2. TtlTyped'
  BY <1>1 DEF TtlTyped
<1>3. \A p \in Pushes : Owns(p)' <=> Owns(p)
  BY <1>1 DEF Owns
<1>4. OverlapsCross' /\ LinkIsThere' /\ RowIsNext' /\ RowIsThere'
  BY <1>1, <1>3 DEF TtlInv, OverlapsCross, LinkIsThere, RowIsNext, RowIsThere
<1>5. ASSUME NEW t \in TtlTags, Expired(t) PROVE Expired(t)'
  <2>1. row[t].by # NoPush /\ row[t].expires < now /\ row[t].expires \in Nat
    BY <1>1, <1>5 DEF Expired, TtlTyped
  <2>2. row[t].expires < now + 1
    BY <1>1, <2>1
  <2> QED BY <1>1, <2>1, <2>2 DEF Expired
<1>6. LocksAlone' /\ ReaperIsRight'
  BY <1>1, <1>3, <1>5, LocksStay
<1> QED BY <1>2, <1>4, <1>6 DEF TtlInv

\* Every step keeps the inductive invariant.
LEMMA TtlInvNext == TtlInv /\ [TtlNext]_ttlVars => TtlInv'
<1> SUFFICES ASSUME TtlInv, [TtlNext]_ttlVars PROVE TtlInv'
  OBVIOUS
<1>1. CASE UNCHANGED <<now, link, row, push, reaper, crossed>>
  <2>1. \A p \in Pushes : Owns(p)' <=> Owns(p)
    BY <1>1 DEF Owns
  <2>2. TtlTyped' /\ OverlapsCross' /\ LinkIsThere' /\ RowIsNext' /\ RowIsThere'
    BY <1>1, <2>1 DEF TtlInv, TtlTyped, OverlapsCross, LinkIsThere, RowIsNext, RowIsThere
  <2>3. \A t : Expired(t)' <=> Expired(t)
    BY <1>1 DEF Expired
  <2>4. LocksAlone' /\ ReaperIsRight'
    BY <1>1, <2>1, <2>3, LocksStay
  <2> QED BY <2>2, <2>4 DEF TtlInv
<1>2. ASSUME NEW x \in Reapers, ReaperStep(x) PROVE TtlInv'
  BY <1>2, ReaperReadsKeep, ReapsKeep DEF ReaperStep
<1>3. CASE TtlFault
  BY <1>1, <1>3, UpsertKeeps, ReaperReadsKeep DEF TtlFault, SetControl
<1>4. CASE \E p \in Pushes : StartPush(p) \/ WriteLink(p) \/ UpsertRow(p)
  BY <1>4, StartPushKeeps, WriteLinkKeeps, UpsertKeeps
<1>5. CASE UNCHANGED ttlVars
  BY <1>1, <1>5 DEF ttlVars
<1> QED BY <1>2, <1>3, <1>4, <1>5, ClockKeepsTtl DEF TtlNext

\* The only step that removes a link is a reaper's, under the lock of a row it saw
\* expired; the row of a push that owns its link carries its own expiry.
LEMMA LinkLost ==
  ASSUME TtlInv, [TtlNext]_ttlVars, NEW p \in Pushes, Owns(p), push[p].pc = "done",
         link'[TagOf[p]] = NoPush
  PROVE  push[p].expires < now /\ UNCHANGED <<push, now>>
<1>1. link \in [TtlTags -> Pushes \cup {NoPush}] /\ TagOf[p] \in TtlTags /\ NoPush \notin Pushes /\ link[TagOf[p]] = p
  BY ExpiryAssumption DEF TtlInv, TtlTyped, Owns
<1>2. link' # link
  BY <1>1
<1>3. (\E x \in Reapers : DeleteLink(x)) \/ \E q \in Pushes : WriteLink(q)
  BY <1>2 DEF TtlNext, ttlVars, ReaperStep, TtlFault, StartPush, UpsertRow, UpsertFails, SelectCandidates,
              EndCycle, DeleteRow, LockRow, Advance, ReapFails, RestartReaper, SetControl
<1>4. ASSUME NEW q \in Pushes, WriteLink(q) PROVE FALSE
  <2>1. link'[TagOf[p]] \in {q, p}
    BY <1>1, <1>4, ExpiryAssumption DEF WriteLink
  <2> QED BY <1>1, <2>1
<1>5. ASSUME NEW x \in Reapers, DeleteLink(x) PROVE push[p].expires < now /\ UNCHANGED <<push, now>>
  <2>1. reaper[x].pc = "link" /\ reaper[x].tag = TagOf[p] /\ UNCHANGED <<push, now>>
    BY <1>1, <1>5 DEF DeleteLink
  <2>2. Expired(TagOf[p])
    BY <2>1 DEF TtlInv, ReaperIsRight, RightReap
  <2>3. row[TagOf[p]] = [by |-> p, expires |-> push[p].expires]
    BY DEF TtlInv, RowIsThere
  <2> QED BY <2>1, <2>2, <2>3 DEF Expired
<1> QED BY <1>3, <1>4, <1>5

\* A push with a TTL is done when its row is written.
LEMMA PushAnswered ==
  ASSUME TtlInv, [TtlNext]_ttlVars, NEW p \in Pushes, push[p].pc # "done", push'[p].pc = "done", Ttl[p] # NoTtl
  PROVE  push[p].pc = "row" /\ UNCHANGED <<link, crossed>>
<1>1. push \in [Pushes -> [pc : {"unsent", "link", "row", "done", "failed"}, expires : Nat]]
  BY DEF TtlInv, TtlTyped
<1>2. push' # push
  OBVIOUS
<1>3. \E q \in Pushes : StartPush(q) \/ WriteLink(q) \/ UpsertRow(q) \/ UpsertFails(q)
  BY <1>2 DEF TtlNext, ttlVars, ReaperStep, TtlFault, SelectCandidates, DeleteLink,
              EndCycle, DeleteRow, LockRow, Advance, ReapFails, RestartReaper, SetControl
<1>4. ASSUME NEW q \in Pushes, StartPush(q) \/ UpsertFails(q) PROVE FALSE
  BY <1>1, <1>4 DEF StartPush, UpsertFails
<1>5. ASSUME NEW q \in Pushes, WriteLink(q) PROVE FALSE
  BY <1>1, <1>5 DEF WriteLink
<1>6. ASSUME NEW q \in Pushes, UpsertRow(q) PROVE push[p].pc = "row" /\ UNCHANGED <<link, crossed>>
  BY <1>1, <1>6 DEF UpsertRow
<1> QED BY <1>3, <1>4, <1>5, <1>6

\* A push that is alone on its tag, and whose link no reaper deleted before it had its
\* row, has its link when it is answered and keeps it until its TTL has passed or another
\* push replaces it, whatever any number of reapers select, lock or leave half done.
THEOREM LivePushesKeepLinks == TtlSpec => LivePushKeepsLink
<1> DEFINE Spared(p) ==
             IF push[p].pc = "done" THEN link[TagOf[p]] = p => link'[TagOf[p]] # NoPush
             ELSE link'[TagOf[p]] = p
           AllSpared == \A p \in Pushes : p \notin crossed' /\ Lives(p)' => Spared(p)
<1>1. TtlInv /\ [TtlNext]_ttlVars => AllSpared
  <2> SUFFICES ASSUME TtlInv, [TtlNext]_ttlVars, NEW p \in Pushes, p \notin crossed', Lives(p)'
               PROVE  Spared(p)
    OBVIOUS
  <2>1. push'[p].pc = "done" /\ Ttl[p] # NoTtl /\ push'[p].expires >= now'
    BY DEF Lives
  <2>2. crossed \subseteq crossed'
    BY DEF TtlNext, ttlVars, ReaperStep, TtlFault, StartPush, WriteLink, UpsertRow, UpsertFails,
           SelectCandidates, DeleteLink, EndCycle, DeleteRow, LockRow, Advance, ReapFails, RestartReaper, SetControl
  <2>3. CASE push[p].pc # "done"
    BY <2>1, <2>3, PushAnswered DEF TtlInv, LinkIsThere
  <2>4. CASE push[p].pc = "done" /\ link[TagOf[p]] = p
    <3> SUFFICES ASSUME link'[TagOf[p]] = NoPush PROVE FALSE
      BY <2>4
    <3>1. push[p].expires < now /\ UNCHANGED <<push, now>>
      BY <2>1, <2>2, <2>4, LinkLost DEF Owns
    <3>2. push[p].expires \in Nat /\ now \in Nat
      BY DEF TtlInv, TtlTyped
    <3> QED BY <2>1, <3>1, <3>2
  <2> QED BY <2>3, <2>4
<1>2. TtlSpec => []TtlInv
  BY TtlInvInit, TtlInvNext, PTL DEF TtlSpec
<1> HIDE DEF AllSpared
<1>3. [][TtlNext]_ttlVars /\ []TtlInv => [][AllSpared]_ttlVars
  BY <1>1, PTL
<1> USE DEF AllSpared
<1> QED BY <1>2, <1>3, PTL DEF TtlSpec, LivePushKeepsLink

----------------------------------------------------------------------------
(* The importer.  The report is about a finished run; the argument counts, at *)
(* any point of a run, the repositories that can no longer become complete.   *)

\* The records keep their fields.
ImportShaped ==
    /\ at = [pc |-> at.pc, repo |-> at.repo, tag |-> at.tag]
    /\ todo = [repos |-> todo.repos, tags |-> todo.tags, digests |-> todo.digests]
    /\ copied = [blobs |-> copied.blobs, tags |-> copied.tags]
    /\ failures \in Nat

\* The repository being copied has lost a tag or a digest of the tag at hand.
CurrentBroken ==
    \/ \E t \in SourceTags[at.repo] \ todo.tags :
          (at.pc = "repo" \/ t # at.tag) /\ ~Complete(at.repo, t)
    \/ /\ at.pc = "tag"
       /\ \E d \in ParseDescriptors(at.repo, at.tag) \ todo.digests : <<at.repo, d>> \notin copied.blobs

\* A repository is behind the run, and something of it is missing.
Lost(r) ==
    /\ r \notin todo.repos
    /\ IF at.pc \in {"repo", "tag"} /\ r = at.repo THEN CurrentBroken
       ELSE \E t \in SourceTags[r] : ~Complete(r, t)

\* The repositories that can no longer become complete in this run.
Broken == {r \in Selected : Lost(r)}

\* The inductive invariant of a run of the importer.
ImportInv ==
    /\ ImportShaped
    /\ at.pc \in {"run", "repo", "tag", "done"} => Cardinality(Broken) <= failures
    /\ at.pc = "done" => todo.repos = {}

\* A step that counts a failure may break one repository more.
LEMMA BrokenCounts ==
  ASSUME NEW S \in SUBSET Selected, NEW T \in SUBSET Selected, NEW n \in Nat, Cardinality(S) <= n
  PROVE  /\ T \subseteq S => Cardinality(T) <= n
         /\ \A x : T \subseteq S \cup {x} => Cardinality(T) <= n + 1
<1>1. IsFiniteSet(S) /\ IsFiniteSet(T)
  BY ImportAssumption, FS_Subset
<1>2. Cardinality(S) \in Nat /\ Cardinality(T) \in Nat
  BY <1>1, FS_CardinalityType
<1>3. ASSUME T \subseteq S PROVE Cardinality(T) <= n
  <2>1. Cardinality(T) <= Cardinality(S)
    BY <1>1, <1>3, FS_Subset
  <2> QED BY <1>2, <2>1
<1>4. ASSUME NEW x, T \subseteq S \cup {x} PROVE Cardinality(T) <= n + 1
  <2>1. /\ IsFiniteSet(S \cup {x})
        /\ Cardinality(S \cup {x}) = IF x \in S THEN Cardinality(S) ELSE Cardinality(S) + 1
    BY <1>1, FS_AddElement
  <2>2. Cardinality(T) <= Cardinality(S \cup {x})
    BY <1>4, <2>1, FS_Subset
  <2> QED BY <1>2, <2>1, <2>2
<1> QED BY <1>3, <1>4

\* No run has started.
LEMMA ImportInvInit == ImpInit => ImportInv
  BY DEF ImpInit, ImportInv, ImportShaped, Nowhere, NothingToDo

\* A run starts with nothing behind it.
LEMMA StartKeeps == ImportInv /\ StartImport => ImportInv'
<1> SUFFICES ASSUME ImportInv, StartImport PROVE ImportInv'
  OBVIOUS
<1>1. /\ at' = [pc |-> "run", repo |-> "none", tag |-> "none"] /\ failures' = 0 /\ copied' = copied
      /\ todo' = [repos |-> Selected, tags |-> {}, digests |-> {}]
  <2>1. \A r, s : r = [pc |-> "idle", repo |-> "none", tag |-> "none"] =>
                  [r EXCEPT !.pc = s] = [pc |-> s, repo |-> "none", tag |-> "none"]
    OBVIOUS
  <2>2. \A r, s : r = [repos |-> {}, tags |-> {}, digests |-> {}] =>
                  [r EXCEPT !.repos = s] = [repos |-> s, tags |-> {}, digests |-> {}]
    OBVIOUS
  <2>3. at' = [Nowhere EXCEPT !.pc = "run"] /\ todo' = [NothingToDo EXCEPT !.repos = Selected]
        /\ failures' = 0 /\ copied' = copied
    BY DEF StartImport
  <2> QED BY <2>1, <2>2, <2>3 DEF Nowhere, NothingToDo
<1>2. Broken' = {}
  BY <1>1 DEF Broken, Lost
<1>3. Cardinality({}) = 0
  BY FS_EmptySet
<1> QED BY <1>1, <1>2, <1>3 DEF ImportInv, ImportShaped

\* What is complete stays complete.
LEMMA CompleteStays ==
  ASSUME copied.blobs \subseteq copied'.blobs, copied.tags \subseteq copied'.tags
  PROVE  \A r, t : Complete(r, t) => Complete(r, t)'
  BY DEF Complete

\* A step of a run: it breaks no repository, or it counts the one it may break.
LEMMA RunStep ==
  ASSUME ImportInv, at.pc \in {"run", "repo", "tag"}, ImportShaped', at'.pc # "done",
         \/ failures' = failures /\ Broken' \subseteq Broken
         \/ failures' = failures + 1 /\ \E x : Broken' \subseteq Broken \cup {x}
  PROVE  ImportInv'
<1>1. failures \in Nat /\ Cardinality(Broken) <= failures
  BY DEF ImportInv, ImportShaped
<1>2. Broken \in SUBSET Selected /\ Broken' \in SUBSET Selected
  BY DEF Broken
<1>3. Cardinality(Broken') <= failures'
  BY <1>1, <1>2, BrokenCounts
<1> QED BY <1>3 DEF ImportInv

\* The tags of a repository are listed, or the repository is lost.
LEMMA ListKeeps ==
  ASSUME ImportInv, NEW r, ListTags(r) \/ ListTagsFails(r)
  PROVE  ImportInv'
<1>1. at.pc = "run" /\ copied' = copied
  BY DEF ListTags, ListTagsFails
<1>2. CASE ListTags(r)
  <2>1. /\ at' = [pc |-> "repo", repo |-> r, tag |-> at.tag] /\ failures' = failures
        /\ todo' = [repos |-> todo.repos \ {r}, tags |-> SourceTags[r], digests |-> todo.digests]
    BY <1>2 DEF ListTags, ImportInv, ImportShaped
  <2>2. \A x \in Selected : Lost(x)' => Lost(x)
    <3> SUFFICES ASSUME NEW x \in Selected, Lost(x)' PROVE Lost(x)
      OBVIOUS
    <3>1. x # r
      BY <2>1 DEF Lost, CurrentBroken
    <3> QED BY <1>1, <2>1, <3>1 DEF Lost, Complete
  <2> QED BY <1>1, <2>1, <2>2, RunStep DEF Broken, ImportShaped, ImportInv
<1>3. CASE ListTagsFails(r)
  <2>1. /\ at' = at /\ failures' = failures + 1
        /\ todo' = [repos |-> todo.repos \ {r}, tags |-> todo.tags, digests |-> todo.digests]
    BY <1>3 DEF ListTagsFails, ImportInv, ImportShaped
  <2>2. \A x \in Selected : Lost(x)' => Lost(x) \/ x = r
    BY <1>1, <2>1 DEF Lost, Complete
  <2>3. ImportShaped'
    BY <1>1, <2>1 DEF ImportInv, ImportShaped
  <2> QED BY <1>1, <2>1, <2>2, <2>3, RunStep DEF Broken
<1> QED BY <1>2, <1>3

\* Steps inside a repository leave the others as they are.
LEMMA OthersStay ==
  ASSUME at.pc \in {"repo", "tag"}, at'.pc \in {"repo", "tag"}, at'.repo = at.repo,
         todo'.repos = todo.repos, NEW b, b = at.repo,
         copied.blobs \subseteq copied'.blobs, copied.tags \subseteq copied'.tags
  PROVE  /\ Broken' \subseteq Broken \cup {b}
         /\ (CurrentBroken' => CurrentBroken) => Broken' \subseteq Broken
<1>1. \A x : x # b => (Lost(x)' => Lost(x))
  BY CompleteStays DEF Lost
<1>2. (CurrentBroken' => CurrentBroken) => (Lost(b)' => Lost(b))
  BY DEF Lost
<1> QED BY <1>1, <1>2 DEF Broken

\* The manifest of a tag is fetched, or the tag is lost.
LEMMA TagKeeps ==
  ASSUME ImportInv, NEW t, t \in todo.tags, FetchManifest(t) \/ FetchManifestFails(t)
  PROVE  ImportInv'
<1>1. at.pc = "repo" /\ copied' = copied
  BY DEF FetchManifest, FetchManifestFails
<1>2. PICK b : b = at.repo
  OBVIOUS
<1>3. CASE FetchManifest(t)
  <2>1. /\ at' = [pc |-> "tag", repo |-> at.repo, tag |-> t] /\ failures' = failures
        /\ todo' = [repos |-> todo.repos, tags |-> todo.tags \ {t}, digests |-> ParseDescriptors(at.repo, t)]
    BY <1>3 DEF FetchManifest, ImportInv, ImportShaped
  <2>2. CurrentBroken' => CurrentBroken
    <3>1. CurrentBroken' => \E s \in SourceTags[b] \ (todo.tags \ {t}) : s # t /\ ~Complete(b, s)'
      BY <1>2, <2>1 DEF CurrentBroken
    <3>2. \A s : Complete(b, s)' <=> Complete(b, s)
      BY <1>1 DEF Complete
    <3> QED BY <1>1, <1>2, <3>1, <3>2 DEF CurrentBroken
  <2>3. ImportShaped'
    BY <1>1, <2>1 DEF ImportInv, ImportShaped
  <2> QED BY <1>1, <1>2, <2>1, <2>2, <2>3, OthersStay, RunStep
<1>4. CASE FetchManifestFails(t)
  <2>1. /\ at' = at /\ failures' = failures + 1
        /\ todo' = [repos |-> todo.repos, tags |-> todo.tags \ {t}, digests |-> todo.digests]
    BY <1>4 DEF FetchManifestFails, ImportInv, ImportShaped
  <2>2. ImportShaped'
    BY <1>1, <2>1 DEF ImportInv, ImportShaped
  <2> QED BY <1>1, <1>2, <2>1, <2>2, OthersStay, RunStep
<1> QED BY <1>3, <1>4

\* A blob is copied, or fails and is counted.
LEMMA BlobKeeps ==
  ASSUME ImportInv, NEW d, d \in todo.digests, CopyBlob(d) \/ FetchBlobFails(d)
  PROVE  ImportInv'
<1>1. at.pc = "tag" /\ at' = at
  BY DEF CopyBlob, FetchBlobFails
<1>2. PICK b : b = at.repo
  OBVIOUS
<1>3. todo' = [repos |-> todo.repos, tags |-> todo.tags, digests |-> todo.digests \ {d}]
  BY DEF CopyBlob, FetchBlobFails, ImportInv, ImportShaped
<1>4. CASE CopyBlob(d)
  <2>1. copied' = [blobs |-> copied.blobs \cup {<<b, d>>}, tags |-> copied.tags] /\ failures' = failures
    BY <1>2, <1>4 DEF CopyBlob, ImportInv, ImportShaped
  <2>2. \A s : Complete(b, s) => Complete(b, s)'
    BY <2>1 DEF Complete
  <2>3. CurrentBroken' => CurrentBroken
    <3>1. CASE \E s \in SourceTags[b] \ todo.tags : s # at.tag /\ ~Complete(b, s)'
      BY <1>2, <2>2, <3>1 DEF CurrentBroken
    <3>2. CASE \E e \in ParseDescriptors(b, at.tag) \ (todo.digests \ {d}) : <<b, e>> \notin copied'.blobs
      BY <1>1, <1>2, <2>1, <3>2 DEF CurrentBroken
    <3> QED BY <1>1, <1>2, <1>3, <3>1, <3>2 DEF CurrentBroken
  <2>4. ImportShaped'
    BY <1>1, <1>3, <2>1 DEF ImportInv, ImportShaped
  <2> QED BY <1>1, <1>2, <1>3, <2>1, <2>3, <2>4, OthersStay, RunStep
<1>5. CASE FetchBlobFails(d)
  <2>1. copied' = copied /\ failures' = failures + 1
    BY <1>5 DEF FetchBlobFails
  <2>2. ImportShaped'
    BY <1>1, <1>3, <2>1 DEF ImportInv, ImportShaped
  <2> QED BY <1>1, <1>2, <1>3, <2>1, <2>2, OthersStay, RunStep
<1> QED BY <1>4, <1>5

\* The manifest follows the last blob: its tag is complete unless one was lost.
LEMMA PutKeeps ==
  ASSUME ImportInv, PutManifest \/ PutFails
  PROVE  ImportInv'
<1>1. at.pc = "tag" /\ at' = [pc |-> "repo", repo |-> at.repo, tag |-> "none"]
  BY DEF PutManifest, PutFails, ImportInv, ImportShaped
<1>2. PICK b : b = at.repo
  OBVIOUS
<1>3. CASE PutManifest
  <2>1. PICK t : t = at.tag
    OBVIOUS
  <2>2. /\ copied' = [blobs |-> copied.blobs, tags |-> copied.tags \cup {<<b, t>>}]
        /\ failures' = failures /\ todo' = todo /\ todo.digests = {}
    BY <1>2, <1>3, <2>1 DEF PutManifest, ImportInv, ImportShaped
  <2>3. CurrentBroken' => CurrentBroken
    <3> SUFFICES ASSUME CurrentBroken' PROVE CurrentBroken
      OBVIOUS
    <3>1. PICK s \in SourceTags[b] \ todo.tags : ~Complete(b, s)'
      BY <1>1, <1>2, <2>2 DEF CurrentBroken
    <3>2. CASE s # t
      <4>1. ~Complete(b, s)
        BY <2>2, <3>1 DEF Complete
      <4> QED BY <1>2, <2>1, <3>2, <4>1 DEF CurrentBroken
    <3>3. CASE s = t
      <4>1. ~({b} \X ParseDescriptors(b, t) \subseteq copied.blobs)
        BY <2>2, <3>1, <3>3 DEF Complete, ParseDescriptors
      <4>2. PICK e \in ParseDescriptors(b, t) : <<b, e>> \notin copied.blobs
        BY <4>1
      <4> QED BY <1>1, <1>2, <2>1, <2>2, <4>2 DEF CurrentBroken
    <3> QED BY <3>2, <3>3
  <2>4. ImportShaped'
    BY <1>1, <2>2 DEF ImportInv, ImportShaped
  <2> QED BY <1>1, <1>2, <2>2, <2>3, <2>4, OthersStay, RunStep
<1>4. CASE PutFails
  <2>1. /\ copied' = copied /\ failures' = failures + 1
        /\ todo' = [repos |-> todo.repos, tags |-> todo.tags, digests |-> {}]
    BY <1>4 DEF PutFails, ImportInv, ImportShaped
  <2>2. ImportShaped'
    BY <1>1, <2>1 DEF ImportInv, ImportShaped
  <2> QED BY <1>1, <1>2, <2>1, <2>2, OthersStay, RunStep
<1> QED BY <1>3, <1>4

\* A repository, and then the run, ends with nothing left to do.
LEMMA EndsKeep ==
  ASSUME ImportInv, EndRepo \/ EndImport
  PROVE  ImportInv'
<1>1. /\ UNCHANGED <<todo, failures, copied>>
      /\ \E s \in {"run", "done"} : at' = [pc |-> s, repo |-> "none", tag |-> "none"]
  <2>1. \A r, s : r = [pc |-> "idle", repo |-> "none", tag |-> "none"] =>
                  [r EXCEPT !.pc = s] = [pc |-> s, repo |-> "none", tag |-> "none"]
    OBVIOUS
  <2>2. UNCHANGED <<todo, failures, copied>> /\ \E s \in {"run", "done"} : at' = [Nowhere EXCEPT !.pc = s]
    BY DEF EndRepo, EndImport
  <2> QED BY <2>1, <2>2 DEF Nowhere
<1>2. ImportShaped'
  BY <1>1 DEF ImportInv, ImportShaped
<1>3. Broken' \subseteq Broken
  <2>1. \A x, t : Complete(x, t)' <=> Complete(x, t)
    BY <1>1 DEF Complete
  <2>2. CASE EndImport
    BY <1>1, <2>1, <2>2 DEF EndImport, Broken, Lost
  <2>3. CASE EndRepo
    <3>1. PICK b : b = at.repo
      OBVIOUS
    <3>2. at.pc = "repo" /\ todo.tags = {} /\ at'.pc = "run"
      <4>1. at' = [Nowhere EXCEPT !.pc = "run"]
        BY <2>3 DEF EndRepo
      <4>2. \A r : r = [pc |-> "idle", repo |-> "none", tag |-> "none"] => [r EXCEPT !.pc = "run"].pc = "run"
        OBVIOUS
      <4> QED BY <2>3, <4>1, <4>2 DEF EndRepo, Nowhere
    <3>3. \A x : x # b => (Lost(x)' => Lost(x))
      BY <1>1, <2>1, <3>1, <3>2 DEF Lost
    <3>4. Lost(b)' => Lost(b)
      BY <1>1, <2>1, <3>1, <3>2 DEF Lost, CurrentBroken
    <3> QED BY <3>3, <3>4 DEF Broken
  <2> QED BY <2>2, <2>3
<1>4. Cardinality(Broken') <= failures'
  <2>1. failures \in Nat /\ Cardinality(Broken) <= failures
    BY DEF ImportInv, ImportShaped, EndRepo, EndImport
  <2>2. Broken \in SUBSET Selected /\ Broken' \in SUBSET Selected
    BY DEF Broken
  <2> QED BY <1>1, <1>3, <2>1, <2>2, BrokenCounts
<1>5. at'.pc = "done" => todo'.repos = {}
  <2>1. CASE EndImport
    BY <1>1, <2>1 DEF EndImport
  <2>2. CASE EndRepo
    <3>1. at' = [Nowhere EXCEPT !.pc = "run"]
      BY <2>2 DEF EndRepo
    <3>2. \A r : r = [pc |-> "idle", repo |-> "none", tag |-> "none"] => [r EXCEPT !.pc = "run"].pc = "run"
      OBVIOUS
    <3> QED BY <3>1, <3>2 DEF Nowhere
  <2> QED BY <2>1, <2>2
<1> QED BY <1>2, <1>4, <1>5 DEF ImportInv

\* The inductive invariant of the importer holds always.
LEMMA ImportInvariant == ImpSpec => []ImportInv
<1>1. ImportInv /\ [ImpNext]_impVars => ImportInv'
  <2> SUFFICES ASSUME ImportInv, [ImpNext]_impVars PROVE ImportInv'
    OBVIOUS
  <2>1. CASE UNCHANGED impVars
    BY <2>1 DEF impVars, ImportInv, ImportShaped, Broken, Lost, CurrentBroken, Complete
  <2>2. CASE ImpNext
    BY <2>2, StartKeeps, ListKeeps, TagKeeps, BlobKeeps, PutKeeps, EndsKeep DEF ImpNext, ImportFault
  <2> QED BY <2>1, <2>2
<1> QED BY <1>1, ImportInvInit, PTL DEF ImpSpec

\* A run that reports no failure brought every tag with every blob of a manifest that
\* parses, and no run reports fewer failures than it leaves repositories with a gap,
\* whichever calls failed (copy_repo, copy_tag).
THEOREM GapsAreReported == ImpSpec => []ImportReportsGaps
<1>1. ImportInv => ImportReportsGaps
  <2> SUFFICES ASSUME ImportInv, at.pc = "done"
               PROVE  /\ failures = 0 => \A r \in Selected : \A t \in SourceTags[r] : Complete(r, t)
                      /\ Cardinality({r \in Selected : \E t \in SourceTags[r] : ~Complete(r, t)}) <= failures
    BY DEF ImportReportsGaps
  <2>1. Broken = {r \in Selected : \E t \in SourceTags[r] : ~Complete(r, t)}
    BY DEF Broken, Lost, ImportInv
  <2>2. Cardinality(Broken) <= failures /\ failures \in Nat
    BY DEF ImportInv, ImportShaped
  <2>3. IsFiniteSet(Broken)
    BY ImportAssumption, FS_Subset DEF Broken
  <2>4. failures = 0 => Broken = {}
    BY <2>2, <2>3, FS_CardinalityType, FS_EmptySet
  <2> QED BY <2>1, <2>2, <2>4
<1> QED BY <1>1, ImportInvariant, PTL

----------------------------------------------------------------------------
(* The assistant's budget.  The bucket a replica keeps of a tenant accounts   *)
(* for the day it is of; earlier days are closed, and later ones have been    *)
(* charged only by trackers of that replica that a restart has forgotten.     *)

PilotTyped ==
    /\ today \in PilotDays /\ restarts \in [Replicas -> Nat] /\ serves \in [Turns -> Replicas]
    /\ budget \in [Buckets -> [day : PilotDays, used : Nat]]
    /\ spent \in [Buckets -> [PilotDays -> Nat]]

\* The trackers that the replica of bucket k has forgotten.
Forgot(k) == restarts[k[1]]

\* What forgotten trackers let through, at most.
Forgotten(n) == TokensPerDay * n

\* The bucket never holds more than the cap, nor a day to come.
BucketsBounded ==
    \A k \in Buckets : budget[k].used <= TokensPerDay /\ budget[k].day <= today

\* The day of the bucket is accounted for by the bucket.
Accounted(s, b, d, n) ==
    /\ d < b.day => s <= Forgotten(n) + TokensPerDay
    /\ d = b.day => s <= Forgotten(n) + b.used
    /\ d > b.day => s <= Forgotten(n)

\* The inductive invariant of the budget.
PilotInv ==
    /\ PilotTyped /\ BucketsBounded
    /\ \A k \in Buckets, d \in PilotDays : Accounted(spent[k][d], budget[k], d, Forgot(k))

\* One more forgotten tracker is worth one more cap.
LEMMA ForgottenGrows ==
  /\ TokensPerDay \in Nat /\ TokensPerStep \in Nat /\ MaxDays \in Nat
  /\ Forgotten(0) = 0
  /\ \A n \in Nat : /\ Forgotten(n) \in Nat /\ Forgotten(n + 1) = Forgotten(n) + TokensPerDay
                    /\ TokensPerDay * (1 + n) = Forgotten(n) + TokensPerDay
  BY PilotAssumption DEF Forgotten

\* Days and token counts are natural numbers.
LEMMA DaysAreNat == PilotDays \subseteq Nat /\ 0 \in PilotDays /\ TokensPerDay \in Nat /\ TokensPerStep \in Nat
  BY PilotAssumption DEF PilotDays

\* A bucket is one replica's, and its replica's restarts are counted.
LEMMA ForgotNat ==
  ASSUME NEW f \in [Replicas -> Nat], NEW k \in Buckets
  PROVE  k[1] \in Replicas /\ k[2] \in Tenants /\ k = <<k[1], k[2]>> /\ f[k[1]] \in Nat
  BY DEF Buckets

\* On every day a bucket lets through at most the cap beyond the forgotten ones.
LEMMA DaysCapped ==
  ASSUME PilotInv, NEW k \in Buckets, NEW d \in PilotDays
  PROVE  /\ budget[k] \in [day : PilotDays, used : Nat] /\ spent[k][d] \in Nat
         /\ Accounted(spent[k][d], budget[k], d, Forgot(k))
         /\ spent[k][d] <= Forgotten(Forgot(k)) + TokensPerDay
<1>1. /\ budget[k] \in [day : PilotDays, used : Nat] /\ spent[k][d] \in Nat
      /\ Accounted(spent[k][d], budget[k], d, Forgot(k))
      /\ budget[k].used <= TokensPerDay /\ Forgot(k) \in Nat
  BY ForgotNat DEF PilotInv, PilotTyped, BucketsBounded, Forgot
<1>2. PICK s \in Nat, f \in Nat : s = spent[k][d] /\ f = Forgotten(Forgot(k))
  BY <1>1, ForgottenGrows
<1>3. PICK b \in [day : PilotDays, used : Nat] : b = budget[k]
  BY <1>1
<1>4. /\ d < b.day => s <= f + TokensPerDay
      /\ d = b.day => s <= f + b.used
      /\ d > b.day => s <= f
  BY <1>1, <1>2, <1>3 DEF Accounted
<1>5. d \in Nat /\ b.day \in Nat /\ b.used \in Nat /\ b.used <= TokensPerDay /\ TokensPerDay \in Nat
  BY <1>1, <1>3, DaysAreNat
<1>6. s <= f + TokensPerDay
  BY <1>4, <1>5
<1> QED BY <1>1, <1>2, <1>6

\* Nothing is spent at the start.
LEMMA PilotInvInit == PilotInit => PilotInv
<1> SUFFICES ASSUME PilotInit PROVE PilotInv
  OBVIOUS
<1>1. /\ today = 0 /\ restarts = [r \in Replicas |-> 0] /\ serves \in [Turns -> Replicas]
      /\ budget = [k \in Buckets |-> [day |-> 0, used |-> 0]]
      /\ spent = [k \in Buckets |-> [d \in PilotDays |-> 0]]
  BY DEF PilotInit, NoBucket
<1>2. 0 \in PilotDays
  BY ForgottenGrows DEF PilotDays
<1>3. PilotTyped /\ BucketsBounded
  BY <1>1, <1>2, ForgottenGrows DEF PilotTyped, BucketsBounded
<1>4. \A k \in Buckets, d \in PilotDays : Accounted(spent[k][d], budget[k], d, Forgot(k))
  <2>1. \A k \in Buckets : Forgot(k) = 0
    BY <1>1, ForgotNat DEF Forgot
  <2> QED BY <1>1, <2>1, ForgottenGrows DEF Accounted, PilotDays
<1> QED BY <1>3, <1>4 DEF PilotInv

\* The bucket check_and_add works on is of today, within the cap, and accounts for today.
LEMMA TodaysBucket ==
  ASSUME PilotInv, NEW k \in Buckets
  PROVE  /\ Bucket(k) \in [day : PilotDays, used : Nat]
         /\ Bucket(k).day = today /\ Bucket(k).used <= TokensPerDay
         /\ \A d \in PilotDays : Accounted(spent[k][d], Bucket(k), d, Forgot(k))
<1>1. /\ budget[k] \in [day : PilotDays, used : Nat] /\ today \in PilotDays /\ Forgot(k) \in Nat
      /\ budget[k].used <= TokensPerDay /\ budget[k].day <= today
      /\ \A d \in PilotDays : Accounted(spent[k][d], budget[k], d, Forgot(k)) /\ spent[k][d] \in Nat
  BY ForgotNat DEF PilotInv, PilotTyped, BucketsBounded, Forgot
<1>2. CASE budget[k].day = today
  BY <1>1, <1>2 DEF Bucket
<1>3. CASE budget[k].day # today
  <2>1. Bucket(k) = [day |-> today, used |-> 0]
    BY <1>3 DEF Bucket
  <2>2. PICK f \in Nat : f = Forgotten(Forgot(k))
    BY <1>1, ForgottenGrows
  <2>3. PICK b \in [day : PilotDays, used : Nat] : b = budget[k]
    BY <1>1
  <2>4. \A d \in PilotDays : Accounted(spent[k][d], [day |-> today, used |-> 0], d, Forgot(k))
    <3> SUFFICES ASSUME NEW d \in PilotDays
                 PROVE  Accounted(spent[k][d], [day |-> today, used |-> 0], d, Forgot(k))
      OBVIOUS
    <3>1. PICK s \in Nat : s = spent[k][d]
      BY <1>1
    <3>2. Accounted(s, b, d, Forgot(k))
      BY <1>1, <2>3, <3>1
    <3>3. d \in Nat /\ today \in Nat /\ b.day \in Nat /\ b.used \in Nat /\ b.day < today /\ b.used <= TokensPerDay
      <4>1. d \in Nat /\ today \in Nat /\ b.day \in Nat /\ b.used \in Nat
        BY <1>1, DaysAreNat
      <4>2. b.day <= today /\ b.day # today /\ b.used <= TokensPerDay
        BY <1>1, <1>3, <2>3
      <4> QED BY <4>1, <4>2
    <3>4. /\ d < today => s <= f + TokensPerDay
          /\ d = today => s <= f + 0
          /\ d > today => s <= f
      <4>1. /\ d < b.day => s <= f + TokensPerDay
            /\ d = b.day => s <= f + b.used
            /\ d > b.day => s <= f
        BY <2>2, <3>2 DEF Accounted
      <4> QED BY <3>3, <4>1, DaysAreNat
    <3> QED BY <2>2, <3>1, <3>4 DEF Accounted
  <2> QED BY <1>1, <2>1, <2>4, ForgottenGrows
<1> QED BY <1>2, <1>3

\* check_and_add charges the bucket of today, or refuses.
LEMMA ChargeKeeps ==
  ASSUME PilotInv, NEW t \in Turns, ChargeStep(t)
  PROVE  PilotInv'
<1>1. PICK k \in Buckets : k = <<serves[t], TenantOf[t]>>
  BY DEF Tenants, Buckets, PilotInv, PilotTyped
<1>2. PICK b \in [day : PilotDays, used : Nat] : b = Bucket(k)
  BY TodaysBucket
<1>3. /\ b.day = today /\ b.used <= TokensPerDay
      /\ \A d \in PilotDays : Accounted(spent[k][d], b, d, Forgot(k))
  BY <1>2, TodaysBucket
<1>4. PilotTyped /\ BucketsBounded /\ UNCHANGED <<today, restarts, serves>>
  BY DEF PilotInv, ChargeStep
<1>5. CASE UNCHANGED <<budget, spent>>
  BY <1>4, <1>5 DEF PilotInv, PilotTyped, BucketsBounded, Forgot
<1>6. CASE budget' = [budget EXCEPT ![k] = b] /\ spent' = spent
  <2>1. PilotTyped'
    BY <1>4, <1>6 DEF PilotTyped
  <2>2. BucketsBounded'
    BY <1>3, <1>4, <1>6 DEF PilotTyped, BucketsBounded, PilotDays
  <2>3. \A m \in Buckets, d \in PilotDays : Accounted(spent[m][d], budget'[m], d, Forgot(m))
    BY <1>3, <1>4, <1>6 DEF PilotInv, PilotTyped
  <2> QED BY <1>4, <1>6, <2>1, <2>2, <2>3 DEF PilotInv, Forgot
<1>7. CASE /\ CheckAndAdd(k)
           /\ budget' = [budget EXCEPT ![k] = [b EXCEPT !.used = b.used + TokensPerStep]]
           /\ spent' = [spent EXCEPT ![k][today] = @ + TokensPerStep]
  <2>1. PICK u \in Nat : u = b.used + TokensPerStep
    BY ForgottenGrows
  <2>2. PICK c \in [day : PilotDays, used : Nat] : c = [b EXCEPT !.used = u]
    OBVIOUS
  <2>3. c.day = today /\ c.used = u /\ u <= TokensPerDay
    BY <1>2, <1>3, <1>7, <2>1, <2>2 DEF CheckAndAdd
  <2>4. budget' = [budget EXCEPT ![k] = c]
    BY <1>7, <2>1, <2>2
  <2>5. /\ spent'[k][today] = spent[k][today] + TokensPerStep
        /\ \A m \in Buckets, d \in PilotDays : <<m, d>> # <<k, today>> => spent'[m][d] = spent[m][d]
        /\ spent' \in [Buckets -> [PilotDays -> Nat]]
    <3>1. spent \in [Buckets -> [PilotDays -> Nat]] /\ today \in PilotDays
      BY <1>4 DEF PilotTyped
    <3>2. PICK v \in Nat : v = spent[k][today] + TokensPerStep
      BY <3>1, ForgottenGrows
    <3>3. PICK g \in [PilotDays -> Nat] : g = [spent[k] EXCEPT ![today] = v]
      BY <3>1
    <3>4. spent' = [spent EXCEPT ![k] = g]
      BY <1>7, <3>2, <3>3
    <3> QED BY <3>1, <3>2, <3>3, <3>4
  <2>6. PilotTyped'
    BY <1>4, <2>4, <2>5 DEF PilotTyped
  <2>7. BucketsBounded'
    BY <1>4, <2>3, <2>4 DEF PilotTyped, BucketsBounded, PilotDays
  <2>8. ASSUME NEW m \in Buckets, NEW d \in PilotDays
        PROVE  Accounted(spent'[m][d], budget'[m], d, Forgot(m))
    <3>1. CASE m # k
      BY <1>4, <2>4, <2>5, <3>1 DEF PilotInv, PilotTyped
    <3>2. CASE m = k /\ d # today
      <4>1. Accounted(spent[k][d], b, d, Forgot(k)) /\ spent'[k][d] = spent[k][d] /\ budget'[k] = c
        BY <1>3, <1>4, <2>4, <2>5, <3>2 DEF PilotTyped
      <4> QED BY <1>3, <2>3, <3>2, <4>1 DEF Accounted
    <3>3. CASE m = k /\ d = today
      <4>1. /\ Accounted(spent[k][today], b, today, Forgot(k)) /\ spent'[k][today] = spent[k][today] + TokensPerStep
            /\ budget'[k] = c /\ spent[k][today] \in Nat /\ today \in Nat /\ Forgotten(Forgot(k)) \in Nat
        <5>1. today \in PilotDays /\ Forgot(k) \in Nat /\ budget'[k] = c /\ spent[k][today] \in Nat
          BY <1>4, <2>4, ForgotNat DEF PilotTyped, Forgot
        <5>2. today \in Nat /\ Forgotten(Forgot(k)) \in Nat
          BY <5>1, DaysAreNat, ForgottenGrows
        <5> QED BY <1>3, <2>5, <5>1, <5>2
      <4>2. spent[k][today] <= Forgotten(Forgot(k)) + b.used
        BY <1>3, <4>1 DEF Accounted
      <4>3. spent[k][today] + TokensPerStep <= Forgotten(Forgot(k)) + u
        BY <2>1, <4>1, <4>2, DaysAreNat
      <4> QED BY <2>3, <3>3, <4>1, <4>3 DEF Accounted
    <3> QED BY <3>1, <3>2, <3>3
  <2> QED BY <1>4, <2>6, <2>7, <2>8 DEF PilotInv, Forgot
<1> QED BY <1>1, <1>2, <1>5, <1>6, <1>7 DEF ChargeStep

\* Turns that charge nothing, and midnight: the buckets wait for the next charge.
LEMMA QuietStepsKeep ==
  ASSUME PilotInv,
         \/ \E t \in Turns : PilotChat(t) \/ LlmStep(t) \/ Invoke(t) \/ RoundDone(t)
         \/ Midnight
  PROVE  PilotInv'
<1>1. UNCHANGED <<serves, budget, spent, restarts>> /\ (today' = today \/ (today < MaxDays /\ today' = today + 1))
  BY DEF PilotChat, LlmStep, Invoke, RoundDone, Midnight
<1>2. today \in PilotDays /\ MaxDays \in Nat
  BY ForgottenGrows DEF PilotInv, PilotTyped
<1>3. today' \in PilotDays /\ today <= today'
  BY <1>1, <1>2 DEF PilotDays
<1>4. PilotTyped'
  BY <1>1, <1>3 DEF PilotInv, PilotTyped
<1>5. BucketsBounded'
  BY <1>1, <1>2, <1>3 DEF PilotInv, PilotTyped, BucketsBounded, PilotDays
<1> QED BY <1>1, <1>4, <1>5 DEF PilotInv, Forgot

\* Each restart adds what one forgotten bucket may have held.
LEMMA RestartForgets ==
  ASSUME PilotInv, NEW r \in Replicas, RestartRegistry(r)
  PROVE  PilotInv'
<1>1. /\ restarts' = [restarts EXCEPT ![r] = @ + 1] /\ UNCHANGED <<today, spent, serves>>
      /\ restarts \in [Replicas -> Nat] /\ today \in PilotDays
      /\ budget' = [k \in Buckets |-> IF k[1] = r THEN [day |-> 0, used |-> 0] ELSE budget[k]]
  BY DEF RestartRegistry, NoBucket, PilotInv, PilotTyped
<1>2. 0 \in PilotDays /\ today \in Nat
  BY <1>1, ForgottenGrows DEF PilotDays
<1>3. PilotTyped' /\ BucketsBounded'
  <2>1. PilotTyped'
    BY <1>1, <1>2 DEF PilotInv, PilotTyped
  <2>2. BucketsBounded'
    BY <1>1, <1>2, DaysAreNat DEF BucketsBounded, PilotInv
  <2> QED BY <2>1, <2>2
<1>4. ASSUME NEW k \in Buckets, NEW d \in PilotDays
      PROVE  Accounted(spent'[k][d], budget'[k], d, Forgot(k)')
  <2>1. k[1] \in Replicas /\ Forgot(k) \in Nat
    BY <1>1, ForgotNat DEF Forgot
  <2>2. CASE k[1] # r
    <3>1. Forgot(k)' = Forgot(k) /\ spent'[k][d] = spent[k][d] /\ budget'[k] = budget[k]
      BY <1>1, <2>1, <2>2 DEF Forgot
    <3> QED BY <3>1 DEF PilotInv
  <2>3. CASE k[1] = r
    <3>1. Forgot(k)' = Forgot(k) + 1
      BY <1>1, <2>1, <2>3 DEF Forgot
    <3>2. PICK f \in Nat : f = Forgotten(Forgot(k)) /\ Forgotten(Forgot(k)') = f + TokensPerDay
      BY <2>1, <3>1, ForgottenGrows
    <3>3. spent[k][d] \in Nat /\ spent[k][d] <= f + TokensPerDay
      BY <3>2, DaysCapped
    <3>4. spent'[k][d] = spent[k][d] /\ budget'[k] = [day |-> 0, used |-> 0]
      BY <1>1, <2>3
    <3>5. d \in Nat /\ ~(d < 0) /\ f + TokensPerDay + 0 = f + TokensPerDay
      BY DaysAreNat
    <3> QED BY <3>2, <3>3, <3>4, <3>5 DEF Accounted
  <2> QED BY <2>2, <2>3
<1> QED BY <1>3, <1>4 DEF PilotInv

\* Concurrent turns, refused steps, midnight and restarts: on no day does a tenant take
\* steps on a replica worth more than the cap, once for each tracker the replica has had.
\* Over the replicas the caps add up.
THEOREM SpendStaysCapped == PilotSpec => []SpendCapped
<1>1. PilotInv /\ [PilotNext]_pilotVars => PilotInv'
  <2> SUFFICES ASSUME PilotInv, [PilotNext]_pilotVars PROVE PilotInv'
    OBVIOUS
  <2>1. CASE UNCHANGED pilotVars
    BY <2>1 DEF pilotVars, PilotInv, PilotTyped, BucketsBounded, Forgot
  <2>2. CASE PilotNext
    BY <2>2, ChargeKeeps, QuietStepsKeep, RestartForgets DEF PilotNext, RunTurn
  <2> QED BY <2>1, <2>2
<1>2. PilotInv => SpendCapped
  <2> SUFFICES ASSUME PilotInv, NEW k \in Buckets, NEW d \in PilotDays
               PROVE  spent[k][d] <= TokensPerDay * (1 + Forgot(k))
    BY DEF SpendCapped, Buckets, Forgot
  <2>1. Forgot(k) \in Nat
    BY ForgotNat DEF PilotInv, PilotTyped, Forgot
  <2>2. PICK f \in Nat : f = Forgotten(Forgot(k)) /\ TokensPerDay * (1 + Forgot(k)) = f + TokensPerDay
    BY <2>1, ForgottenGrows
  <2> QED BY <2>2, DaysCapped
<1> QED BY <1>1, <1>2, PilotInvInit, PTL DEF PilotSpec

----------------------------------------------------------------------------
(* The mirror.  A pushed tag is safe as long as no fetch of the tag is under  *)
(* way; the index is complete up to the one entry that is being saved.        *)

\* What an entry of the cache names.
Digests == Image \cup {NoImage}
Entries == {"manifest", "layer"} \X Digests

\* Where a request is.
PullState == [pc : {"idle", "ask", "put", "link", "save"}, i : Nat, entry : Entries,
              missing : BOOLEAN, seen : SUBSET Entries]

MirrorTyped ==
    /\ pull \in [Pulls -> PullState]
    /\ \A p \in Pulls : pull[p].pc = "ask" => pull[p].i \in 1..Len(Upstreams)
    /\ remote \in [Up -> [st : {"ok", "down", "refuses"}, tag : Digests]]
    /\ index \in SUBSET Entries /\ pushed \in Digests

\* After a push that met no fetch of the tag, the tag is what was pushed, it is
\* a hit, and the requests under way are for layers.
PushedStays ==
    ~clash /\ pushed # NoImage =>
        /\ mtag = pushed /\ pushed \in mmans
        /\ \A p \in Pulls : pull[p].pc # "idle" => pull[p].entry[1] # "manifest"

\* One request at a time saves, from the index as it is; what was cached is in
\* the index or is the entry being saved.
IndexFollows ==
    ~torn =>
        /\ \A p, o \in Pulls : pull[p].pc = "save" /\ pull[o].pc = "save" => p = o
        /\ \A p \in Pulls : pull[p].pc = "save" => pull[p].seen = index
        /\ \A e \in cached : e \in index \/ \E p \in Pulls : pull[p].pc = "save" /\ pull[p].entry = e

\* The inductive invariant of the mirror.
MirrorInv == MirrorTyped /\ PushedStays /\ IndexFollows

\* An idle request asks for nothing yet.
LEMMA NoPullTyped == NoPull \in PullState /\ NoPull.pc = "idle"
  BY DEF NoPull, PullState, ManifestEntry, Entries, Digests

\* Nothing is cached or asked for at the start; a tag that is there was pushed.
LEMMA MirrorInvInit == MirrorInit => MirrorInv
<1> SUFFICES ASSUME MirrorInit PROVE MirrorInv
  OBVIOUS
<1>1. PICK d \in Image : remote = [u \in Up |-> [st |-> "ok", tag |-> IF u = Upstreams[1] THEN NoImage ELSE d]]
  BY DEF MirrorInit
<1>2. remote \in [Up -> [st : {"ok", "down", "refuses"}, tag : Digests]]
  BY <1>1 DEF Digests
<1>3. /\ pull = [p \in Pulls |-> NoPull] /\ index = {} /\ cached = {}
      /\ pushed \in Digests /\ mtag = pushed /\ mmans = {mtag} \ {NoImage}
  BY DEF MirrorInit, Digests
<1>4. MirrorTyped
  BY <1>2, <1>3, NoPullTyped DEF MirrorTyped, Digests
<1> QED BY <1>3, <1>4, NoPullTyped DEF MirrorInv, PushedStays, IndexFollows

\* A request moves to q, neither into nor out of a save of the index.
LEMMA PullMoves ==
  ASSUME MirrorInv, NEW p \in Pulls, NEW q \in PullState, PullStep(p, q),
         q.pc = "ask" => q.i \in 1..Len(Upstreams), q.pc # "save", pull[p].pc # "save",
         UNCHANGED <<remote, index, cached, pushed, torn, mtag>>, mmans \subseteq mmans',
         clash => clash',
         (~clash' /\ pushed # NoImage /\ q.pc # "idle") => q.entry[1] # "manifest"
  PROVE  MirrorInv'
<1>1. pull' = [pull EXCEPT ![p] = q] /\ pull \in [Pulls -> PullState]
  BY DEF PullStep, MirrorInv, MirrorTyped
<1>2. MirrorTyped'
  BY <1>1 DEF MirrorInv, MirrorTyped
<1>3. PushedStays'
  BY <1>1 DEF MirrorInv, PushedStays
<1>4. \A o \in Pulls : pull'[o].pc = "save" <=> pull[o].pc = "save"
  BY <1>1
<1>5. \A o \in Pulls : pull'[o].pc = "save" => pull'[o] = pull[o]
  BY <1>1
<1>6. IndexFollows'
  BY <1>4, <1>5 DEF MirrorInv, IndexFollows
<1> QED BY <1>2, <1>3, <1>6 DEF MirrorInv

\* A request for the tag, or for a layer, begins at the first upstream.
LEMMA BeginsAsking ==
  ASSUME NEW e \in Entries, NEW q, q = [NoPull EXCEPT !.pc = "ask", !.i = 1, !.entry = e]
  PROVE  q \in PullState /\ q.pc = "ask" /\ q.i = 1 /\ q.entry = e
<1>1. \A r \in PullState :
        LET n == [r EXCEPT !.pc = "ask", !.i = 1, !.entry = e]
        IN n \in PullState /\ n.pc = "ask" /\ n.i = 1 /\ n.entry = e
  BY DEF PullState
<1> QED BY <1>1, NoPullTyped

\* A request begins after a local miss; a pushed tag is one only when its link
\* cannot be read.
LEMMA BeginsKeep ==
  ASSUME MirrorInv, NEW p \in Pulls,
         (\E unread \in BOOLEAN : BeginPull(p, unread)) \/ \E d \in Image : BeginLayer(p, d)
  PROVE  MirrorInv'
<1>1. 1 \in 1..Len(Upstreams)
  BY MirrorAssumption
<1>2. ASSUME NEW unread \in BOOLEAN, BeginPull(p, unread) PROVE MirrorInv'
  <2>1. PICK q : q = [NoPull EXCEPT !.pc = "ask", !.i = 1]
    OBVIOUS
  <2>2. q \in PullState /\ q.pc = "ask" /\ q.i = 1
    <3>1. \A r \in PullState :
            LET n == [r EXCEPT !.pc = "ask", !.i = 1]
            IN n \in PullState /\ n.pc = "ask" /\ n.i = 1
      BY DEF PullState
    <3> QED BY <2>1, <3>1, NoPullTyped
  <2>3. /\ PullStep(p, q) /\ pull[p].pc = "idle" /\ (unread \/ mtag \notin mmans)
        /\ clash' = (clash \/ (unread /\ mtag # NoImage))
    BY <1>2, <2>1 DEF BeginPull
  <2>4. clash' \/ pushed = NoImage
    BY <2>3 DEF MirrorInv, PushedStays
  <2>5. UNCHANGED <<remote, index, cached, pushed, torn, mtag, mmans>>
    BY <1>2 DEF BeginPull
  <2> QED BY <1>1, <2>2, <2>3, <2>4, <2>5, PullMoves
<1>3. ASSUME NEW d \in Image, BeginLayer(p, d) PROVE MirrorInv'
  <2>1. PICK e \in Entries : e = LayerEntry(d)
    BY DEF LayerEntry, Entries, Digests
  <2>2. PICK q : q = [NoPull EXCEPT !.pc = "ask", !.i = 1, !.entry = e]
    OBVIOUS
  <2>3. q \in PullState /\ q.pc = "ask" /\ q.i = 1 /\ q.entry = e
    BY <2>2, BeginsAsking
  <2>4. e[1] # "manifest"
    BY <2>1 DEF LayerEntry
  <2>5. PullStep(p, q) /\ pull[p].pc = "idle"
    BY <1>3, <2>1, <2>2 DEF BeginLayer
  <2>6. UNCHANGED <<remote, index, cached, pushed, clash, torn, mtag, mmans>>
    BY <1>3 DEF BeginLayer
  <2> QED BY <1>1, <2>3, <2>4, <2>5, <2>6, PullMoves
<1> QED BY <1>2, <1>3

\* The answer of an upstream, the next one, or the end; the kind of the entry stays.
LEMMA AskKeeps ==
  ASSUME MirrorInv, NEW p \in Pulls, AskUpstream(p)
  PROVE  MirrorInv'
<1>1. PICK q \in PullState : q = pull[p]
  BY DEF MirrorInv, MirrorTyped
<1>2. q.pc = "ask" /\ q.i \in 1..Len(Upstreams) /\ UNCHANGED <<remote, index, cached, pushed, clash, torn, mtag, mmans>>
  BY <1>1 DEF AskUpstream, MirrorInv, MirrorTyped
<1>3. PICK u \in Up : u = Upstreams[q.i]
  BY <1>2 DEF Up
<1>4. PICK d \in Digests : d = Found(u, q.entry)
  <2>1. remote[u].tag \in Digests
    BY DEF MirrorInv, MirrorTyped
  <2>2. q.entry[2] \in Digests
    BY DEF PullState, Entries
  <2> QED BY <2>1, <2>2 DEF Found, Digests
<1>5. PICK missing \in BOOLEAN : missing = (q.missing /\ remote[u].st # "refuses")
  OBVIOUS
<1>6. PICK e \in Entries : e = <<q.entry[1], d>>
  BY DEF PullState, Entries
<1>7. \/ PullStep(p, [q EXCEPT !.pc = "put", !.entry = e])
      \/ q.i < Len(Upstreams) /\ PullStep(p, [q EXCEPT !.i = q.i + 1, !.missing = missing])
      \/ PullStep(p, NoPull)
  BY <1>1, <1>3, <1>4, <1>5, <1>6 DEF AskUpstream
<1>8. (~clash /\ pushed # NoImage) => q.entry[1] # "manifest"
  BY <1>1, <1>2 DEF MirrorInv, PushedStays
<1>9. CASE PullStep(p, [q EXCEPT !.pc = "put", !.entry = e])
  <2>1. PICK n : n = [q EXCEPT !.pc = "put", !.entry = e]
    OBVIOUS
  <2>2. n \in PullState /\ n.pc = "put" /\ n.entry = e
    BY <2>1 DEF PullState
  <2>3. e[1] = q.entry[1]
    BY <1>6
  <2> QED BY <1>1, <1>2, <1>8, <1>9, <2>1, <2>2, <2>3, PullMoves
<1>10. CASE q.i < Len(Upstreams) /\ PullStep(p, [q EXCEPT !.i = q.i + 1, !.missing = missing])
  <2>1. PICK j \in Nat : j = q.i + 1
    BY <1>2
  <2>2. PICK n : n = [q EXCEPT !.i = j, !.missing = missing]
    OBVIOUS
  <2>3. n \in PullState /\ n.pc = "ask" /\ n.entry = q.entry /\ n.i = j
    BY <1>2, <2>2 DEF PullState
  <2>4. j \in 1..Len(Upstreams)
    BY <1>2, <1>10, <2>1, MirrorAssumption
  <2> QED BY <1>1, <1>2, <1>8, <1>10, <2>1, <2>2, <2>3, <2>4, PullMoves
<1>11. CASE PullStep(p, NoPull)
  BY <1>1, <1>2, <1>11, NoPullTyped, PullMoves
<1> QED BY <1>7, <1>9, <1>10, <1>11

\* The object is cached, or its put fails.
LEMMA CacheKeeps ==
  ASSUME MirrorInv, NEW p \in Pulls, NEW stored \in BOOLEAN, CacheObject(p, stored)
  PROVE  MirrorInv'
<1>1. PICK q \in PullState : q = pull[p]
  BY DEF MirrorInv, MirrorTyped
<1>2. PICK n : n = [q EXCEPT !.pc = "link"]
  OBVIOUS
<1>3. n \in PullState /\ n.pc = "link" /\ n.entry = q.entry
  BY <1>2 DEF PullState
<1>4. /\ PullStep(p, n) /\ q.pc = "put" /\ mmans \subseteq mmans'
      /\ UNCHANGED <<remote, index, cached, pushed, clash, torn, mtag>>
  BY <1>1, <1>2 DEF CacheObject
<1>5. (~clash /\ pushed # NoImage) => q.entry[1] # "manifest"
  BY <1>1, <1>4 DEF MirrorInv, PushedStays
<1> QED BY <1>1, <1>3, <1>4, <1>5, PullMoves

\* The link is the pushed tag's own unless a push overlapped; nobody else saves.
LEMMA LinkKeeps ==
  ASSUME MirrorInv, NEW p \in Pulls, NEW linked \in BOOLEAN, NEW read \in BOOLEAN, LinkTag(p, linked, read)
  PROVE  MirrorInv'
<1>1. PICK q \in PullState : q = pull[p]
  BY DEF MirrorInv, MirrorTyped
<1>2. PICK n : n = [q EXCEPT !.pc = "save", !.seen = LoadIndex(read)]
  OBVIOUS
<1>3. /\ n \in PullState /\ n.pc = "save" /\ n.entry = q.entry
      /\ read => n.seen = index
  BY <1>2 DEF PullState, MirrorInv, MirrorTyped, LoadIndex
<1>4. /\ pull' = [pull EXCEPT ![p] = n] /\ q.pc = "link" /\ UNCHANGED <<mmans, index, remote, pushed, clash>>
      /\ mtag' = (IF linked /\ q.entry[1] = "manifest" THEN q.entry[2] ELSE mtag)
      /\ cached' = cached \cup {q.entry}
      /\ torn' = (torn \/ ~read \/ \E o \in Pulls \ {p} : pull[o].pc = "save")
  BY <1>1, <1>2 DEF LinkTag, PullStep
<1>5. MirrorTyped'
  BY <1>3, <1>4 DEF MirrorInv, MirrorTyped
<1>6. PushedStays'
  <2>1. (~clash /\ pushed # NoImage) => q.entry[1] # "manifest"
    BY <1>1, <1>4 DEF MirrorInv, PushedStays
  <2> QED BY <1>1, <1>3, <1>4, <2>1 DEF MirrorInv, MirrorTyped, PushedStays
<1>7. IndexFollows'
  <2> SUFFICES ASSUME ~torn'
               PROVE  /\ \A o, r \in Pulls : pull'[o].pc = "save" /\ pull'[r].pc = "save" => o = r
                      /\ \A o \in Pulls : pull'[o].pc = "save" => pull'[o].seen = index
                      /\ \A e \in cached' : e \in index \/ \E o \in Pulls : pull'[o].pc = "save" /\ pull'[o].entry = e
    BY <1>4 DEF IndexFollows
  <2>1. read /\ ~torn /\ \A o \in Pulls \ {p} : pull[o].pc # "save"
    BY <1>4
  <2>2. pull'[p] = n /\ \A o \in Pulls \ {p} : pull'[o] = pull[o]
    BY <1>4 DEF MirrorInv, MirrorTyped
  <2>3. pull[p].pc # "save"
    BY <1>1, <1>4
  <2>4. \A e \in cached : e \in index
    BY <2>1, <2>3 DEF MirrorInv, IndexFollows
  <2> QED BY <1>3, <1>4, <2>1, <2>2, <2>4
<1> QED BY <1>5, <1>6, <1>7 DEF MirrorInv

\* The index is written back, or the request goes away.
LEMMA SavesKeep ==
  ASSUME MirrorInv, NEW p \in Pulls, SaveIndex(p) \/ DropPull(p)
  PROVE  MirrorInv'
<1>1. pull' = [pull EXCEPT ![p] = NoPull] /\ UNCHANGED <<mmans, mtag, remote, cached, pushed, clash>>
  BY DEF SaveIndex, DropPull, PullStep
<1>2. pull'[p] = NoPull /\ \A o \in Pulls \ {p} : pull'[o] = pull[o]
  BY <1>1 DEF MirrorInv, MirrorTyped
<1>3. PushedStays'
  BY <1>1, <1>2, NoPullTyped DEF MirrorInv, PushedStays
<1>4. pull \in [Pulls -> PullState] /\ pull' \in [Pulls -> PullState]
  BY <1>1, NoPullTyped DEF MirrorInv, MirrorTyped
<1>5. CASE SaveIndex(p)
  <2>1. index' = pull[p].seen \cup {pull[p].entry} /\ pull[p].pc = "save" /\ torn' = torn
    BY <1>5 DEF SaveIndex
  <2>2. pull[p].seen \in SUBSET Entries /\ pull[p].entry \in Entries
    BY <1>4 DEF PullState
  <2>3. MirrorTyped'
    BY <1>1, <1>2, <1>4, <2>1, <2>2, NoPullTyped DEF MirrorInv, MirrorTyped
  <2>4. ASSUME ~torn
        PROVE  /\ \A o \in Pulls : pull'[o].pc # "save"
               /\ \A e \in cached : e \in index'
    <3>1. \A o \in Pulls \ {p} : pull[o].pc # "save"
      BY <2>1, <2>4 DEF MirrorInv, IndexFollows
    <3>2. index' = index \cup {pull[p].entry}
      BY <2>1, <2>4 DEF MirrorInv, IndexFollows
    <3> QED BY <1>2, <2>4, <3>1, <3>2, NoPullTyped DEF MirrorInv, IndexFollows
  <2>5. IndexFollows'
    BY <1>1, <2>1, <2>4 DEF IndexFollows
  <2> QED BY <1>3, <2>3, <2>5 DEF MirrorInv
<1>6. CASE DropPull(p)
  <2>1. index' = index /\ torn' = (torn \/ pull[p].pc = "save")
    BY <1>6 DEF DropPull
  <2>2. MirrorTyped'
    BY <1>1, <1>2, <1>4, <2>1, NoPullTyped DEF MirrorInv, MirrorTyped
  <2>3. ~torn' => ~torn /\ \A o \in Pulls : (pull'[o].pc = "save" => pull'[o] = pull[o])
                        /\ (pull[o].pc = "save" => pull'[o] = pull[o])
    BY <1>2, <2>1, NoPullTyped
  <2>4. IndexFollows'
    BY <1>1, <2>1, <2>3 DEF MirrorInv, IndexFollows
  <2> QED BY <1>3, <2>2, <2>4 DEF MirrorInv
<1> QED BY <1>5, <1>6

\* A client pushes, or an upstream changes.
LEMMA OutsideKeeps ==
  ASSUME MirrorInv, (\E d \in Image : PushLocal(d)) \/ (\E u \in Up : UpstreamChanges(u))
  PROVE  MirrorInv'
<1>1. ASSUME NEW d \in Image, PushLocal(d) PROVE MirrorInv'
  <2>1. /\ mmans' = mmans \cup {d} /\ mtag' = d /\ pushed' = d
        /\ clash' = \E p \in Pulls : pull[p].pc # "idle" /\ pull[p].entry[1] = "manifest"
        /\ UNCHANGED <<index, remote, pull, cached, torn>>
    BY <1>1 DEF PushLocal
  <2>2. MirrorTyped'
    BY <2>1 DEF MirrorInv, MirrorTyped, Digests
  <2>3. PushedStays'
    BY <2>1 DEF PushedStays
  <2>4. IndexFollows'
    BY <2>1 DEF MirrorInv, IndexFollows
  <2> QED BY <2>2, <2>3, <2>4 DEF MirrorInv
<1>2. ASSUME NEW u \in Up, UpstreamChanges(u) PROVE MirrorInv'
  <2>1. UNCHANGED <<mmans, mtag, index, pull, cached, pushed, clash, torn>>
    BY <1>2 DEF UpstreamChanges
  <2>2. remote' \in [Up -> [st : {"ok", "down", "refuses"}, tag : Digests]]
    BY <1>2 DEF UpstreamChanges, Digests, MirrorInv, MirrorTyped
  <2> QED BY <2>1, <2>2 DEF MirrorInv, MirrorTyped, PushedStays, IndexFollows
<1> QED BY <1>1, <1>2

\* The inductive invariant of the mirror holds always.
LEMMA MirrorInvariant == MirrorSpec => []MirrorInv
<1>1. MirrorInv /\ [MirrorNext]_mirrorVars => MirrorInv'
  <2> SUFFICES ASSUME MirrorInv, [MirrorNext]_mirrorVars PROVE MirrorInv'
    OBVIOUS
  <2>1. CASE UNCHANGED mirrorVars
    BY <2>1 DEF mirrorVars, MirrorInv, MirrorTyped, PushedStays, IndexFollows
  <2>2. CASE MirrorNext
    BY <2>2, BeginsKeep, AskKeeps, CacheKeeps, LinkKeeps, SavesKeep, OutsideKeeps DEF MirrorNext
  <2> QED BY <2>1, <2>2
<1> QED BY <1>1, MirrorInvInit, PTL DEF MirrorSpec

\* A tag a client pushed is not replaced by what an upstream has under that name,
\* unless a fetch of it was under way at the push or began because the store
\* could not read the tag's link.
THEOREM PushesOutliveMirror == MirrorSpec => []PushOutlivesMirror
<1>1. MirrorInv => PushOutlivesMirror
  BY DEF MirrorInv, PushedStays, PushOutlivesMirror
<1> QED BY <1>1, MirrorInvariant, PTL

\* Unless two record_cached calls overlapped, one was cut short or one could not
\* read it, the index lists everything that was cached once no pull is running.
THEOREM IndexCompletes == MirrorSpec => []IndexIsComplete
<1>1. MirrorInv => IndexIsComplete
  BY DEF MirrorInv, IndexFollows, IndexIsComplete
<1> QED BY <1>1, MirrorInvariant, PTL

----------------------------------------------------------------------------
(* The lazy-pull queue, for every number of jobs and workers.                 *)

LazyTyped ==
    /\ job \in [LazyRows -> [status : {"none", "queued", "running", "done", "failed"},
                              attempts : Nat]]
    /\ holds \in [LazyWorkers -> LazyRows \cup {NoJob}]
    /\ orphaned \subseteq LazyRows

\* The index rows are those of the jobs that are done.
IndexHasJob ==
    \A j \in LazyRows :
        LayerOf[j] \in indexed <=>
            \E i \in LazyRows : LayerOf[i] = LayerOf[j] /\ job[i].status = "done"

\* A worker's job runs, and it is the worker's alone; a job nobody has yet, or that
\* goes back to the queue, may be claimed once more.
LazyInv ==
    /\ LazyTyped
    /\ \A w \in LazyWorkers : holds[w] # NoJob => job[holds[w]].status = "running"
    /\ \A l \in LazyRows :
          /\ job[l].status \in {"none", "queued"} => job[l].attempts < MaxAttempts
    /\ \A l \in LazyRows : OwnedOnce(l)
    /\ IndexHasJob

\* What the actions of a worker that ends its job have in common.
LEMMA LazyRelease ==
  ASSUME LazyInv, NEW w \in LazyWorkers, NEW l \in LazyRows, holds[w] = l,
         NEW st \in {"queued", "running", "done", "failed"},
         job' = [job EXCEPT ![l].status = st], holds' = [holds EXCEPT ![w] = NoJob],
         indexed' = IF st = "done" THEN indexed \cup {LayerOf[l]} ELSE indexed, orphaned' = orphaned,
         st = "queued" => job[l].attempts < MaxAttempts,
         st = "running" => Shape[l] = "unparsed"
  PROVE  LazyInv'
<1>1. NoJob \notin LazyRows /\ MaxAttempts \in Nat
  BY LazyAssumption
<1>2. LazyTyped'
  BY DEF LazyInv, LazyTyped
<1>3. \A x \in LazyWorkers : x # w => holds[x] # l
  BY <1>1 DEF LazyInv, OwnedOnce
<1>4. /\ \A k \in LazyRows : k # l => job'[k] = job[k]
      /\ job'[l].status = st /\ job'[l].attempts = job[l].attempts
      /\ job[l].status = "running"
  BY <1>1 DEF LazyInv, LazyTyped
<1>5. holds'[w] = NoJob /\ \A x \in LazyWorkers : x # w => holds'[x] = holds[x]
  BY DEF LazyInv, LazyTyped
<1>6. \A x \in LazyWorkers : holds'[x] # NoJob => job'[holds'[x]].status = "running"
  BY <1>3, <1>4, <1>5 DEF LazyInv, LazyTyped
<1>7. \A k \in LazyRows : job'[k].status \in {"none", "queued"} => job'[k].attempts < MaxAttempts
  BY <1>4 DEF LazyInv
<1>8. \A k \in LazyRows : OwnedOnce(k)'
  <2> SUFFICES ASSUME NEW k \in LazyRows
               PROVE  /\ job'[k].status = "running" =>
                            k \in orphaned' \/ Shape[k] = "unparsed" \/ \E x \in LazyWorkers : holds'[x] = k
                      /\ \A x, y \in LazyWorkers : holds'[x] = k /\ holds'[y] = k => x = y
                      /\ job'[k].attempts <= MaxAttempts
    BY DEF OwnedOnce
  <2>1. CASE k = l
    BY <1>1, <1>3, <1>4, <1>5, <2>1 DEF LazyInv, OwnedOnce
  <2>2. CASE k # l
    <3>1. /\ job[k].status = "running" =>
                k \in orphaned \/ Shape[k] = "unparsed" \/ \E x \in LazyWorkers : holds[x] = k
          /\ \A x, y \in LazyWorkers : holds[x] = k /\ holds[y] = k => x = y
          /\ job[k].attempts <= MaxAttempts
      BY DEF LazyInv, OwnedOnce
    <3>3. \A x \in LazyWorkers : holds[x] = k <=> holds'[x] = k
      BY <1>1, <1>5, <2>2
    <3> QED BY <1>4, <2>2, <3>1, <3>3
  <2> QED BY <2>1, <2>2
<1>9. IndexHasJob'
  <2> SUFFICES ASSUME NEW j \in LazyRows
               PROVE  LayerOf[j] \in indexed' <=>
                          \E i \in LazyRows : LayerOf[i] = LayerOf[j] /\ job'[i].status = "done"
    BY DEF IndexHasJob
  <2>1. LayerOf[j] \in indexed <=>
            \E i \in LazyRows : LayerOf[i] = LayerOf[j] /\ job[i].status = "done"
    BY DEF LazyInv, IndexHasJob
  <2>2. \A i \in LazyRows : i # l => job'[i].status = job[i].status
    BY <1>4
  <2>3. CASE st = "done"
    <3>1. CASE LayerOf[j] = LayerOf[l]
      BY <1>4, <2>3, <3>1
    <3>2. CASE LayerOf[j] # LayerOf[l]
      <4>1. LayerOf[j] \in indexed' <=> LayerOf[j] \in indexed
        BY <2>3, <3>2
      <4>2. \A i \in LazyRows : LayerOf[i] = LayerOf[j] => job'[i].status = job[i].status
        BY <2>2, <3>2
      <4> QED BY <2>1, <4>1, <4>2
    <3> QED BY <3>1, <3>2
  <2>4. CASE st # "done"
    <3>1. \A i \in LazyRows : job'[i].status = "done" <=> job[i].status = "done"
      BY <1>4, <2>2, <2>4
    <3> QED BY <2>1, <2>4, <3>1
  <2> QED BY <2>3, <2>4
<1> QED BY <1>2, <1>6, <1>7, <1>8, <1>9 DEF LazyInv

\* Steps that leave the jobs that are done alone, and the index.
LEMMA LazySameDone ==
  ASSUME IndexHasJob, indexed' = indexed,
         \A k \in LazyRows : job'[k].status = "done" <=> job[k].status = "done"
  PROVE  IndexHasJob'
  BY DEF IndexHasJob

\* A push puts its layer on the queue.
LEMMA LazyEnqueued ==
  ASSUME LazyInv, NEW l \in LazyRows, EnqueueLazy(l)
  PROVE  LazyInv'
<1> USE DEF EnqueueLazy
<1>1. LazyTyped'
  BY DEF LazyInv, LazyTyped
<1>2. /\ \A k \in LazyRows : k # l => job'[k] = job[k]
      /\ job'[l].status = "queued" /\ job'[l].attempts = job[l].attempts
      /\ job[l].status = "none"
  BY DEF LazyInv, LazyTyped
<1>3. \A w \in LazyWorkers : holds[w] # l
  BY <1>2, LazyAssumption DEF LazyInv, LazyTyped
<1>4. \A k \in LazyRows : OwnedOnce(k)'
  BY <1>2 DEF LazyInv, OwnedOnce
<1>5. IndexHasJob'
  BY <1>2, LazySameDone DEF LazyInv
<1> QED BY <1>1, <1>2, <1>3, <1>4, <1>5 DEF LazyInv, LazyTyped

\* A claim takes a job nobody holds.
LEMMA LazyClaimed ==
  ASSUME LazyInv, NEW w \in LazyWorkers, NEW l \in LazyRows, Claim(w, l)
  PROVE  LazyInv'
<1> USE DEF Claim
<1>1. LazyTyped'
  BY DEF LazyInv, LazyTyped
<1>2. /\ \A k \in LazyRows : k # l => job'[k] = job[k]
      /\ job'[l].status = "running" /\ job'[l].attempts = job[l].attempts + 1
      /\ job[l].status = "queued" /\ job[l].attempts \in Nat
  BY DEF LazyInv, LazyTyped
<1>3. NoJob \notin LazyRows /\ MaxAttempts \in Nat
  BY LazyAssumption
<1>4. \A x \in LazyWorkers : holds[x] # l
  BY <1>2, <1>3 DEF LazyInv, LazyTyped
<1>5. holds'[w] = l /\ \A x \in LazyWorkers : x # w => holds'[x] = holds[x]
  BY DEF LazyInv, LazyTyped
<1>6. job[l].attempts < MaxAttempts
  BY <1>2 DEF LazyInv
<1>7. \A k \in LazyRows : OwnedOnce(k)'
  <2> SUFFICES ASSUME NEW k \in LazyRows
               PROVE  /\ job'[k].status = "running" =>
                            k \in orphaned' \/ Shape[k] = "unparsed" \/ \E x \in LazyWorkers : holds'[x] = k
                      /\ \A x, y \in LazyWorkers : holds'[x] = k /\ holds'[y] = k => x = y
                      /\ job'[k].attempts <= MaxAttempts
    BY DEF OwnedOnce
  <2>1. CASE k = l
    <3>2. job'[k].attempts <= MaxAttempts
      BY <1>2, <1>3, <1>6, <2>1
    <3> QED BY <1>2, <1>4, <1>5, <2>1, <3>2
  <2>2. CASE k # l
    <3>1. \A x \in LazyWorkers : holds'[x] = k <=> holds[x] = k
      BY <1>3, <1>5, <2>2
    <3> QED BY <1>2, <2>2, <3>1 DEF LazyInv, OwnedOnce
  <2> QED BY <2>1, <2>2
<1>8. \A k \in LazyRows : job'[k].status \in {"none", "queued"} => job'[k].attempts < MaxAttempts
  BY <1>2 DEF LazyInv
<1>9. \A x \in LazyWorkers : holds'[x] # NoJob => job'[holds'[x]].status = "running"
  BY <1>2, <1>4, <1>5 DEF LazyInv, LazyTyped
<1>10. IndexHasJob'
  <2>1. \A k \in LazyRows : job'[k].status = "done" <=> job[k].status = "done"
    BY <1>2
  <2> QED BY <2>1, LazySameDone DEF LazyInv
<1> QED BY <1>1, <1>7, <1>8, <1>9, <1>10 DEF LazyInv

\* A worker that goes away leaves a row that nobody holds, and it is marked.
LEMMA LazyLost ==
  ASSUME LazyInv, NEW w \in LazyWorkers, LoseJob(w)
  PROVE  LazyInv'
<1> USE DEF LoseJob
<1>1. LazyTyped'
  BY DEF LazyInv, LazyTyped
<1>2. holds'[w] = NoJob /\ \A x \in LazyWorkers : x # w => holds'[x] = holds[x]
  BY DEF LazyInv, LazyTyped
<1>3. NoJob \notin LazyRows
  BY LazyAssumption
<1>4. \A k \in LazyRows : OwnedOnce(k)'
  BY <1>2, <1>3 DEF LazyInv, OwnedOnce
<1>5. IndexHasJob'
  BY LazySameDone DEF LazyInv
<1> QED BY <1>1, <1>2, <1>4, <1>5 DEF LazyInv, LazyTyped

\* Every step keeps the invariant.
LEMMA LazyInvNext == LazyInv /\ [LazyNext]_lazyVars => LazyInv'
<1> SUFFICES ASSUME LazyInv, [LazyNext]_lazyVars PROVE LazyInv'
  OBVIOUS
<1>1. ASSUME NEW w \in LazyWorkers, NEW l \in LazyRows, GiveUp(w, l)
      PROVE  LazyInv'
  <2>1. /\ Outcome(l) \in {"queued", "running", "done", "failed"}
        /\ Outcome(l) # "done"
        /\ Outcome(l) = "running" => Shape[l] = "unparsed"
        /\ Outcome(l) = "queued" => ~(job[l].attempts >= MaxAttempts)
    BY DEF Outcome
  <2>2. job[l].attempts \in Nat /\ MaxAttempts \in Nat
    BY LazyAssumption DEF LazyInv, LazyTyped
  <2>3. Outcome(l) = "queued" => job[l].attempts < MaxAttempts
    BY <2>1, <2>2
  <2>4. PICK st \in {"queued", "running", "done", "failed"} : st = Outcome(l)
    BY <2>1
  <2> QED BY <1>1, <2>1, <2>3, <2>4, LazyRelease DEF GiveUp
<1>2. ASSUME NEW w \in LazyWorkers, NEW l \in LazyRows, NEW g \in BOOLEAN, PersistSuccess(w, l, g)
      PROVE  LazyInv'
  BY <1>2, LazyRelease DEF PersistSuccess
<1>3. CASE \E l \in LazyRows : EnqueueLazy(l)
  BY <1>3, LazyEnqueued
<1>4. ASSUME NEW w \in LazyWorkers, LazyStep(w) PROVE LazyInv'
  BY <1>1, <1>2, <1>4, LazyClaimed DEF LazyStep, CannotIndex
<1>5. ASSUME NEW w \in LazyWorkers, LazyFault(w) PROVE LazyInv'
  BY <1>1, <1>2, <1>5, LazyLost DEF LazyFault
<1>6. CASE UNCHANGED lazyVars
  BY <1>6 DEF lazyVars, LazyInv, LazyTyped, OwnedOnce, IndexHasJob
<1> QED BY <1>3, <1>4, <1>5, <1>6 DEF LazyNext

\* The rows of the lazy-pull queue: every running job has one owner or is one of the
\* two kinds that stay for good, and is claimed at most max_attempts times; a layer is
\* indexed exactly when one of the jobs that its pushes inserted is done.
THEOREM LazyJobsOwned == LazySpec => []LazyJobsAreOwned
<1>1. LazyInit => LazyInv
  BY LazyAssumption DEF LazyInit, LazyInv, LazyTyped, OwnedOnce, IndexHasJob
<1>2. LazyInv => LazyJobsAreOwned
  BY DEF LazyInv, LazyJobsAreOwned, IndexHasJob
<1> QED BY <1>1, <1>2, LazyInvNext, PTL DEF LazySpec

----------------------------------------------------------------------------
(* The scanner's jobs, for every number of workers, jobs and failures.        *)

Reports == [status : {"in_progress", "completed", "failed"}, found : Nat]
ScanRow == [status : {"none", "in_progress", "completed", "failed"}, count : Nat \cup {NoResult}]

Early == {"look", "start", "mark", "pipeline"}
Late == {"dedup", "dedup_row", "counts", "done", "notify", "put", "fail"}
WorkerState == {Idle} \cup [pc : Early, job : Jobs] \cup [pc : Late, job : Jobs, out : Reports]

ScanTyped ==
    /\ worker \in [Workers -> WorkerState]
    /\ redis \in Reports \cup {NoResult}
    /\ scans \in [Jobs -> ScanRow]
    /\ lost \subseteq Jobs

\* Jobs are numbered in the order they come, and wait in that order.
QueueOrdered ==
    /\ repoOf \in Seq(Repos) /\ Len(repoOf) <= MaxJobs
    /\ queue \in Seq(Jobs)
    /\ \A i \in 1..Len(queue) : queue[i] <= Len(repoOf)
    /\ \A i, k \in 1..Len(queue) : i < k => queue[i] < queue[k]

\* What a worker that has a job waits for nobody else to have.
JobsApart ==
    /\ \A w \in Workers, j \in Jobs : Has(w, j) =>
          j <= Len(repoOf) /\ \A i \in 1..Len(queue) : queue[i] # j
    /\ \A w, x \in Workers, j \in Jobs : Has(w, j) /\ Has(x, j) => w = x

\* How far the row of its job is when a worker stands in state s.
RowBehind(s, rec, gone) ==
    /\ s.pc = "done" => rec.count # NoResult
    /\ s.pc = "notify" => rec.status = "completed"
    /\ s.pc = "put" /\ s.out.status # "completed" => rec.status = "failed" \/ s.job \in gone

RowsBehind == \A w \in Workers, j \in Jobs : Has(w, j) => RowBehind(worker[w], scans[j], lost)

ScanInv ==
    /\ ScanTyped /\ QueueOrdered /\ JobsApart /\ RowsBehind
    /\ RowsAreAccounted

\* A worker that is not idle has a job.
LEMMA StateOfWorker ==
  ASSUME NEW s \in WorkerState
  PROVE  /\ s.pc = "idle" <=> s = Idle
         /\ s.pc # "idle" => s.job \in Jobs /\ s.pc \in Early \cup Late
         /\ s.pc \in Late => s.out \in Reports
         /\ s.pc \in Early => s = [pc |-> s.pc, job |-> s.job]
         /\ s.pc \in Late => s = [pc |-> s.pc, job |-> s.job, out |-> s.out]
<1>1. CASE s = Idle
  BY <1>1 DEF Idle, Early, Late
<1>2. CASE s \in [pc : Early, job : Jobs]
  BY <1>2 DEF Idle, Early, Late
<1>3. CASE s \in [pc : Late, job : Jobs, out : Reports]
  BY <1>3 DEF Idle, Early, Late
<1> QED BY <1>1, <1>2, <1>3 DEF WorkerState

\* A worker with a job goes on with it or ends it, writes at most the row of that
\* job, and loses the waiting jobs or none.
LEMMA JobStep ==
  ASSUME ScanInv, NEW w \in Workers, NEW j \in Jobs, Has(w, j),
         NEW s \in WorkerState, s = Idle \/ s.job = j, worker' = [worker EXCEPT ![w] = s],
         NEW rec \in ScanRow, scans' = [scans EXCEPT ![j] = rec],
         lost \subseteq lost', lost' \subseteq Jobs,
         queue' = queue \/ queue' = <<>>, repoOf' = repoOf,
         redis' \in Reports \cup {NoResult},
         s = Idle => rec.status # "in_progress" \/ j \in lost',
         s # Idle => RowBehind(s, rec, lost'),
         rec.status = "completed" => rec.count # NoResult
  PROVE  ScanInv'
<1>1. /\ worker \in [Workers -> WorkerState] /\ scans \in [Jobs -> ScanRow]
      /\ lost \subseteq Jobs /\ redis \in Reports \cup {NoResult}
  BY DEF ScanInv, ScanTyped
<1>2. ScanTyped'
  BY <1>1 DEF ScanTyped
<1>3. QueueOrdered'
  <2>1. CASE queue' = queue
    BY <2>1 DEF ScanInv, QueueOrdered
  <2>2. CASE queue' = <<>>
    <3>1. queue' \in Seq(Jobs) /\ Len(queue') = 0
      BY <2>2
    <3> QED BY <3>1 DEF ScanInv, QueueOrdered
  <2> QED BY <2>1, <2>2
<1>4. worker'[w] = s /\ \A x \in Workers : x # w => worker'[x] = worker[x]
  BY <1>1
<1>5. scans'[j] = rec /\ \A k \in Jobs : k # j => scans'[k] = scans[k]
  BY <1>1
<1>6. ASSUME NEW x \in Workers, NEW k \in Jobs, Has(x, k)'
      PROVE  Has(x, k) /\ (x = w => k = j)
  BY <1>4, <1>6 DEF Has
<1>7. ASSUME NEW x \in Workers, NEW k \in Jobs, Has(x, k), x # w
      PROVE  Has(x, k)' /\ k # j
  BY <1>4, <1>7 DEF Has, ScanInv, JobsApart
<1>8. JobsApart'
  <2>1. ASSUME NEW x \in Workers, NEW k \in Jobs, Has(x, k)'
        PROVE  k <= Len(repoOf') /\ \A i \in 1..Len(queue') : queue'[i] # k
    <3>1. k <= Len(repoOf) /\ \A i \in 1..Len(queue) : queue[i] # k
      BY <1>6, <2>1 DEF ScanInv, JobsApart
    <3>2. CASE queue' = <<>>
      BY <3>1, <3>2
    <3> QED BY <3>1, <3>2
  <2>2. ASSUME NEW x \in Workers, NEW y \in Workers, NEW k \in Jobs, Has(x, k)', Has(y, k)'
        PROVE  x = y
    BY <1>6, <2>2 DEF ScanInv, JobsApart
  <2> QED BY <2>1, <2>2 DEF JobsApart
<1>9. RowsBehind'
  <2> SUFFICES ASSUME NEW x \in Workers, NEW k \in Jobs, Has(x, k)'
               PROVE  RowBehind(worker'[x], scans'[k], lost')
    BY DEF RowsBehind
  <2>1. CASE x = w
    BY <1>4, <1>5, <1>6, <2>1 DEF Has
  <2>2. CASE x # w
    <3>1. Has(x, k) /\ k # j /\ worker'[x] = worker[x] /\ scans'[k] = scans[k]
      BY <1>4, <1>5, <1>6, <1>7, <2>2
    <3>2. RowBehind(worker[x], scans[k], lost)
      BY <3>1 DEF ScanInv, RowsBehind
    <3> QED BY <3>1, <3>2 DEF RowBehind
  <2> QED BY <2>1, <2>2
<1>10. RowsAreAccounted'
  <2> SUFFICES ASSUME NEW k \in Jobs
               PROVE  /\ \A x, y \in Workers : Has(x, k)' /\ Has(y, k)' => x = y
                      /\ scans'[k].status = "in_progress" => k \in lost' \/ \E x \in Workers : Has(x, k)'
                      /\ scans'[k].status = "completed" => scans'[k].count # NoResult
    BY DEF RowsAreAccounted
  <2>1. \A x, y \in Workers : Has(x, k)' /\ Has(y, k)' => x = y
    BY <1>8 DEF JobsApart
  <2>2. CASE k = j
    <3>1. s # Idle => Has(w, j)'
      BY <1>4 DEF Has
    <3> QED BY <1>5, <2>1, <2>2, <3>1
  <2>3. CASE k # j
    <3>1. /\ scans[k].status = "in_progress" => k \in lost \/ \E x \in Workers : Has(x, k)
          /\ scans[k].status = "completed" => scans[k].count # NoResult
      BY DEF ScanInv, RowsAreAccounted
    <3>2. ~Has(w, k)
      BY <2>3 DEF Has
    <3> QED BY <1>5, <1>7, <2>1, <2>3, <3>1, <3>2
  <2> QED BY <2>2, <2>3
<1> QED BY <1>2, <1>3, <1>8, <1>9, <1>10 DEF ScanInv

\* The same for a step that leaves the rows alone.
LEMMA JobMoves ==
  ASSUME ScanInv, NEW w \in Workers, NEW j \in Jobs, Has(w, j),
         NEW s \in WorkerState, s # Idle, s.job = j, worker' = [worker EXCEPT ![w] = s],
         s.pc \notin {"done", "notify"},
         s.pc = "put" => s.out.status = "completed",
         scans' = scans, lost' = lost, queue' = queue, repoOf' = repoOf,
         redis' \in Reports \cup {NoResult}
  PROVE  ScanInv'
<1>1. scans \in [Jobs -> ScanRow] /\ lost \subseteq Jobs
  BY DEF ScanInv, ScanTyped
<1>2. PICK rec \in ScanRow : rec = scans[j]
  BY <1>1
<1>3. scans' = [scans EXCEPT ![j] = rec]
  BY <1>1, <1>2
<1>4. RowBehind(s, rec, lost')
  BY DEF RowBehind
<1>5. rec.status = "completed" => rec.count # NoResult
  BY <1>2 DEF ScanInv, RowsAreAccounted
<1> QED BY <1>1, <1>3, <1>4, <1>5, JobStep

\* What a worker that has a job looks like.
LEMMA WorkerHas ==
  ASSUME ScanInv, NEW w \in Workers, worker[w].pc # "idle"
  PROVE  /\ worker[w].job \in Jobs /\ Has(w, worker[w].job)
         /\ worker \in [Workers -> WorkerState] /\ worker[w] \in WorkerState
         /\ scans \in [Jobs -> ScanRow] /\ scans[worker[w].job] \in ScanRow
         /\ worker[w].pc \in Late => worker[w].out \in Reports
         /\ lost \subseteq Jobs /\ redis \in Reports \cup {NoResult}
<1>1. worker \in [Workers -> WorkerState] /\ worker[w] \in WorkerState
  BY DEF ScanInv, ScanTyped
<1>2. worker[w].job \in Jobs /\ worker[w] # Idle
  BY <1>1, StateOfWorker
<1> QED BY <1>1, <1>2, StateOfWorker DEF Has, ScanInv, ScanTyped

\* The two forms of a state with a job.
Working(pc, j) == [pc |-> pc, job |-> j]
Reporting(pc, j, o) == [pc |-> pc, job |-> j, out |-> o]

LEMMA WorkingState ==
  ASSUME NEW j \in Jobs, NEW pc \in Early
  PROVE  /\ Working(pc, j) \in WorkerState /\ Working(pc, j) # Idle
         /\ Working(pc, j).job = j /\ Working(pc, j).pc = pc
BY DEF WorkerState, Early, Idle, Working

LEMMA ReportingState ==
  ASSUME NEW j \in Jobs, NEW pc \in Late, NEW o \in Reports
  PROVE  /\ Reporting(pc, j, o) \in WorkerState /\ Reporting(pc, j, o) # Idle
         /\ Reporting(pc, j, o).job = j /\ Reporting(pc, j, o).pc = pc
         /\ Reporting(pc, j, o).out = o
BY DEF WorkerState, Late, Idle, Reporting

\* Going to another place of the code keeps the job and the report in hand.
LEMMA GotoState ==
  ASSUME NEW s \in WorkerState, NEW pc
  PROVE  /\ s.pc \in Early /\ pc \in Early => [s EXCEPT !.pc = pc] = Working(pc, s.job)
         /\ s.pc \in Late => [s EXCEPT !.pc = pc] = Reporting(pc, s.job, s.out)
<1> USE DEF Working, Reporting
<1>1. CASE s = Idle
  BY <1>1 DEF Idle, Early, Late
<1>2. CASE s \in [pc : Early, job : Jobs]
  BY <1>2 DEF Early, Late
<1>3. CASE s \in [pc : Late, job : Jobs, out : Reports]
  BY <1>3 DEF Early, Late
<1> QED BY <1>1, <1>2, <1>3 DEF WorkerState

\* The same for a worker and its job.
LEMMA GotoWorker ==
  ASSUME ScanInv, NEW w \in Workers, worker[w].pc # "idle", NEW pc, Goto(w, pc),
         \/ worker[w].pc \in Early /\ pc \in Early
         \/ worker[w].pc \in Late /\ pc \in Late
  PROVE  \E s \in WorkerState :
            /\ worker' = [worker EXCEPT ![w] = s]
            /\ s # Idle /\ s.job = worker[w].job /\ s.pc = pc
            /\ pc \in Late => s.out = worker[w].out
<1>1. worker' = [worker EXCEPT ![w] = [worker[w] EXCEPT !.pc = pc]]
  BY DEF Goto
<1>2. PICK j \in Jobs : j = worker[w].job
  BY WorkerHas
<1>3. worker[w] \in WorkerState
  BY WorkerHas
<1>4. CASE worker[w].pc \in Early /\ pc \in Early
  <2>1. worker' = [worker EXCEPT ![w] = Working(pc, j)]
    BY <1>1, <1>2, <1>3, <1>4, GotoState
  <2>2. pc \notin Late
    BY <1>4 DEF Early, Late
  <2> QED BY <1>2, <1>4, <2>1, <2>2, WorkingState
<1>5. CASE worker[w].pc \in Late /\ pc \in Late
  <2>1. PICK o \in Reports : o = worker[w].out
    BY <1>5, WorkerHas
  <2>2. worker' = [worker EXCEPT ![w] = Reporting(pc, j, o)]
    BY <1>1, <1>2, <1>3, <1>5, <2>1, GotoState
  <2>3. /\ Reporting(pc, j, o) \in WorkerState /\ Reporting(pc, j, o) # Idle
        /\ Reporting(pc, j, o).job = j /\ Reporting(pc, j, o).pc = pc /\ Reporting(pc, j, o).out = o
    BY <1>5, ReportingState
  <2> QED BY <1>2, <2>1, <2>2, <2>3
<1> QED BY <1>4, <1>5

\* try_dedup_hit.
LEMMA LookStep ==
  ASSUME ScanInv, NEW w \in Workers, NEW ok \in BOOLEAN, LookForDigest(w, ok)
  PROVE  ScanInv'
<1>1. worker[w].pc = "look" /\ worker[w].pc \in Early /\ "start" \in Early /\ "dedup" \in Late
  BY DEF LookForDigest, Early, Late
<1>2. PICK j \in Jobs : j = worker[w].job /\ Has(w, j)
  BY <1>1, WorkerHas
<1>3. /\ scans' = scans /\ lost' = lost /\ queue' = queue /\ repoOf' = repoOf
      /\ redis' \in Reports \cup {NoResult}
  BY <1>1, WorkerHas DEF LookForDigest
<1>4. CASE ok /\ redis # NoResult /\ redis.status = "completed"
  <2>1. PICK r \in Reports : r = redis
    BY <1>1, <1>4, WorkerHas
  <2>2. worker' = [worker EXCEPT ![w] = Reporting("dedup", j, r)]
    BY <1>2, <1>4, <2>1 DEF LookForDigest, Reporting
  <2>3. /\ Reporting("dedup", j, r) \in WorkerState /\ Reporting("dedup", j, r) # Idle
        /\ Reporting("dedup", j, r).job = j /\ Reporting("dedup", j, r).pc = "dedup" /\ Reporting("dedup", j, r).out = r
    BY <1>1, ReportingState
  <2>4. PICK s \in WorkerState : /\ worker' = [worker EXCEPT ![w] = s]
                                 /\ s # Idle /\ s.job = j /\ s.pc = "dedup"
    BY <2>2, <2>3
  <2> QED BY <1>2, <1>3, <2>4, JobMoves
<1>5. CASE ~(ok /\ redis # NoResult /\ redis.status = "completed")
  <2>1. Goto(w, "start")
    BY <1>5 DEF LookForDigest
  <2>2. PICK s \in WorkerState : /\ worker' = [worker EXCEPT ![w] = s]
                                 /\ s # Idle /\ s.job = j /\ s.pc = "start"
    BY <1>1, <1>2, <2>1, GotoWorker
  <2> QED BY <1>2, <1>3, <2>2, JobMoves
<1> QED BY <1>4, <1>5

\* A write to Redis, after which the worker goes on.
LEMMA PutReportStep ==
  ASSUME ScanInv, NEW w \in Workers, NEW ok \in BOOLEAN, NEW r \in Reports, NEW pc,
         PutReport(w, ok, r, pc),
         \/ worker[w].pc \in Early /\ pc = "pipeline"
         \/ worker[w].pc \in Late /\ pc \in {"dedup_row", "counts"}
  PROVE  ScanInv'
<1>1. /\ worker[w].pc # "idle" /\ Goto(w, pc)
      /\ \/ worker[w].pc \in Early /\ pc \in Early
         \/ worker[w].pc \in Late /\ pc \in Late
      /\ pc \notin {"done", "notify", "put"}
  BY DEF Early, Late, PutReport
<1>2. PICK j \in Jobs : j = worker[w].job /\ Has(w, j)
  BY <1>1, WorkerHas
<1>3. /\ scans' = scans /\ lost' = lost /\ queue' = queue /\ repoOf' = repoOf
      /\ redis' \in Reports \cup {NoResult}
  BY <1>1, WorkerHas DEF PutReport
<1>4. PICK s \in WorkerState : /\ worker' = [worker EXCEPT ![w] = s]
                               /\ s # Idle /\ s.job = j /\ s.pc = pc
  BY <1>1, <1>2, GotoWorker
<1> QED BY <1>1, <1>2, <1>3, <1>4, JobMoves

\* The pipeline ends in a report.
LEMMA PipelineStep ==
  ASSUME ScanInv, NEW w \in Workers, RunPipeline(w)
  PROVE  ScanInv'
<1>1. worker[w].pc # "idle" /\ "put" \in Late /\ "fail" \in Late
  BY DEF RunPipeline, Late
<1>2. PICK j \in Jobs : j = worker[w].job /\ Has(w, j)
  BY <1>1, WorkerHas
<1>3. /\ scans' = scans /\ lost' = lost /\ queue' = queue /\ repoOf' = repoOf
      /\ redis' \in Reports \cup {NoResult}
  BY <1>1, WorkerHas DEF RunPipeline
<1>4. PICK read, db, ok \in BOOLEAN :
        worker' = [worker EXCEPT ![w] =
          IF ok THEN Reporting("put", j, Report("completed",
                         Unsuppressed(j, IF db /\ LayerSbom(read) = "full" THEN 1 ELSE 0)))
                ELSE Reporting("fail", j, Report("failed", 0))]
  BY <1>2 DEF RunPipeline, Reporting
<1>5. PICK found \in Nat : found = Unsuppressed(j, IF db /\ LayerSbom(read) = "full" THEN 1 ELSE 0)
  BY DEF Unsuppressed
<1>6. /\ Report("completed", found) \in Reports /\ Report("failed", 0) \in Reports
      /\ Report("completed", found).status = "completed"
  BY DEF Report, Reports
<1> DEFINE good == Report("completed", found)
           bad == Report("failed", 0)
<1> HIDE DEF good, bad
<1>7. CASE ok
  <2>1. good \in Reports /\ good.status = "completed"
    BY <1>6 DEF good
  <2>2. /\ Reporting("put", j, good) \in WorkerState /\ Reporting("put", j, good) # Idle
        /\ Reporting("put", j, good).job = j /\ Reporting("put", j, good).pc = "put" /\ Reporting("put", j, good).out = good
    BY <1>1, <2>1, ReportingState
  <2>3. worker' = [worker EXCEPT ![w] = Reporting("put", j, good)]
    BY <1>4, <1>5, <1>7 DEF good
  <2>4. PICK s \in WorkerState : /\ worker' = [worker EXCEPT ![w] = s]
                                 /\ s # Idle /\ s.job = j /\ s.pc = "put" /\ s.out = good
    BY <2>2, <2>3
  <2> QED BY <1>2, <1>3, <2>1, <2>4, JobMoves
<1>8. CASE ~ok
  <2>1. bad \in Reports
    BY <1>6 DEF bad
  <2>2. /\ Reporting("fail", j, bad) \in WorkerState /\ Reporting("fail", j, bad) # Idle
        /\ Reporting("fail", j, bad).job = j /\ Reporting("fail", j, bad).pc = "fail" /\ Reporting("fail", j, bad).out = bad
    BY <1>1, <2>1, ReportingState
  <2>3. worker' = [worker EXCEPT ![w] = Reporting("fail", j, bad)]
    BY <1>4, <1>8 DEF bad
  <2>4. PICK s \in WorkerState : /\ worker' = [worker EXCEPT ![w] = s]
                                 /\ s # Idle /\ s.job = j /\ s.pc = "fail"
    BY <2>2, <2>3
  <2> QED BY <1>2, <1>3, <2>4, JobMoves
<1> QED BY <1>7, <1>8

\* A row of the database changes in one column.
LEMMA StatusWritten ==
  ASSUME scans \in [Jobs -> ScanRow], NEW w \in Workers, NEW j \in Jobs, worker[w].job = j,
         NEW st \in {"none", "in_progress", "completed", "failed"}, RecordStatus(w, st)
  PROVE  \E rec \in ScanRow : /\ scans' = [scans EXCEPT ![j] = rec]
                              /\ rec.status = st /\ rec.count = scans[j].count
<1>1. scans' = [scans EXCEPT ![j] = [scans[j] EXCEPT !.status = st]]
  BY DEF RecordStatus
<1>2. /\ [scans[j] EXCEPT !.status = st] \in ScanRow
      /\ [scans[j] EXCEPT !.status = st].status = st
      /\ [scans[j] EXCEPT !.status = st].count = scans[j].count
  BY DEF ScanRow
<1> QED BY <1>1, <1>2

LEMMA CountsWritten ==
  ASSUME scans \in [Jobs -> ScanRow], NEW w \in Workers, NEW j \in Jobs, worker[w].job = j,
         NEW n \in Nat, UpdateCounts(w, n)
  PROVE  \E rec \in ScanRow : /\ scans' = [scans EXCEPT ![j] = rec]
                              /\ rec.status = scans[j].status /\ rec.count = n
<1>1. scans' = [scans EXCEPT ![j] = [scans[j] EXCEPT !.count = n]]
  BY DEF UpdateCounts
<1>2. /\ [scans[j] EXCEPT !.count = n] \in ScanRow
      /\ [scans[j] EXCEPT !.count = n].status = scans[j].status
      /\ [scans[j] EXCEPT !.count = n].count = n
  BY DEF ScanRow
<1> QED BY <1>1, <1>2

\* A worker ends its job: the row is concluded or the job is lost.
LEMMA ReleaseStep ==
  ASSUME ScanInv, NEW w \in Workers, NEW j \in Jobs, Has(w, j),
         Release(w), scans' = scans, repoOf' = repoOf, queue' = queue \/ queue' = <<>>,
         redis' \in Reports \cup {NoResult}, lost \subseteq lost', lost' \subseteq Jobs,
         scans[j].status # "in_progress" \/ j \in lost'
  PROVE  ScanInv'
<1>1. scans \in [Jobs -> ScanRow]
  BY DEF ScanInv, ScanTyped
<1>2. PICK rec \in ScanRow : rec = scans[j]
  BY <1>1
<1>3. scans' = [scans EXCEPT ![j] = rec]
  BY <1>1, <1>2
<1>4. rec.status = "completed" => rec.count # NoResult
  BY <1>2 DEF ScanInv, RowsAreAccounted
<1>5. Idle \in WorkerState /\ worker' = [worker EXCEPT ![w] = Idle]
  BY DEF WorkerState, Release
<1> QED BY <1>2, <1>3, <1>4, <1>5, JobStep

\* A write of the row that goes through.
LEMMA RowWritten ==
  ASSUME ScanInv, NEW w \in Workers, NEW j \in Jobs, Has(w, j), j = worker[w].job,
         worker[w].pc # "idle", NEW pc, Goto(w, pc),
         \/ worker[w].pc \in Early /\ pc \in Early
         \/ worker[w].pc \in Late /\ pc \in Late,
         NEW rec \in ScanRow, scans' = [scans EXCEPT ![j] = rec],
         lost' = lost, queue' = queue, repoOf' = repoOf, redis' = redis, pc # "put",
         pc = "done" => rec.count # NoResult,
         pc = "notify" => rec.status = "completed",
         rec.status = "completed" => rec.count # NoResult
  PROVE  ScanInv'
<1>1. PICK s \in WorkerState : /\ worker' = [worker EXCEPT ![w] = s]
                               /\ s # Idle /\ s.job = j /\ s.pc = pc
  BY GotoWorker
<1>2. RowBehind(s, rec, lost')
  BY <1>1 DEF RowBehind
<1>3. lost \subseteq Jobs /\ redis \in Reports \cup {NoResult}
  BY WorkerHas
<1> QED BY <1>1, <1>2, <1>3, JobStep

\* A write of the row that fails.
LEMMA RowMissed ==
  ASSUME ScanInv, NEW w \in Workers, worker[w].pc # "idle", NEW pc, NEW write \in BOOLEAN,
         RowStep(w, FALSE, pc, write)
  PROVE  ScanInv'
<1>1. PICK j \in Jobs : j = worker[w].job /\ Has(w, j)
  BY WorkerHas
<1>2. /\ Release(w) /\ lost' = lost \cup {j} /\ scans' = scans
      /\ repoOf' = repoOf /\ queue' = queue /\ redis' = redis
  BY <1>1 DEF RowStep
<1>3. lost \subseteq Jobs /\ redis \in Reports \cup {NoResult}
  BY WorkerHas
<1> QED BY <1>1, <1>2, <1>3, ReleaseStep

\* The steps that write the row of a job, from an earlier report or the pipeline.
LEMMA RowSteps ==
  ASSUME ScanInv, NEW w \in Workers, NEW ok \in BOOLEAN,
         \/ worker[w].pc = "dedup_row" /\ RowStep(w, ok, "counts", RecordStatus(w, "in_progress"))
         \/ RecordInProgress(w, ok)
         \/ FinishRow(w, ok)
  PROVE  ScanInv'
<1>1. CASE ~ok
  BY <1>1, RowMissed DEF RecordInProgress, FinishRow, RecordStatus, UpdateCounts
<1>2. CASE ok
  <2>1. /\ worker[w].pc # "idle"
        /\ lost' = lost /\ queue' = queue /\ repoOf' = repoOf /\ redis' = redis
    BY <1>2 DEF RecordInProgress, FinishRow, RowStep
  <2>2. PICK j \in Jobs : j = worker[w].job /\ Has(w, j)
    BY <2>1, WorkerHas
  <2>3. scans \in [Jobs -> ScanRow] /\ NoResult \notin Nat
    BY <2>1, WorkerHas, ScanAssumption
  <2>4. CASE worker[w].pc = "dedup_row" /\ RowStep(w, ok, "counts", RecordStatus(w, "in_progress"))
    <3>1. PICK rec \in ScanRow : /\ scans' = [scans EXCEPT ![j] = rec]
                                 /\ rec.status = "in_progress"
      BY <1>2, <2>2, <2>3, <2>4, StatusWritten DEF RowStep
    <3>2. PICK pc \in Late : /\ Goto(w, pc) /\ pc \notin {"done", "notify", "put"}
                             /\ worker[w].pc \in Late
      BY <1>2, <2>4 DEF RowStep, Late
    <3>3. rec.status # "completed"
      BY <3>1
    <3> QED BY <2>1, <2>2, <3>1, <3>2, <3>3, RowWritten
  <2>5. CASE RecordInProgress(w, ok)
    <3>1. PICK rec \in ScanRow : /\ scans' = [scans EXCEPT ![j] = rec]
                                 /\ rec.status = "in_progress"
      BY <1>2, <2>2, <2>3, <2>5, StatusWritten DEF RecordInProgress, RowStep
    <3>2. PICK pc \in Early : /\ Goto(w, pc) /\ pc \notin {"done", "notify", "put"}
                              /\ worker[w].pc \in Early
      BY <1>2, <2>5 DEF RecordInProgress, RowStep, Early
    <3>3. rec.status # "completed"
      BY <3>1
    <3> QED BY <2>1, <2>2, <3>1, <3>2, <3>3, RowWritten
  <2>6. CASE worker[w].pc = "counts" /\ RowStep(w, ok, "done", UpdateCounts(w, worker[w].out.found))
    <3>1. PICK n \in Nat : n = worker[w].out.found
      BY <2>1, <2>6, WorkerHas DEF Late, Reports
    <3>2. PICK rec \in ScanRow : scans' = [scans EXCEPT ![j] = rec] /\ rec.count = n
      BY <1>2, <2>2, <2>3, <2>6, <3>1, CountsWritten DEF RowStep
    <3>3. Goto(w, "done") /\ worker[w].pc \in Late /\ "done" \in Late /\ n # NoResult
      BY <1>2, <2>3, <2>6 DEF RowStep, Late
    <3> QED BY <2>1, <2>2, <3>2, <3>3, RowWritten
  <2>7. CASE worker[w].pc = "done" /\ RowStep(w, ok, "notify", RecordStatus(w, "completed"))
    <3>1. scans[j].count # NoResult
      BY <2>2, <2>7 DEF ScanInv, RowsBehind, RowBehind
    <3>2. PICK rec \in ScanRow : /\ scans' = [scans EXCEPT ![j] = rec]
                                 /\ rec.status = "completed" /\ rec.count = scans[j].count
      BY <1>2, <2>2, <2>3, <2>7, StatusWritten DEF RowStep
    <3>3. Goto(w, "notify") /\ worker[w].pc \in Late /\ "notify" \in Late
      BY <1>2, <2>7 DEF RowStep, Late
    <3> QED BY <2>1, <2>2, <3>1, <3>2, <3>3, RowWritten
  <2> QED BY <2>4, <2>5, <2>6, <2>7 DEF FinishRow
<1> QED BY <1>1, <1>2

\* A failed scan records itself, or its job is lost.
LEMMA RecordFailedStep ==
  ASSUME ScanInv, NEW w \in Workers, NEW ok \in BOOLEAN, RecordFailed(w, ok)
  PROVE  ScanInv'
<1>1. /\ worker[w].pc = "fail" /\ worker[w].pc \in Late /\ "put" \in Late /\ Goto(w, "put")
      /\ queue' = queue /\ repoOf' = repoOf /\ redis' = redis
  BY DEF RecordFailed, Late
<1>2. PICK j \in Jobs : j = worker[w].job /\ Has(w, j)
  BY <1>1, WorkerHas
<1>3. scans \in [Jobs -> ScanRow] /\ lost \subseteq Jobs /\ redis \in Reports \cup {NoResult}
  BY <1>1, WorkerHas
<1>4. PICK s \in WorkerState : /\ worker' = [worker EXCEPT ![w] = s]
                               /\ s # Idle /\ s.job = j /\ s.pc = "put"
  BY <1>1, <1>2, GotoWorker
<1>5. CASE ok
  <2>1. PICK rec \in ScanRow : scans' = [scans EXCEPT ![j] = rec] /\ rec.status = "failed"
    BY <1>2, <1>3, <1>5, StatusWritten DEF RecordFailed
  <2>2. RowBehind(s, rec, lost') /\ lost' = lost
    BY <1>4, <1>5, <2>1 DEF RecordFailed, RowBehind
  <2> QED BY <1>1, <1>2, <1>3, <1>4, <2>1, <2>2, JobStep
<1>6. CASE ~ok
  <2>1. PICK rec \in ScanRow : rec = scans[j]
    BY <1>3
  <2>2. scans' = [scans EXCEPT ![j] = rec] /\ lost' = lost \cup {j}
    BY <1>2, <1>3, <1>6, <2>1 DEF RecordFailed
  <2>3. RowBehind(s, rec, lost')
    BY <1>4, <2>2 DEF RowBehind
  <2>4. rec.status = "completed" => rec.count # NoResult
    BY <2>1 DEF ScanInv, RowsAreAccounted
  <2> QED BY <1>1, <1>2, <1>3, <1>4, <2>2, <2>3, <2>4, JobStep
<1> QED BY <1>5, <1>6

\* The last report of a scan; a failed one ends the job.
LEMMA PutFinalStep ==
  ASSUME ScanInv, NEW w \in Workers, NEW ok \in BOOLEAN, PutFinal(w, ok)
  PROVE  ScanInv'
<1>1. worker[w].pc = "put" /\ worker[w].pc \in Late
  BY DEF PutFinal, Late
<1>2. PICK j \in Jobs : j = worker[w].job /\ Has(w, j)
  BY <1>1, WorkerHas
<1>3. PICK o \in Reports : o = worker[w].out
  BY <1>1, WorkerHas
<1>4. CASE o.status = "completed"
  BY <1>1, <1>3, <1>4, PutReportStep DEF PutFinal
<1>5. CASE o.status # "completed"
  <2>1. /\ Release(w) /\ scans' = scans /\ lost' = lost /\ queue' = queue /\ repoOf' = repoOf
        /\ redis' \in Reports \cup {NoResult} /\ lost \subseteq Jobs
    BY <1>1, <1>3, <1>5, WorkerHas DEF PutFinal
  <2>2. scans[j].status = "failed" \/ j \in lost
    BY <1>1, <1>2, <1>3, <1>5 DEF ScanInv, RowsBehind, RowBehind
  <2> QED BY <1>2, <2>1, <2>2, ReleaseStep
<1> QED BY <1>4, <1>5

\* The job is over, or its worker dies.
LEMMA EndSteps ==
  ASSUME ScanInv, NEW w \in Workers, Notify(w) \/ CrashWorker(w)
  PROVE  ScanInv'
<1>1. worker[w].pc # "idle"
  <2>1. worker[w] \in WorkerState
    BY DEF ScanInv, ScanTyped
  <2> QED BY <2>1, StateOfWorker DEF Notify, CrashWorker
<1>2. PICK j \in Jobs : j = worker[w].job /\ Has(w, j)
  BY <1>1, WorkerHas
<1>3. lost \subseteq Jobs /\ redis \in Reports \cup {NoResult}
  BY <1>1, WorkerHas
<1>4. CASE Notify(w)
  <2>1. scans[j].status = "completed"
    BY <1>2, <1>4 DEF Notify, ScanInv, RowsBehind, RowBehind
  <2> QED BY <1>2, <1>3, <1>4, <2>1, ReleaseStep DEF Notify
<1>5. CASE CrashWorker(w)
  <2>1. /\ Release(w) /\ scans' = scans /\ repoOf' = repoOf /\ redis' = redis
        /\ queue' = queue \/ queue' = <<>>
        /\ lost' = lost \cup {j}
    BY <1>2, <1>5 DEF CrashWorker
  <2> QED BY <1>2, <1>3, <2>1, ReleaseStep
<1> QED BY <1>4, <1>5

\* A step of a worker that has a job.
LEMMA WorkerStepKeeps ==
  ASSUME ScanInv, NEW w \in Workers, WorkerStep(w)
  PROVE  ScanInv'
<1>1. ASSUME NEW ok \in BOOLEAN, PersistDeduped(w, ok) PROVE ScanInv'
  <2>1. CASE worker[w].pc = "dedup" /\ PutReport(w, ok, worker[w].out, "dedup_row")
    <3>1. worker[w].pc \in Late /\ worker[w].pc # "idle"
      BY <2>1 DEF Late
    <3>2. PICK o \in Reports : o = worker[w].out
      BY <3>1, WorkerHas
    <3> QED BY <2>1, <3>1, <3>2, PutReportStep
  <2> QED BY <1>1, <2>1, RowSteps DEF PersistDeduped
<1>2. ASSUME NEW ok \in BOOLEAN, MarkInProgress(w, ok) PROVE ScanInv'
  <2>1. worker[w].pc \in Early /\ Report("in_progress", 0) \in Reports
    BY <1>2 DEF MarkInProgress, Early, Report, Reports
  <2>2. PutReport(w, ok, Report("in_progress", 0), "pipeline")
    BY <1>2 DEF MarkInProgress
  <2>3. PICK r \in Reports : r = Report("in_progress", 0)
    BY <2>1
  <2> QED BY <2>1, <2>2, <2>3, PutReportStep
<1> QED BY <1>1, <1>2, LookStep, RowSteps, RecordFailedStep, PutFinalStep, PipelineStep, EndSteps
        DEF WorkerStep

\* A job joins the queue behind those that came before it.
LEMMA EnqueueStep ==
  ASSUME ScanInv, NEW r \in Repos, Enqueue(r)
  PROVE  ScanInv'
<1>1. /\ repoOf \in Seq(Repos) /\ queue \in Seq(Jobs) /\ Len(repoOf) \in Nat /\ Len(queue) \in Nat
      /\ Len(repoOf) < MaxJobs /\ MaxJobs \in Nat
  BY ScanAssumption DEF ScanInv, QueueOrdered, Enqueue
<1>2. PICK n \in Jobs : n = Len(repoOf) + 1
  BY <1>1 DEF Jobs
<1>3. /\ repoOf' = Append(repoOf, r) /\ queue' = Append(queue, n)
      /\ UNCHANGED <<scans, redis, worker, lost>>
  BY <1>2 DEF Enqueue
<1>4. /\ repoOf' \in Seq(Repos) /\ Len(repoOf') = n
      /\ queue' \in Seq(Jobs) /\ Len(queue') = Len(queue) + 1
      /\ queue'[Len(queue) + 1] = n
      /\ \A i \in 1..Len(queue) : queue'[i] = queue[i]
  BY <1>1, <1>2, <1>3
<1>5. \A i \in 1..Len(queue) : queue[i] \in Jobs /\ queue[i] < n
  <2>1. \A i \in 1..Len(queue) : queue[i] \in Jobs /\ queue[i] <= Len(repoOf)
    BY <1>1 DEF ScanInv, QueueOrdered
  <2> QED BY <1>1, <1>2, <2>1 DEF Jobs
<1>6. QueueOrdered'
  <2>1. \A i \in 1..Len(queue') : i \in 1..Len(queue) \/ i = Len(queue) + 1
    BY <1>1, <1>4
  <2>2. Len(repoOf') <= MaxJobs
    BY <1>2, <1>4 DEF Jobs
  <2>3. ASSUME NEW i \in 1..Len(queue') PROVE queue'[i] <= n
    <3>1. CASE i \in 1..Len(queue)
      BY <1>4, <1>5, <3>1 DEF Jobs
    <3>2. CASE i = Len(queue) + 1
      BY <1>4, <3>2 DEF Jobs
    <3> QED BY <2>1, <3>1, <3>2
  <2>4. ASSUME NEW i \in 1..Len(queue'), NEW k \in 1..Len(queue'), i < k
        PROVE  queue'[i] < queue'[k]
    <3>1. i \in 1..Len(queue)
      BY <1>1, <1>4, <2>4
    <3>2. CASE k \in 1..Len(queue)
      BY <1>4, <2>4, <3>1, <3>2 DEF ScanInv, QueueOrdered
    <3>3. CASE k = Len(queue) + 1
      BY <1>4, <1>5, <3>1, <3>3
    <3> QED BY <2>1, <3>2, <3>3
  <2> QED BY <1>4, <2>2, <2>3, <2>4 DEF QueueOrdered
<1>7. JobsApart'
  <2>1. ASSUME NEW w \in Workers, NEW j \in Jobs, Has(w, j)'
        PROVE  j <= Len(repoOf') /\ \A i \in 1..Len(queue') : queue'[i] # j
    <3>1. Has(w, j)
      BY <1>3, <2>1 DEF Has
    <3>2. j <= Len(repoOf) /\ \A i \in 1..Len(queue) : queue[i] # j
      BY <3>1 DEF ScanInv, JobsApart
    <3>3. j < n
      BY <1>1, <1>2, <3>2 DEF Jobs
    <3>4. \A i \in 1..Len(queue') : i \in 1..Len(queue) \/ i = Len(queue) + 1
      BY <1>1, <1>4
    <3>5. j <= Len(repoOf') /\ n # j
      BY <1>4, <3>3 DEF Jobs
    <3> QED BY <1>4, <3>2, <3>4, <3>5
  <2>2. \A w, x \in Workers, j \in Jobs : Has(w, j)' /\ Has(x, j)' => w = x
    BY <1>3 DEF Has, ScanInv, JobsApart
  <2> QED BY <2>1, <2>2 DEF JobsApart
<1>8. ScanTyped' /\ RowsBehind' /\ RowsAreAccounted'
  BY <1>3 DEF ScanInv, ScanTyped, RowsBehind, RowsAreAccounted, Has
<1> QED BY <1>6, <1>7, <1>8 DEF ScanInv

\* A worker takes the oldest job, or passes over one whose repository is not scanned.
LEMMA DequeueStep ==
  ASSUME ScanInv, NEW w \in Workers, NEW ok \in BOOLEAN, Dequeue(w, ok)
  PROVE  ScanInv'
<1>1. /\ queue \in Seq(Jobs) /\ queue # <<>> /\ Len(queue) \in Nat /\ Len(queue) > 0
      /\ worker \in [Workers -> WorkerState] /\ worker[w] = Idle
  BY DEF ScanInv, ScanTyped, QueueOrdered, Dequeue
<1>2. PICK j \in Jobs : j = queue[1] /\ j = Head(queue)
  BY <1>1
<1>3. /\ queue' = Tail(queue) /\ UNCHANGED <<repoOf, scans, redis>>
  BY DEF Dequeue
<1>4. /\ queue' \in Seq(Jobs) /\ Len(queue') = Len(queue) - 1
      /\ \A i \in 1..Len(queue') : i + 1 \in 1..Len(queue) /\ queue'[i] = queue[i + 1]
  BY <1>1, <1>3
<1>5. QueueOrdered'
  <2>1. \A i \in 1..Len(queue') : queue'[i] <= Len(repoOf')
    BY <1>3, <1>4 DEF ScanInv, QueueOrdered
  <2>2. ASSUME NEW i \in 1..Len(queue'), NEW k \in 1..Len(queue'), i < k
        PROVE  queue'[i] < queue'[k]
    <3>1. /\ i + 1 \in 1..Len(queue) /\ k + 1 \in 1..Len(queue) /\ i + 1 < k + 1
          /\ queue'[i] = queue[i + 1] /\ queue'[k] = queue[k + 1]
      BY <1>4, <2>2
    <3>2. queue[i + 1] < queue[k + 1]
      BY <3>1 DEF ScanInv, QueueOrdered
    <3> QED BY <3>1, <3>2
  <2> QED BY <1>3, <1>4, <2>1, <2>2 DEF ScanInv, QueueOrdered
<1>6. \A i \in 1..Len(queue') : queue'[i] # j
  <2>1. ASSUME NEW i \in 1..Len(queue') PROVE queue'[i] # j
    <3>1. i + 1 \in 1..Len(queue) /\ 1 \in 1..Len(queue) /\ 1 < i + 1 /\ queue'[i] = queue[i + 1]
      BY <1>1, <1>4
    <3>2. queue[1] < queue[i + 1]
      BY <3>1 DEF ScanInv, QueueOrdered
    <3>3. queue[1] \in Jobs /\ queue[i + 1] \in Jobs
      BY <1>1, <3>1
    <3> QED BY <1>2, <3>1, <3>2, <3>3 DEF Jobs
  <2> QED BY <2>1
<1>7. j <= Len(repoOf)
  BY <1>1, <1>2 DEF ScanInv, QueueOrdered
<1>8. \A x \in Workers : ~Has(x, j)
  BY <1>1, <1>2 DEF ScanInv, JobsApart
<1>9. CASE worker' = worker /\ lost' = lost \cup {j}
  <2>1. \A x \in Workers, k \in Jobs : Has(x, k)' <=> Has(x, k)
    BY <1>9 DEF Has
  <2>2. ScanTyped'
    BY <1>3, <1>9 DEF ScanInv, ScanTyped
  <2>3. JobsApart'
    BY <1>3, <1>4, <2>1 DEF ScanInv, JobsApart
  <2>4. RowsBehind'
    BY <1>3, <1>9, <2>1 DEF ScanInv, RowsBehind, RowBehind
  <2>5. RowsAreAccounted'
    BY <1>3, <1>9, <2>1 DEF ScanInv, RowsAreAccounted
  <2> QED BY <1>5, <2>2, <2>3, <2>4, <2>5 DEF ScanInv
<1>10. CASE worker' = [worker EXCEPT ![w] = Working("look", j)] /\ lost' = lost
  <2>1. "look" \in Early
    BY DEF Early
  <2>2. /\ Working("look", j) \in WorkerState /\ Working("look", j) # Idle
        /\ Working("look", j).job = j /\ Working("look", j).pc = "look"
    BY <2>1, WorkingState
  <2>3. PICK s \in WorkerState : /\ worker' = [worker EXCEPT ![w] = s]
                                 /\ s # Idle /\ s.job = j /\ s.pc = "look"
    BY <1>10, <2>2
  <2>4. worker'[w] = s /\ \A x \in Workers : x # w => worker'[x] = worker[x]
    BY <1>1, <2>3
  <2>5. \A x \in Workers, k \in Jobs : Has(x, k)' <=> Has(x, k) \/ (x = w /\ k = j)
    BY <1>1, <2>3, <2>4 DEF Has
  <2>6. ScanTyped'
    BY <1>3, <1>10, <2>3 DEF ScanInv, ScanTyped
  <2>7. JobsApart'
    BY <1>3, <1>4, <1>6, <1>7, <1>8, <2>5 DEF ScanInv, JobsApart
  <2>8. RowsBehind'
    <3>1. ASSUME NEW x \in Workers, NEW k \in Jobs, Has(x, k)'
          PROVE  RowBehind(worker'[x], scans'[k], lost')
      <4>1. CASE x = w
        BY <2>3, <2>4, <4>1 DEF RowBehind
      <4>2. CASE x # w
        BY <1>3, <1>10, <2>4, <2>5, <3>1, <4>2 DEF ScanInv, RowsBehind
      <4> QED BY <4>1, <4>2
    <3> QED BY <3>1 DEF RowsBehind
  <2>9. RowsAreAccounted'
    BY <1>3, <1>8, <1>10, <2>5 DEF ScanInv, RowsAreAccounted
  <2> QED BY <1>5, <2>6, <2>7, <2>8, <2>9 DEF ScanInv
<1> QED BY <1>2, <1>9, <1>10 DEF Dequeue, Working

\* Every step keeps the invariant; the admission gate only reads.
LEMMA ScanInvNext == ScanInv /\ [ScanNext]_scanVars => ScanInv'
<1> SUFFICES ASSUME ScanInv, [ScanNext]_scanVars PROVE ScanInv'
  OBVIOUS
<1>1. ASSUME UNCHANGED <<queue, repoOf, scans, worker, lost>>, redis' \in {redis, NoResult}
      PROVE  ScanInv'
  BY <1>1 DEF ScanInv, ScanTyped, QueueOrdered, JobsApart, RowsBehind, RowsAreAccounted, Has
<1>2. CASE ScannerNext(Workers)
  <2>1. ASSUME NEW r \in Repos, CreateSuppression(r) \/ RevokeSuppression(r) PROVE ScanInv'
    BY <1>1, <2>1 DEF CreateSuppression, RevokeSuppression
  <2>2. ASSUME NEW r \in Repos, NEW on \in BOOLEAN, UpdateImageSettings(r, on) PROVE ScanInv'
    BY <1>1, <2>2 DEF UpdateImageSettings
  <2>3. CASE Expire
    BY <1>1, <2>3 DEF Expire
  <2> QED BY <1>2, <2>1, <2>2, <2>3, EnqueueStep, DequeueStep, WorkerStepKeeps, EndSteps
          DEF ScannerNext
<1>3. CASE GateNext
  <2>1. UNCHANGED <<svars, lost>>
    BY <1>3 DEF GateNext, UpsertAdmissionPolicy, FetchScan, Evaluate, PullEnds, Tick
  <2> QED BY <1>1, <2>1 DEF svars
<1>4. CASE UNCHANGED scanVars
  BY <1>1, <1>4 DEF scanVars, svars
<1> QED BY <1>2, <1>3, <1>4 DEF ScanNext

\* The scanner's rows, for any number of workers, jobs, failed calls and crashes: a job
\* has one worker, a row in progress is at work or lost, and a completed row has its
\* counts.
THEOREM ScanRowsAccounted == ScanSpec => []RowsAreAccounted
<1>1. ScanInit => ScanInv
  <2> SUFFICES ASSUME ScanInit PROVE ScanInv
    OBVIOUS
  <2> USE DEF ScanInit
  <2>1. ScanTyped
    BY DEF ScanTyped, WorkerState, ScanRow
  <2>2. \A w \in Workers, j \in Jobs : ~Has(w, j)
    BY DEF Has
  <2>3. QueueOrdered
    BY ScanAssumption DEF QueueOrdered
  <2> QED BY <2>1, <2>2, <2>3 DEF ScanInv, JobsApart, RowsBehind, RowsAreAccounted
<1>2. ScanInv => RowsAreAccounted
  BY DEF ScanInv
<1> QED BY <1>1, <1>2, ScanInvNext, PTL DEF ScanSpec
=============================================================================
