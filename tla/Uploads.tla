------------------------------ MODULE Uploads ------------------------------
(***************************************************************************)
(* Blob uploads of specton-registry: requests on one upload session, the   *)
(* chunked write of specton-resilience and the webhook notifier a          *)
(* completed upload waits for.  Bytes are sequences of chunks; the client  *)
(* declares the digest of Whole.  A store call may fail and a client may   *)
(* hang up, which drops the handler where it waits.                        *)
(***************************************************************************)
EXTENDS Naturals, Sequences, FiniteSets

CONSTANTS
    Requests,       \* PATCH and PUT requests on the session
    Puts,           \* those that complete it
    Chunks,         \* pieces of content
    Body,           \* the chunks each request carries
    Whole,          \* the content with the declared digest
    Threshold,      \* chunks that still go in a single put
    Endpoints,      \* webhook endpoints: whether each one wants blob.push
    ChannelCap,     \* capacity of the notifier's channel (512)
    WebhookRetries, \* max_retries
    NoObject,       \* the object store has nothing at the path
    MaxUploadFaults \* failed store calls and hung-up clients

ASSUME UploadAssumption ==
    /\ Puts \subseteq Requests
    /\ Body \in [Requests -> Seq(Chunks)] /\ Whole \in Seq(Chunks)
    /\ NoObject \notin Seq(Chunks)
    /\ Threshold \in Nat /\ ChannelCap \in Nat \ {0} /\ WebhookRetries \in Nat
    /\ MaxUploadFaults \in Nat

VARIABLES
    session,    \* the object at upload_path
    blob,       \* the object at blob_path of the declared digest
    req,        \* the handler of each request
    queued,     \* payloads in the notifier's channel
    notifier,   \* the endpoint and attempt the notifier is at, endpoint 0 when it waits
    upFaults

upVars == <<session, blob, req, queued, notifier, upFaults>>

Unsent == [pc |-> "unsent", data |-> <<>>, parts |-> {}, failed |-> {}]
Answered == [Unsent EXCEPT !.pc = "answered"]
Waiting == [at |-> 0, attempt |-> 0]

\* initiate_blob_upload left an empty placeholder
UpInit ==
    /\ session = <<>>
    /\ blob = NoObject
    /\ req = [r \in Requests |-> Unsent]
    /\ queued = 0
    /\ notifier = Waiting
    /\ upFaults = 0

-----------------------------------------------------------------------------
(* upload_blob_chunk and complete_blob_upload *)

\* A PATCH appends whatever it read; a PUT verifies the digest of the result.
Acceptable(r, data) == r \in Puts => data = Whole

ReadSession(r) ==
    /\ req[r].pc = "unsent"
    /\ LET data == session \o Body[r]
       IN  req' = [req EXCEPT ![r] =
                      IF session # NoObject /\ Acceptable(r, data)
                      THEN [Unsent EXCEPT !.pc = "write", !.data = data] ELSE Answered]
    /\ UNCHANGED <<session, blob, queued, notifier, upFaults>>

Multipart(r) == Len(req[r].data) > Threshold

\* put_part: the parts are driven concurrently, and all of them to their end
PutPart(r, i, fails) ==
    /\ req[r].pc = "write" /\ Multipart(r)
    /\ i \in (1..Len(req[r].data)) \ req[r].parts
    /\ req' = [req EXCEPT ![r].parts = @ \cup {i}, ![r].failed = IF fails THEN @ \cup {i} ELSE @]
    /\ UNCHANGED <<session, blob, queued, notifier>>

\* the multipart upload is completed whatever the parts answered
CompleteAnyway(r) == Multipart(r) => req[r].parts = 1..Len(req[r].data)

\* put, or complete of the multipart upload once every part succeeded
Ready(r) == Multipart(r) => req[r].parts = 1..Len(req[r].data) /\ req[r].failed = {}

\* The parts that were stored.
Kept(r) == (1..Len(req[r].data)) \ req[r].failed

\* What the store assembles, in the order of the parts: one that failed is missing.
Assembled(r) ==
    [k \in 1..Cardinality(Kept(r)) |->
        req[r].data[CHOOSE i \in Kept(r) : Cardinality({j \in Kept(r) : j <= i}) = k]]

PutObject(r) ==
    /\ req[r].pc = "write" /\ Ready(r)
    /\ IF r \in Puts
       THEN /\ blob' = Assembled(r)
            /\ req' = [req EXCEPT ![r] = [Unsent EXCEPT !.pc = "clean"]]
            /\ UNCHANGED session
       ELSE /\ session' = Assembled(r)
            /\ req' = [req EXCEPT ![r] = Answered]
            /\ UNCHANGED blob
    /\ UNCHANGED <<queued, notifier, upFaults>>

\* abort_quietly: nothing becomes visible and the client is told
AbortUpload(r) ==
    /\ req[r].pc = "write" /\ req[r].failed # {} /\ req[r].parts = 1..Len(req[r].data)
    /\ req' = [req EXCEPT ![r] = Answered]
    /\ UNCHANGED <<session, blob, queued, notifier, upFaults>>

\* The session is deleted; an error is ignored.
DeleteSession(r, fails) ==
    /\ req[r].pc = "clean"
    /\ session' = IF fails THEN session ELSE NoObject
    /\ req' = [req EXCEPT ![r].pc = "notify"]
    /\ UNCHANGED <<blob, queued, notifier>>

\* send waits while the channel is full
HasRoom == queued < ChannelCap

NotifyWebhooks(r) ==
    /\ req[r].pc = "notify" /\ HasRoom
    /\ queued' = queued + 1
    /\ req' = [req EXCEPT ![r].pc = "audit"]
    /\ UNCHANGED <<session, blob, notifier, upFaults>>

\* audit_log.record, record_usage and the lazy enqueue; the answer is 201, or the
\* error of the audit log
RecordPush(r) ==
    /\ req[r].pc = "audit"
    /\ req' = [req EXCEPT ![r] = Answered]
    /\ UNCHANGED <<session, blob, queued, notifier, upFaults>>

\* a store call answers with an error, or the client hangs up
Abandon(r) ==
    /\ req[r].pc \notin {"unsent", "answered"}
    /\ req' = [req EXCEPT ![r] = Answered]
    /\ UNCHANGED <<session, blob, queued, notifier>>

-----------------------------------------------------------------------------
(* The webhook notifier *)

\* the next endpoint, or the wait for the next payload
NextEndpoint == IF notifier.at = Len(Endpoints) THEN Waiting ELSE [at |-> notifier.at + 1, attempt |-> 0]

Receive ==
    /\ notifier.at = 0 /\ queued > 0
    /\ queued' = queued - 1
    /\ notifier' = IF Endpoints = <<>> THEN Waiting ELSE [at |-> 1, attempt |-> 0]
    /\ UNCHANGED <<session, blob, req, upFaults>>

\* one more attempt as long as the endpoint does not answer
RetryForever == [notifier EXCEPT !.attempt = (@ + 1) % (WebhookRetries + 1)]

AfterFailure ==
    IF notifier.attempt < WebhookRetries THEN [notifier EXCEPT !.attempt = @ + 1] ELSE NextEndpoint

\* an endpoint that filters the event out is skipped
Deliver(delivered) ==
    /\ notifier.at > 0
    /\ notifier' = IF ~Endpoints[notifier.at] \/ delivered THEN NextEndpoint ELSE AfterFailure
    /\ UNCHANGED <<session, blob, req, queued, upFaults>>

-----------------------------------------------------------------------------
HandlerStep(r) ==
    \/ ReadSession(r) \/ PutObject(r) \/ AbortUpload(r) \/ NotifyWebhooks(r) \/ RecordPush(r)
    \/ (DeleteSession(r, FALSE) /\ UNCHANGED upFaults)
    \/ \E i \in 1..Len(req[r].data) : PutPart(r, i, FALSE) /\ UNCHANGED upFaults

StoreFault(r) ==
    /\ upFaults < MaxUploadFaults
    /\ upFaults' = upFaults + 1
    /\ \/ Abandon(r) \/ DeleteSession(r, TRUE)
       \/ \E i \in 1..Len(req[r].data) : PutPart(r, i, TRUE)

NotifierStep == Receive \/ \E delivered \in BOOLEAN : Deliver(delivered)

UpNext ==
    \/ \E r \in Requests : HandlerStep(r) \/ StoreFault(r)
    \/ NotifierStep

\* The runtime drives every handler and the notifier; every delivery attempt has a timeout.
UpFairness ==
    /\ \A r \in Requests : WF_upVars(req[r].pc # "unsent" /\ HandlerStep(r))
    /\ WF_upVars(NotifierStep)

UpSpec == UpInit /\ [][UpNext]_upVars /\ UpFairness
-----------------------------------------------------------------------------
(* Properties *)

\* Whatever chunks overtake, lose or repeat each other in the session, whichever part of a
\* multipart write fails and wherever a client hangs up: what is visible under a digest
\* has that digest, and the session is gone only once it is, so a failed completion can
\* be retried (complete_blob_upload, put_chunked).
BlobsAreWhole ==
    /\ blob \in {NoObject, Whole}
    /\ session = NoObject => blob = Whole

\* Every upload request is answered, however the webhook endpoints behave and however many
\* completed uploads wait for room in the notifier's channel (notify, deliver_to_endpoint).
UploadsAnswered == <>[](\A r \in Requests : req[r].pc \in {"unsent", "answered"})
=============================================================================
