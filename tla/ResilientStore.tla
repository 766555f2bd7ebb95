---------------------------- MODULE ResilientStore ----------------------------
(***************************************************************************)
(* ResilientObjectStore of specton-resilience: every store call of the     *)
(* registry runs under one circuit breaker and, inside it, a retry policy. *)
(* The breaker takes its lock three times for one call: a read lock to     *)
(* decide, a write lock to leave the open state, and a write lock to       *)
(* record the outcome.  Calls interleave between any two of them.          *)
(*                                                                         *)
(* put_multipart and list go to the inner store directly and are not       *)
(* modelled.  A call that is rejected changes no state: Check is disabled. *)
(***************************************************************************)
EXTENDS Naturals

CONSTANTS Callers,           \* concurrent store calls
          FailureThreshold,  \* CircuitBreakerConfig.failure_threshold
          SuccessThreshold,  \* CircuitBreakerConfig.success_threshold
          MaxRetries         \* RetryPolicy.max_retries

ASSUME ThresholdAssumption ==
    /\ FailureThreshold \in Nat \ {0}
    /\ SuccessThreshold \in Nat \ {0}
    /\ MaxRetries \in Nat

VARIABLES state,   \* BreakerState
          count,   \* consecutive_failures when closed, _successes when half open
          cooled,  \* open_duration has passed since opened_at
          call,    \* where each call is
          down,    \* the storage backend is out
          outage,  \* history: the backend has been out
          early    \* history: calls let in before the breaker last opened

vars == <<state, count, cooled, call, down, outage, early>>

\* get, get_opts and head; delete; put, put_opts and list_with_delimiter.
Ops == {"read", "delete", "write"}
Results == {"ok", "absent", "error"}
IdleCall == [pc |-> "idle", op |-> "read", attempt |-> 0, result |-> "ok"]

TypeOK ==
    /\ state \in {"closed", "open", "half_open"}
    /\ count \in Nat
    /\ state = "closed" => count < FailureThreshold
    /\ state = "half_open" => count < SuccessThreshold
    /\ cooled \in BOOLEAN
    /\ call \in [Callers -> [pc : {"idle", "checked", "running", "done"}, op : Ops,
                             attempt : 0..MaxRetries, result : Results]]
    /\ down \in BOOLEAN /\ outage \in BOOLEAN
    /\ early \subseteq Callers

Init ==
    /\ state = "closed" /\ count = 0 /\ cooled = FALSE
    /\ call = [c \in Callers |-> IdleCall]
    /\ down = FALSE /\ outage = FALSE
    /\ early = {}

InFlight == {c \in Callers : call[c].pc # "idle"}

(***************************************************************************)
(* call_classified.                                                        *)
(***************************************************************************)
\* Mutant: the open state is not looked at.
CheckNothing(c, op) ==
    /\ call[c].pc = "idle"
    /\ call' = [call EXCEPT ![c] = [IdleCall EXCEPT !.pc = "checked", !.op = op]]
    /\ UNCHANGED <<state, count, cooled, down, outage, early>>

\* Under the read lock.
Check(c, op) ==
    /\ call[c].pc = "idle"
    /\ state = "open" => cooled
    /\ call' = [call EXCEPT ![c] = [IdleCall EXCEPT !.pc = "checked", !.op = op]]
    /\ UNCHANGED <<state, count, cooled, down, outage, early>>

\* Under the write lock: whatever the state is by now, the call goes on.
Admit(c) ==
    /\ call[c].pc = "checked"
    /\ call' = [call EXCEPT ![c].pc = "running"]
    /\ IF state = "open" /\ cooled
       THEN state' = "half_open" /\ count' = 0
       ELSE UNCHANGED <<state, count>>
    /\ UNCHANGED <<cooled, down, outage, early>>

\* What the backend may answer.
Answers(op) == IF down THEN {"error"}
               ELSE IF op = "write" THEN {"ok"} ELSE {"ok", "absent"}

\* execute_labeled: an error, NotFound included, is tried again after a delay.
Attempt(c, answer) ==
    /\ call[c].pc = "running"
    /\ answer \in Answers(call[c].op)
    /\ call' = IF answer = "ok" \/ call[c].attempt >= MaxRetries
               THEN [call EXCEPT ![c].pc = "done", ![c].result = answer]
               ELSE [call EXCEPT ![c].attempt = @ + 1]
    /\ UNCHANGED <<state, count, cooled, down, outage, early>>

\* is_failure: only the reads of ResilientObjectStore pass is_not_found.
Healthy(c) == call[c].result = "ok" \/ (call[c].result = "absent" /\ call[c].op = "read")

\* Mutant: successes in half-open are not counted.
SuccessUncounted ==
    /\ state' = IF state = "half_open" THEN "half_open" ELSE "closed"
    /\ count' = 0

\* record_success; the open arm is the one the code does not expect.
RecordSuccess ==
    IF state = "half_open" /\ count + 1 < SuccessThreshold
    THEN state' = "half_open" /\ count' = count + 1
    ELSE state' = "closed" /\ count' = 0

\* record_failure.
RecordFailure ==
    CASE state = "closed" /\ count + 1 < FailureThreshold ->
            state' = "closed" /\ count' = count + 1
      [] state = "open" -> UNCHANGED <<state, count>>
      [] OTHER -> state' = "open" /\ count' = 0

Opens == state # "open" /\ state' = "open"

\* Under the write lock, and the call returns.
Record(c) ==
    /\ call[c].pc = "done"
    /\ IF Healthy(c) THEN RecordSuccess ELSE RecordFailure
    /\ cooled' = IF Opens THEN FALSE ELSE cooled
    /\ early' = IF Opens THEN InFlight \ {c} ELSE early \ {c}
    /\ call' = [call EXCEPT ![c] = IdleCall]
    /\ UNCHANGED <<down, outage>>

\* The caller's request is dropped: no outcome is recorded.
Drop(c) ==
    /\ c \in InFlight
    /\ call' = [call EXCEPT ![c] = IdleCall]
    /\ early' = early \ {c}
    /\ UNCHANGED <<state, count, cooled, down, outage>>

(***************************************************************************)
(* The clock and the backend.                                              *)
(***************************************************************************)
Cool ==
    /\ state = "open" /\ ~cooled
    /\ cooled' = TRUE
    /\ UNCHANGED <<state, count, call, down, outage, early>>

BackendChanges ==
    /\ down' = ~down
    /\ outage' = TRUE
    /\ UNCHANGED <<state, count, cooled, call, early>>

CallStep(c) == Admit(c) \/ (\E answer \in Results : Attempt(c, answer)) \/ Record(c)

Next ==
    \/ \E c \in Callers : \/ \E op \in Ops : Check(c, op)
                          \/ CallStep(c)
                          \/ Drop(c)
    \/ Cool
    \/ BackendChanges

\* A call that started is polled until it ends, and time passes.
Fairness == WF_vars(Cool) /\ \A c \in Callers : WF_vars(CallStep(c))

Spec == Init /\ [][Next]_vars /\ Fairness

(***************************************************************************)
(* While the breaker is open it lets nobody in: the calls that run then    *)
(* were let in before it opened, and so is the call whose late success     *)
(* closes it without a half-open phase ("Shouldn't happen, but reset to    *)
(* closed", circuit_breaker.rs).                                           *)
(***************************************************************************)
OpenLetsNobodyIn ==
    state = "open" =>
        \A c \in InFlight : c \in early \/ (cooled /\ call[c].pc = "checked")

(***************************************************************************)
(* Once the backend stays up and no delete is in flight, a breaker through *)
(* which calls keep completing does not stay open or half open for ever.   *)
(***************************************************************************)
RecoversWhenHealthy ==
    /\ <>[](~down /\ \A c \in Callers : call[c].op # "delete")
    /\ []<><<\E c \in Callers : Record(c)>>_vars
    => []<>(state = "closed")

=============================================================================
