-------------------------------- MODULE Pilot --------------------------------
(* The operations assistant (specton-pilot behind POST /v2/_pilot/chat): a     *)
(* turn alternates between steps of a language model and calls of registry     *)
(* tools, under a cap on rounds and a daily token budget that the concurrent   *)
(* turns of a tenant on one replica share: every replica of the registry keeps *)
(* a tracker of its own, in memory.  What the language model says is any       *)
(* choice; the tools call back into the registry over HTTP.                    *)
EXTENDS Naturals, FiniteSets

CONSTANTS
    Replicas,        \* registry.replicas of the chart
    Turns,           \* chat requests
    TenantOf,        \* the tenant each of them is charged to
    Asks,            \* the <<tool, flag>> calls the model may make in each turn
    MaxCalls,        \* bound: tool calls in one step of the model
    MaxToolRounds,   \* ChatConfig.max_tool_rounds
    TokensPerStep,   \* ChatConfig.tokens_per_step
    TokensPerDay,    \* SpendCap.tokens_per_day
    MaxDays,         \* bound: days
    MaxPilotRestarts \* bound: restarts of each replica

ASSUME PilotAssumption ==
    /\ {MaxCalls, MaxToolRounds, TokensPerStep, TokensPerDay} \subseteq Nat
    /\ {MaxDays, MaxPilotRestarts} \subseteq Nat

VARIABLES
    turn,      \* the chat requests, each with the ToolCtx and the history it owns
    serves,    \* the replica the Service hands each request to
    budget,    \* BudgetTracker of each replica: the DayBucket of each tenant
    capped,    \* whether [pilot] tokens_per_day is positive, so a tracker exists
    today,
    spent,     \* tokens of the model steps really taken, per bucket and day
    restarts   \* of each replica

pilotVars == <<turn, serves, budget, capped, today, spent, restarts>>

Tenants == {TenantOf[t] : t \in Turns}
Buckets == Replicas \X Tenants
PilotDays == 0..MaxDays

NoTurn == [pc |-> "idle", dry |-> FALSE, rounds |-> 0, calls |-> {}, history |-> {}, wrote |-> {}]
Running == {"loop", "llm", "tools"}

(* A bucket that does not exist yet is created empty on the day it is needed.  *)
NoBucket == [day |-> 0, used |-> 0]

PilotInit ==
    /\ turn = [t \in Turns |-> NoTurn]
    /\ serves \in [Turns -> Replicas]
    /\ budget = [k \in Buckets |-> NoBucket]
    /\ capped \in BOOLEAN
    /\ today = 0
    /\ spent = [k \in Buckets |-> [d \in PilotDays |-> 0]]
    /\ restarts = [r \in Replicas |-> 0]

-----------------------------------------------------------------------------
(* What a tool does to the registry, given ctx.dry_run and the one field of    *)
(* its input that matters: nothing, a read or a write.  A missing field is an  *)
(* error without effect, as is a call that never arrived.                      *)

TriggerRebuild(dry) == IF dry THEN "nothing" ELSE "write"

(* A dry promotion is sent, with mode dry_run.                                 *)
PromoteTag(dry, flag) == IF dry \/ flag THEN "read" ELSE "write"

(* The scan tool reads the live result and reports a failure as a success.     *)
TriggerScan(dry) == IF dry THEN "nothing" ELSE "read"
EvaluateAdmission == "read"
SuppressFinding(dry) == IF dry THEN "nothing" ELSE "write"
UnsuppressFinding(dry) == IF dry THEN "nothing" ELSE "write"

(* Without apply the reconciler only reports.                                  *)
RunGcReconcile(dry, flag) == CASE dry -> "nothing" [] ~dry /\ flag -> "write" [] OTHER -> "read"
PauseGc(dry) == IF dry THEN "nothing" ELSE "write"
ResumeGc(dry) == IF dry THEN "nothing" ELSE "write"
ListRepositories == "read"
InspectImage == "read"
QueryAudit == "read"
ListFindings == "read"
Ping == "nothing"

(* The tools the registry is built with; a name the model invents is answered  *)
(* NotFound.  No registered tool is Destructive, so the confirmation phrase    *)
(* that invoke asks of one never matters.                                      *)
DefaultTools(dry, flag) ==
    [ping |-> Ping, list_repositories |-> ListRepositories, inspect_image |-> InspectImage,
     query_audit |-> QueryAudit, get_scan_findings |-> ListFindings,
     trigger_rebuild |-> TriggerRebuild(dry), promote_tag |-> PromoteTag(dry, flag),
     trigger_scan |-> TriggerScan(dry), evaluate_admission |-> EvaluateAdmission,
     suppress_finding |-> SuppressFinding(dry), unsuppress_finding |-> UnsuppressFinding(dry),
     run_gc_reconcile |-> RunGcReconcile(dry, flag), pause_gc |-> PauseGc(dry),
     resume_gc |-> ResumeGc(dry)]

Effect(call, dry) ==
    LET tools == DefaultTools(dry, call[2])
    IN  IF call[1] \in DOMAIN tools THEN tools[call[1]] ELSE "nothing"

-----------------------------------------------------------------------------
(* The route answers 403 when the assistant is disabled and refuses an empty   *)
(* message; otherwise the turn starts with the caller's dry_run.               *)
PilotChat(t) ==
    /\ turn[t].pc = "idle"
    /\ \/ turn' = [turn EXCEPT ![t].pc = "refused"]
       \/ \E dry \in BOOLEAN : turn' = [turn EXCEPT ![t].pc = "loop", ![t].dry = dry]
    /\ UNCHANGED <<serves, budget, capped, today, spent, restarts>>

(* check_and_add runs under the tracker's mutex: a bucket of another day starts *)
(* again from nothing, and a step that would pass the cap is refused uncharged. *)
Bucket(k) == IF budget[k].day = today THEN budget[k] ELSE [day |-> today, used |-> 0]

AddThenCheck(k) == Bucket(k).used <= TokensPerDay
CheckAndAdd(k) == Bucket(k).used + TokensPerStep <= TokensPerDay

ChargeStep(t) ==
    LET k == <<serves[t], TenantOf[t]>> IN
    /\ turn[t].pc = "loop"
    /\ IF turn[t].rounds > MaxToolRounds
       THEN /\ turn' = [turn EXCEPT ![t].pc = "rounds"]
            /\ UNCHANGED <<budget, spent>>
       ELSE IF capped /\ ~CheckAndAdd(k)
       THEN /\ turn' = [turn EXCEPT ![t].pc = "budget"]
            /\ budget' = [budget EXCEPT ![k] = Bucket(k)]
            /\ UNCHANGED spent
       ELSE /\ turn' = [turn EXCEPT ![t].pc = "llm"]
            /\ budget' = IF capped
                         THEN [budget EXCEPT ![k] = [Bucket(k) EXCEPT !.used = @ + TokensPerStep]]
                         ELSE budget
            /\ spent' = IF capped THEN [spent EXCEPT ![k][today] = @ + TokensPerStep] ELSE spent
    /\ UNCHANGED <<serves, capped, today, restarts>>

(* The tool_use blocks of a provider's response, as the client parses it: with *)
(* none of them the response is a text, with one or more any text is dropped.  *)
ToolUses(t) == {S \in SUBSET Asks[t] : Cardinality(S) <= MaxCalls}

(* One step of the model: a text ends the turn, an error fails it, and tool    *)
(* calls open another round, of which there are at most MaxToolRounds + 1.     *)
LlmStep(t) ==
    /\ turn[t].pc = "llm"
    /\ \/ turn' = [turn EXCEPT ![t].pc = "error"]
       \/ \E calls \in ToolUses(t) :
             IF calls = {}
             THEN turn' = [turn EXCEPT ![t].pc = "ok"]
             ELSE turn' = [turn EXCEPT ![t].pc = "tools", ![t].rounds = @ + 1, ![t].calls = calls]
    /\ UNCHANGED <<serves, budget, capped, today, spent, restarts>>

(* One call of the round.  Its result is appended whatever came of it: a write *)
(* may be refused, or take effect although its answer is lost.                 *)
Invoke(t) ==
    /\ turn[t].pc = "tools"
    /\ \E call \in turn[t].calls :
          \/ /\ Effect(call, turn[t].dry) = "write"
             /\ turn' = [turn EXCEPT ![t].calls = @ \ {call}, ![t].history = @ \cup {call[1]},
                                     ![t].wrote = @ \cup {call[1]}]
          \/ turn' = [turn EXCEPT ![t].calls = @ \ {call}, ![t].history = @ \cup {call[1]}]
    /\ UNCHANGED <<serves, budget, capped, today, spent, restarts>>

RoundDone(t) ==
    /\ turn[t].pc = "tools" /\ turn[t].calls = {}
    /\ turn' = [turn EXCEPT ![t].pc = "loop"]
    /\ UNCHANGED <<serves, budget, capped, today, spent, restarts>>

Midnight ==
    /\ today < MaxDays
    /\ today' = today + 1
    /\ UNCHANGED <<turn, serves, budget, capped, spent, restarts>>

(* A restart forgets the replica's tracker and drops its requests in flight.   *)
RestartRegistry(r) ==
    /\ restarts[r] < MaxPilotRestarts
    /\ restarts' = [restarts EXCEPT ![r] = @ + 1]
    /\ budget' = [k \in Buckets |-> IF k[1] = r THEN NoBucket ELSE budget[k]]
    /\ turn' = [t \in Turns |->
                  IF serves[t] = r /\ turn[t].pc \in Running
                  THEN [turn[t] EXCEPT !.pc = "dropped"] ELSE turn[t]]
    /\ UNCHANGED <<serves, capped, today, spent>>

(* run_turn_with_budget, one iteration at a time.                              *)
RunTurn(t) == ChargeStep(t) \/ LlmStep(t) \/ Invoke(t) \/ RoundDone(t)

PilotNext ==
    \/ \E t \in Turns : PilotChat(t) \/ RunTurn(t)
    \/ Midnight
    \/ \E r \in Replicas : RestartRegistry(r)

PilotSpec == PilotInit /\ [][PilotNext]_pilotVars

-----------------------------------------------------------------------------
(* On no day do the concurrent turns of a tenant on one replica take model     *)
(* steps worth more than the daily cap, midnight and refused steps included;   *)
(* each restart, which forgets the replica's tracker, is worth one more cap    *)
(* (check_and_add).  Over all replicas a tenant has one cap for each of them   *)
(* and for each of their restarts: nothing adds the trackers up.               *)
SpendCapped ==
    \A r \in Replicas, n \in Tenants, d \in PilotDays :
        spent[<<r, n>>][d] <= TokensPerDay * (1 + restarts[r])
=============================================================================
