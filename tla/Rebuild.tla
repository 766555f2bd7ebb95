-------------------------------- MODULE Rebuild --------------------------------
(* Rebuild subscriptions (specton-rebuild): when a base image changes, every  *)
(* matching subscription fires an event for a downstream image, at most       *)
(* per_downstream_per_day times a day.                                        *)
(*                                                                            *)
(* One downstream image.  The ledger rebuild_rate is keyed by (subscription   *)
(* id, downstream, CURRENT_DATE); each of its statements is atomic, a firing  *)
(* is not: it reads the subscription, takes a slot, calls the emitter and may *)
(* give the slot back, and an administrator's change or midnight may fall     *)
(* between any two of these.                                                  *)
EXTENDS Naturals, FiniteSets, FiniteSetsExt

CONSTANTS Firings,    \* concurrent rebuild_trigger requests
          Caps,       \* per_downstream_per_day as configured; 0 is read as 1
          MaxDays,    \* bound: days the clock runs
          MaxSubs,    \* bound: ids the subscription is given
          MaxUpserts, \* bound: changes of the subscription
          MaxFired    \* bound: the ledger and the events of a day

ASSUME RebuildAssumption ==
    /\ IsFiniteSet(Firings) /\ Caps \in SUBSET Nat /\ Caps # {}
    /\ MaxDays \in Nat \ {0} /\ MaxSubs \in Nat \ {0} /\ MaxUpserts \in Nat /\ MaxFired \in Nat

Days == 1..MaxDays
Subs == 1..MaxSubs

VARIABLES day,
          sub,      \* the subscription's row: its id, whether it is enabled, its cap
          upserts,  \* bound's counter
          charged,  \* the ids that rows of rebuild_rate refer to
          fired,    \* rebuild_rate: [id, day] -> fired, 0 without a row
          firing,   \* firing -> its progress
          sent,     \* ghost: [id, day the slot was taken] -> events the endpoint took or may yet
          limit,    \* ghost: [id, day] -> the highest cap a slot was asked under
          lent      \* ghost: [id, day] -> slots given back that no failure of that day had freed

rebVars == <<day, sub, upserts, charged, fired, firing, sent, limit, lent>>

Quiet == [pc |-> "idle"]
Bucket == Subs \X Days
PerDay(cap) == Max({cap, 1})

RebInit ==
    /\ day = 1
    /\ sub \in [id : {1}, on : {TRUE}, cap : Caps]
    /\ upserts = 0 /\ charged = {}
    /\ fired = [b \in Bucket |-> 0]
    /\ firing = [f \in Firings |-> Quiet]
    /\ sent = [b \in Bucket |-> 0]
    /\ limit = [b \in Bucket |-> 0]
    /\ lent = [b \in Bucket |-> 0]

RebTypeOK ==
    /\ day \in Days /\ sub.id \in Subs /\ sub.cap \in Caps /\ charged \subseteq Subs
    /\ fired \in [Bucket -> 0..MaxFired]
    /\ \A f \in Firings : firing[f].pc \in {"idle", "check", "emit", "failed"}

Midnight ==
    /\ day < MaxDays
    /\ day' = day + 1
    /\ UNCHANGED <<sub, upserts, charged, fired, firing, sent, limit, lent>>

(* The upsert's ON CONFLICT gives the row the id of the request, which is a   *)
(* new one unless the body names one.  rebuild_rate refers to the id with no  *)
(* ON UPDATE: once a slot was taken under it, only an upsert that keeps it    *)
(* succeeds.                                                                  *)
UpsertSubscription(id, on, cap) ==
    /\ upserts < MaxUpserts
    /\ upserts' = upserts + 1
    /\ id # sub.id => sub.id \notin charged
    /\ sub' = [id |-> id, on |-> on, cap |-> cap]
    /\ UNCHANGED <<day, charged, fired, firing, sent, limit, lent>>

(* An enabled subscription whose globs match the upstream and the downstream. *)
Matches == sub.on

(* The request reads the subscription once; the rest of it goes by that copy. *)
RebuildTrigger(f) ==
    /\ firing[f] = Quiet
    /\ Matches
    /\ firing' = [firing EXCEPT ![f] = [pc |-> "check", id |-> sub.id, cap |-> sub.cap]]
    /\ UNCHANGED <<day, sub, upserts, charged, fired, sent, limit, lent>>

ForgetOverCap(f) ==
    /\ firing[f].pc = "check"
    /\ firing[f].id = sub.id
    /\ LET b == <<firing[f].id, day>>
       IN  /\ fired[b] < MaxFired /\ sent[b] < MaxFired
           /\ fired' = [fired EXCEPT ![b] = @ + 1]
           /\ limit' = [limit EXCEPT ![b] = Max({@, PerDay(firing[f].cap)})]
           /\ firing' = [firing EXCEPT ![f] = [pc |-> "emit", b |-> b]]
           /\ sent' = [sent EXCEPT ![b] = @ + 1]
    /\ charged' = charged \cup {firing[f].id}
    /\ UNCHANGED <<day, sub, upserts, lent>>

(* The counter goes up whether the answer is yes or no.  The id must still be *)
(* a subscription's: the row refers to it.                                    *)
CheckAndIncrement(f) ==
    /\ firing[f].pc = "check"
    /\ firing[f].id = sub.id
    /\ LET b == <<firing[f].id, day>>
       IN  /\ fired[b] < MaxFired /\ sent[b] < MaxFired
           /\ fired' = [fired EXCEPT ![b] = @ + 1]
           /\ limit' = [limit EXCEPT ![b] = Max({@, PerDay(firing[f].cap)})]
           /\ IF fired[b] + 1 <= PerDay(firing[f].cap)
              THEN /\ firing' = [firing EXCEPT ![f] = [pc |-> "emit", b |-> b]]
                   /\ sent' = [sent EXCEPT ![b] = @ + 1]
              ELSE firing' = [firing EXCEPT ![f] = Quiet] /\ UNCHANGED sent
    /\ charged' = charged \cup {firing[f].id}
    /\ UNCHANGED <<day, sub, upserts, lent>>

(* The insert is refused (the id is gone) or the database is away.            *)
CheckFails(f) ==
    /\ firing[f].pc = "check"
    /\ firing' = [firing EXCEPT ![f] = Quiet]
    /\ UNCHANGED <<day, sub, upserts, charged, fired, sent, limit, lent>>

(* The endpoint took the event; a failed insert of the 'sent' row is an error *)
(* of the request and gives no slot back.                                     *)
EmitSucceeds(f) ==
    /\ firing[f].pc = "emit"
    /\ firing' = [firing EXCEPT ![f] = Quiet]
    /\ UNCHANGED <<day, sub, upserts, charged, fired, sent, limit, lent>>

(* build_emitter found no token, or the process died: the slot stays taken.   *)
NothingEmitted(f) ==
    /\ firing[f].pc = "emit"
    /\ firing' = [firing EXCEPT ![f] = Quiet]
    /\ sent' = [sent EXCEPT ![firing[f].b] = @ - 1]
    /\ UNCHANGED <<day, sub, upserts, charged, fired, limit, lent>>

(* A connection error or a status that is no success.  The endpoint may have  *)
(* taken the event before its answer was lost or a proxy answered for it.     *)
EmitFails(f, taken) ==
    /\ firing[f].pc = "emit"
    /\ firing' = [firing EXCEPT ![f] = [pc |-> "failed", b |-> firing[f].b, taken |-> taken]]
    /\ sent' = IF taken THEN sent ELSE [sent EXCEPT ![firing[f].b] = @ - 1]
    /\ UNCHANGED <<day, sub, upserts, charged, fired, limit, lent>>

(* Best effort: the error of the update is ignored.  The row is today's, and  *)
(* the slot comes back whether or not the event was taken.                    *)
DecrementOnFailure(f, ok) ==
    /\ firing[f].pc = "failed"
    /\ firing' = [firing EXCEPT ![f] = Quiet]
    /\ LET b == <<firing[f].b[1], day>>
           hit == ok /\ fired[b] > 0
           unfreed == b # firing[f].b \/ firing[f].taken
       IN  /\ fired' = IF hit THEN [fired EXCEPT ![b] = @ - 1] ELSE fired
           /\ lent' = IF hit /\ unfreed THEN [lent EXCEPT ![b] = @ + 1] ELSE lent
    /\ UNCHANGED <<day, sub, upserts, charged, sent, limit>>

RebNext ==
    \/ Midnight
    \/ \E id \in Subs, on \in BOOLEAN, cap \in Caps : UpsertSubscription(id, on, cap)
    \/ \E f \in Firings : RebuildTrigger(f) \/ CheckAndIncrement(f) \/ CheckFails(f)
    \/ \E f \in Firings : EmitSucceeds(f) \/ NothingEmitted(f)
    \/ \E f \in Firings, taken \in BOOLEAN : EmitFails(f, taken)
    \/ \E f \in Firings, ok \in BOOLEAN : DecrementOnFailure(f, ok)

RebSpec == RebInit /\ [][RebNext]_rebVars

----------------------------------------------------------------------------
(* However many triggers race, fail and are given their slot back, and        *)
(* whatever cap an edit gives the id meanwhile, the endpoint takes at most    *)
(* the highest of the caps in force for a subscription's downstream in a day, *)
(* plus one event for every slot given back without having been free: that of *)
(* a failure of an earlier day, given back after midnight, and that of an     *)
(* event the endpoint had taken although its answer was an error.             *)
SentWithinCap ==
    \A b \in Bucket : sent[b] <= limit[b] + lent[b]
=============================================================================
