------------------------------- MODULE Expiry -------------------------------
(***************************************************************************)
(* Tags with a TTL: put_manifest writes the tag link and then a tags row   *)
(* with expires_at, and the reapers of specton-ephemeral, one in each      *)
(* replica of the registry, remove links and rows that expired.  The link  *)
(* is in the object store and the row in PostgreSQL; only the row can be   *)
(* locked.                                                                 *)
(***************************************************************************)
EXTENDS Naturals, FiniteSets

CONSTANTS
    TtlTags,        \* tags
    Pushes,         \* put_manifest requests
    TagOf,          \* the tag each one pushes
    Ttl,            \* the duration its header gives, NoTtl without a valid header
    NoTtl,
    NoPush,         \* no link, no row, no tag
    Reapers,        \* replicas of the registry
    BatchSize,      \* TtlReaperConfig.batch_size
    MaxTime,        \* the clock stops here
    MaxTtlFaults    \* failed calls, crashes and pauses

ASSUME ExpiryAssumption ==
    /\ TagOf \in [Pushes -> TtlTags]
    /\ Ttl \in [Pushes -> Nat \cup {NoTtl}] /\ NoTtl \notin Nat
    /\ NoPush \notin Pushes \cup TtlTags
    /\ BatchSize \in Nat \ {0} /\ MaxTime \in Nat /\ MaxTtlFaults \in Nat

VARIABLES
    now,
    link,       \* the push whose link the store holds
    row,        \* the tags row: expires_at and the push that wrote it
    push,       \* where each push is, and the expires_at it announces
    reaper,     \* each reaper: candidates left and the tag whose row it has locked
    control,    \* each TtlReaperControl
    crossed,    \* history: pushes that overlapped another push of their tag, or whose link
                \* a reaper deleted before they had their row
    ttlFaults

ttlVars == <<now, link, row, push, reaper, control, crossed, ttlFaults>>

NoRow == [by |-> NoPush, expires |-> 0]
Sleeping == [pc |-> "sleep", todo |-> {}, tag |-> NoPush]

TtlInit ==
    /\ now = 0
    /\ link = [t \in TtlTags |-> NoPush]
    /\ row = [t \in TtlTags |-> NoRow]
    /\ push = [p \in Pushes |-> [pc |-> "unsent", expires |-> 0]]
    /\ reaper = [x \in Reapers |-> Sleeping]
    /\ control = [x \in Reapers |-> "running"]
    /\ crossed = {}
    /\ ttlFaults = 0

Expired(t) == row[t].by # NoPush /\ row[t].expires < now
RowLocked(t) == \E x \in Reapers : reaper[x].tag = t

-----------------------------------------------------------------------------
(* put_manifest *)

\* The handler has begun; pushes of the same tag that are under way overlap it.
StartPush(p) ==
    /\ push[p].pc = "unsent"
    /\ push' = [push EXCEPT ![p].pc = "link"]
    /\ LET others == {q \in Pushes \ {p} : TagOf[q] = TagOf[p] /\ push[q].pc \in {"link", "row"}}
       IN  crossed' = IF others = {} THEN crossed ELSE crossed \cup others \cup {p}
    /\ UNCHANGED <<now, link, row, reaper, control, ttlFaults>>

\* parse_ttl_header: a duration counts from the time of the push
ExpiresAt(p) == now + Ttl[p]

WriteLink(p) ==
    /\ push[p].pc = "link"
    /\ link' = [link EXCEPT ![TagOf[p]] = p]
    /\ push' = [push EXCEPT ![p] = IF Ttl[p] = NoTtl THEN [pc |-> "done", expires |-> 0]
                                   ELSE [pc |-> "row", expires |-> ExpiresAt(p)]]
    /\ UNCHANGED <<now, row, reaper, control, crossed, ttlFaults>>

\* The upsert waits for the lock of a reaper.
UpsertRow(p) ==
    /\ push[p].pc = "row" /\ ~RowLocked(TagOf[p])
    /\ row' = [row EXCEPT ![TagOf[p]] = [by |-> p, expires |-> push[p].expires]]
    /\ push' = [push EXCEPT ![p].pc = "done"]
    /\ UNCHANGED <<now, link, reaper, control, crossed, ttlFaults>>

\* the push succeeds without its row
UpsertFails(p) ==
    /\ push[p].pc = "row"
    /\ push' = [push EXCEPT ![p].pc = "failed"]
    /\ UNCHANGED <<now, link, row, reaper, control, crossed>>

-----------------------------------------------------------------------------
(* The reaper *)

\* ORDER BY expires_at LIMIT batch_size, rows that are locked passed over
Batches ==
    LET eligible == {t \in TtlTags : Expired(t) /\ ~RowLocked(t)}
    IN  {B \in SUBSET eligible :
            /\ Cardinality(B) <= BatchSize
            /\ B = eligible \/ Cardinality(B) = BatchSize
            /\ \A t \in B, u \in eligible \ B : row[t].expires <= row[u].expires}

\* reap_one_cycle: the locks of the select end with its own transaction.
SelectCandidates(x) ==
    /\ reaper[x].pc = "sleep" /\ control[x] = "running"
    /\ \E B \in Batches \ {{}} :
          reaper' = [reaper EXCEPT ![x] = [pc |-> "cycle", todo |-> B, tag |-> NoPush]]
    /\ UNCHANGED <<now, link, row, push, control, crossed, ttlFaults>>

EndCycle(x) ==
    /\ reaper[x].pc = "cycle" /\ (reaper[x].todo = {} \/ control[x] # "running")
    /\ reaper' = [reaper EXCEPT ![x] = Sleeping]
    /\ UNCHANGED <<now, link, row, push, control, crossed, ttlFaults>>

\* the expiry of the row is not looked at again
StillThere(t) == row[t].by # NoPush

StillExpired(t) == Expired(t)

\* reap_tag waits for the lock of the row, and gives up if the row is gone or has a later
\* expiry by now
LockRow(x, t) ==
    /\ reaper[x].pc = "cycle" /\ control[x] = "running" /\ t \in reaper[x].todo /\ ~RowLocked(t)
    /\ reaper' = [reaper EXCEPT ![x] = [pc |-> IF StillExpired(t) THEN "link" ELSE "cycle",
                                        todo |-> @.todo \ {t},
                                        tag |-> IF StillExpired(t) THEN t ELSE NoPush]]
    /\ UNCHANGED <<now, link, row, push, control, crossed, ttlFaults>>

\* reap_tag returns: the lock is gone
Unlocked(x) == [reaper[x] EXCEPT !.pc = "cycle", !.tag = NoPush]

\* a link that is already gone is an error
OnlyPresent(t) == link[t] # NoPush

\* a link that is already gone is as good as deleted
Deletable(t) == TRUE

\* The link is whatever the store holds by now, that of a push before its upsert included.
DeleteLink(x) ==
    /\ reaper[x].pc = "link"
    /\ LET t == reaper[x].tag
       IN  /\ link' = [link EXCEPT ![t] = NoPush]
           /\ crossed' = crossed \cup {p \in Pushes : push[p].pc = "row" /\ link[t] = p}
           /\ reaper' = [reaper EXCEPT ![x] = IF Deletable(t) THEN [@ EXCEPT !.pc = "row"] ELSE Unlocked(x)]
    /\ UNCHANGED <<now, row, push, control, ttlFaults>>

DeleteRow(x) ==
    /\ reaper[x].pc = "row"
    /\ row' = [row EXCEPT ![reaper[x].tag] = NoRow]
    /\ reaper' = [reaper EXCEPT ![x] = Unlocked(x)]
    /\ UNCHANGED <<now, link, push, control, crossed, ttlFaults>>

\* A call fails: the transaction is rolled back and the cycle goes on.
ReapFails(x) ==
    /\ reaper[x].pc \in {"link", "row"}
    /\ reaper' = [reaper EXCEPT ![x] = Unlocked(x)]
    /\ UNCHANGED <<now, link, row, push, control, crossed>>

\* The process restarts, with a new TtlReaperControl.
RestartReaper(x) ==
    /\ reaper' = [reaper EXCEPT ![x] = Sleeping]
    /\ control' = [control EXCEPT ![x] = "running"]
    /\ UNCHANGED <<now, link, row, push, crossed>>

\* ttl_pause, ttl_resume and the shutdown
SetControl(x) ==
    /\ control[x] # "stopped"
    /\ \E c \in {"running", "paused", "stopped"} \ {control[x]} : control' = [control EXCEPT ![x] = c]
    /\ UNCHANGED <<now, link, row, push, reaper, crossed>>

Advance ==
    /\ now < MaxTime
    /\ now' = now + 1
    /\ UNCHANGED <<link, row, push, reaper, control, crossed, ttlFaults>>

ReaperStep(x) ==
    \/ SelectCandidates(x) \/ EndCycle(x) \/ DeleteLink(x) \/ DeleteRow(x)
    \/ \E t \in TtlTags : LockRow(x, t)

TtlFault ==
    /\ ttlFaults < MaxTtlFaults
    /\ ttlFaults' = ttlFaults + 1
    /\ \/ \E x \in Reapers : ReapFails(x) \/ RestartReaper(x) \/ SetControl(x)
       \/ \E p \in Pushes : UpsertFails(p)

TtlNext ==
    \/ \E p \in Pushes : StartPush(p) \/ WriteLink(p) \/ UpsertRow(p)
    \/ (\E x \in Reapers : ReaperStep(x)) \/ Advance \/ TtlFault

\* A reaper wakes up after every idle_sleep.
TtlFairness == \A x \in Reapers : WF_ttlVars(ReaperStep(x))

TtlSpec == TtlInit /\ [][TtlNext]_ttlVars /\ TtlFairness
-----------------------------------------------------------------------------
(* Properties *)

\* put_manifest answered with the expiry of its row, and it has not come.
Lives(p) == push[p].pc = "done" /\ Ttl[p] # NoTtl /\ push[p].expires >= now

\* A push with a TTL, alone on its tag, has its link when it is answered and keeps it until
\* its own TTL has passed or another push replaces it: no candidate list drawn up before
\* it, no other replica and no reap that was waiting or was interrupted takes the link away
\* (the second look of reap_tag under the lock).  The exception is a reaper that held the
\* expired row of an earlier push: it deletes the link this push wrote before its upsert,
\* and the push is answered without one.
LivePushKeepsLink ==
    [][\A p \in Pushes : p \notin crossed' /\ Lives(p)' =>
          IF push[p].pc = "done" THEN link[TagOf[p]] = p => link'[TagOf[p]] # NoPush
          ELSE link'[TagOf[p]] = p]_ttlVars

\* An expired tag is reaped, or pushed again, unless every reaper is paused or stopped: a
\* failed delete, a crash between the link and the row, a row that another reaper has and
\* a batch that other tags fill only delay it (reap_one_cycle).
ExpiredIsReaped ==
    \A t \in TtlTags : Expired(t) ~> (~Expired(t) \/ \A x \in Reapers : control[x] # "running")
=============================================================================
