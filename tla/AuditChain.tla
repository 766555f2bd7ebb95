------------------------------ MODULE AuditChain ------------------------------
(***************************************************************************)
(* The registry's audit log: RegistryAuditLog.record in front of the       *)
(* hash-chained sink (PgChainedAudit statement by statement under READ     *)
(* COMMITTED, InMemoryAudit under its write lock), verify_chain, and the   *)
(* exporters that write Merkle checkpoints.                                *)
(*                                                                         *)
(* A hash is what it was computed from: HMAC and SHA-256 are taken to be   *)
(* injective, so a row_hash is named by the id of its row and 0 is         *)
(* GENESIS_PREV.  The dashboard's ring buffer, filters and wording are     *)
(* left out.  rotate_key has no caller: keys change over a restart.        *)
(***************************************************************************)
EXTENDS Integers, Sequences

CONSTANTS Exporters,  \* the export loop and POST /v2/_audit/export handlers
          Tasks,      \* request handlers that record an event
          Keys,       \* hmac_key_id values
          Fractions,  \* nanoseconds below a microsecond an event's `at` may have
          MaxRows,    \* bound: values drawn from the id sequence
          MaxFaults   \* bound: restarts, failed exports and ranged exports

ASSUME AuditAssumption ==
    /\ Keys # {} /\ Fractions \subseteq Nat /\ Fractions # {}
    /\ MaxRows \in Nat /\ MaxFaults \in Nat

VARIABLES backend,    \* AuditConfig.backend
          log,        \* committed rows by id
          seq,        \* last value drawn from the BIGSERIAL sequence
          active,     \* Keyring.active_id, the only key a started process holds
          keyRows,    \* registry_audit_keys
          tx,         \* where each append is
          last,       \* range_to of the newest checkpoint, 0 for none
          exported,   \* ids written to the export destination
          exp,        \* where each exporter is
          overlap,    \* history: an append committed inside another's window
          late,       \* history: ids committed after a higher id
          faults,     \* restarts, failed exports and ranged exports so far
          ranged      \* history: a ranged export was asked for

vars == <<backend, log, seq, active, keyRows, tx, last, exported, exp,
          overlap, late, faults, ranged>>
appendVars == <<log, seq, active, keyRows, tx, overlap, late>>
exportVars == <<last, exported, exp, faults, ranged>>

\* is_write; pulls, which are sampled, and everything else.
Ids == DOMAIN log

\* The newest of a set of ids, 0 when there is none.
Newest(S) == IF S = {} THEN 0 ELSE CHOOSE i \in S : \A j \in S : j <= i

IdleTx == [pc |-> "idle", tip |-> 0, id |-> 0]
IdleExport == [pc |-> "idle", from |-> 0, to |-> 0, rows |-> <<>>]

\* What TIMESTAMPTZ keeps of an instant: whole microseconds.
Stored(at) == IF backend = "postgres" THEN 0 ELSE at

Init ==
    /\ backend \in {"memory", "postgres"}
    /\ log = <<>> /\ seq = 0
    /\ active = (CHOOSE k \in Keys : TRUE) /\ keyRows = {active}
    /\ tx = [t \in Tasks |-> IdleTx]
    /\ last = 0 /\ exported = {}
    /\ exp = [x \in Exporters |-> IdleExport]
    /\ overlap = FALSE /\ late = {} /\ faults = 0 /\ ranged = FALSE

(***************************************************************************)
(* record and append.                                                      *)
(***************************************************************************)
\* An event is recorded.  Its kind matters when the append fails, its time
\* when the row is stored, and its key is the one the process started with.
\* SELECT ... ORDER BY id DESC LIMIT 1 picks its row from a snapshot ...
SelectTip(t) ==
    /\ backend = "postgres" /\ tx[t].pc = "idle"
    /\ tx' = [tx EXCEPT ![t].pc = "waiting", ![t].tip = Newest(Ids)]
    /\ UNCHANGED <<backend, log, seq, active, keyRows, overlap, late>>
    /\ UNCHANGED exportVars

Holds(t, id) == tx[t].pc \in {"locked", "inserted"} /\ tx[t].tip = id /\ id # 0

\* Mutant: the tip's hash is lost and the genesis value used for it.
LockTipForgets(t) ==
    /\ tx[t].pc = "waiting"
    /\ \A u \in Tasks : ~Holds(u, tx[t].tip)
    /\ tx' = [tx EXCEPT ![t].pc = "locked", ![t].tip = 0]
    /\ UNCHANGED <<backend, log, seq, active, keyRows, overlap, late>>
    /\ UNCHANGED exportVars

\* ... and FOR UPDATE waits for that row.  The holder inserted a row and did
\* not change this one, so it is returned as it was picked.
LockTip(t) ==
    /\ tx[t].pc = "waiting"
    /\ \A u \in Tasks : ~Holds(u, tx[t].tip)
    /\ tx' = [tx EXCEPT ![t].pc = "locked"]
    /\ UNCHANGED <<backend, log, seq, active, keyRows, overlap, late>>
    /\ UNCHANGED exportVars

\* INSERT draws the id; hmac_key_id references registry_audit_keys.
Insert(t) ==
    /\ tx[t].pc = "locked" /\ seq < MaxRows
    /\ active \in keyRows
    /\ seq' = seq + 1
    /\ tx' = [tx EXCEPT ![t].pc = "inserted", ![t].id = seq + 1]
    /\ UNCHANGED <<backend, log, active, keyRows, overlap, late>>
    /\ UNCHANGED exportVars

WithRow(id, prev, at) ==
    [i \in Ids \cup {id} |-> IF i = id THEN [prev |-> prev, key |-> active, at |-> at]
                             ELSE log[i]]

Commit(t, at) ==
    /\ tx[t].pc = "inserted"
    /\ log' = WithRow(tx[t].id, tx[t].tip, at)
    /\ late' = IF Newest(Ids) > tx[t].id THEN late \cup {tx[t].id} ELSE late
    /\ overlap' = (overlap \/ \E u \in Tasks \ {t} :
                                 tx[u].pc \in {"waiting", "locked", "inserted"})
    /\ tx' = [tx EXCEPT ![t] = IdleTx]
    /\ UNCHANGED <<backend, seq, active, keyRows>>
    /\ UNCHANGED exportVars

\* InMemoryAudit.append holds the write lock from the tip to the push.
AppendMemory(at) ==
    /\ backend = "memory" /\ seq < MaxRows
    /\ seq' = seq + 1
    /\ log' = WithRow(seq + 1, Newest(Ids), at)
    /\ UNCHANGED <<backend, active, keyRows, tx, overlap, late>>
    /\ UNCHANGED exportVars

\* The transaction fails: record returns, with an error or without.
AppendFails(t) ==
    /\ tx[t].pc # "idle"
    /\ tx' = [tx EXCEPT ![t] = IdleTx]
    /\ UNCHANGED <<backend, log, seq, active, keyRows, overlap, late>>
    /\ UNCHANGED exportVars

(***************************************************************************)
(* verify_chain over [from, to]: the first row that does not fit, 0 if all *)
(* do, -1 when a key is missing.                                           *)
(***************************************************************************)
\* The row before id, as the walk in id order meets it.
Before(id) == Newest({i \in Ids : i < id})

\* The stored prev_hash is not the hash of the row before.
Unlinked(id) == log[id].prev # Before(id)

\* The hash was computed over `at`, the recomputation sees what was stored.
Cut(id) == Stored(log[id].at) # log[id].at

VerifyChain(from, to) ==
    LET walk == {i \in Ids : from <= i /\ i <= to}
        bad  == {i \in walk : log[i].key # active \/ Unlinked(i) \/ Cut(i)}
        b    == CHOOSE i \in bad : \A j \in bad : i <= j
    IN IF bad = {} THEN 0 ELSE IF log[b].key # active THEN -1 ELSE b

(***************************************************************************)
(* export_pending (the loop, or POST /v2/_audit/export) and export_range.  *)
(***************************************************************************)
Fault == faults < MaxFaults /\ faults' = faults + 1
ExportStep(x, e) == exp' = [exp EXCEPT ![x] = e]

\* Mutant: the range begins one too late.
BeginPendingLate(x) ==
    /\ exp[x].pc = "idle"
    /\ ExportStep(x, [IdleExport EXCEPT !.pc = "tip", !.from = last + 2])
    /\ UNCHANGED <<backend, last, exported, faults, ranged>>
    /\ UNCHANGED appendVars

BeginPending(x) ==
    /\ exp[x].pc = "idle"
    /\ ExportStep(x, [IdleExport EXCEPT !.pc = "tip", !.from = last + 1])
    /\ UNCHANGED <<backend, last, exported, faults, ranged>>
    /\ UNCHANGED appendVars

\* Mutant: a range of a single row counts as empty.
ReadTipStrictly(x) ==
    /\ exp[x].pc = "tip"
    /\ IF Newest(Ids) <= exp[x].from
       THEN ExportStep(x, IdleExport)
       ELSE ExportStep(x, [exp[x] EXCEPT !.pc = "get", !.to = Newest(Ids)])
    /\ UNCHANGED <<backend, last, exported, faults, ranged>>
    /\ UNCHANGED appendVars

\* tip_id; Empty when there is no newer row.
ReadTip(x) ==
    /\ exp[x].pc = "tip"
    /\ IF Newest(Ids) < exp[x].from
       THEN ExportStep(x, IdleExport)
       ELSE ExportStep(x, [exp[x] EXCEPT !.pc = "get", !.to = Newest(Ids)])
    /\ UNCHANGED <<backend, last, exported, faults, ranged>>
    /\ UNCHANGED appendVars

\* Both bounds in the request body; only an administrator asks.
BeginRange(x, from, to) ==
    /\ exp[x].pc = "idle" /\ from <= to
    /\ ExportStep(x, [IdleExport EXCEPT !.pc = "get", !.from = from, !.to = to])
    /\ Fault /\ ranged' = TRUE
    /\ UNCHANGED <<backend, last, exported>>
    /\ UNCHANGED appendVars

\* export_range gets one id at a time; an id that is not there is skipped.
GetRow(x) ==
    LET e == exp[x]
        found == IF e.from \in Ids THEN Append(e.rows, e.from) ELSE e.rows
    IN /\ e.pc = "get"
       /\ ExportStep(x, IF e.from < e.to
                        THEN [e EXCEPT !.from = @ + 1, !.rows = found]
                        ELSE IF found = <<>> THEN IdleExport
                        ELSE [e EXCEPT !.pc = "put", !.rows = found])
       /\ UNCHANGED <<backend, last, exported, faults, ranged>>
       /\ UNCHANGED appendVars

PutObject(x) ==
    /\ exp[x].pc = "put"
    /\ exported' = exported \cup {exp[x].rows[i] : i \in 1..Len(exp[x].rows)}
    /\ ExportStep(x, [exp[x] EXCEPT !.pc = "mark"])
    /\ UNCHANGED <<backend, last, faults, ranged>>
    /\ UNCHANGED appendVars

\* The checkpoint's foreign keys wait for an append that holds either row.
InsertCheckpoint(x) ==
    /\ exp[x].pc = "mark"
    /\ \A t \in Tasks : /\ ~Holds(t, Head(exp[x].rows))
                        /\ ~Holds(t, exp[x].rows[Len(exp[x].rows)])
    /\ last' = exp[x].rows[Len(exp[x].rows)]
    /\ ExportStep(x, IdleExport)
    /\ UNCHANGED <<backend, exported, faults, ranged>>
    /\ UNCHANGED appendVars

\* The destination or the database fails, or the request is dropped.
ExportFails(x) ==
    /\ exp[x].pc # "idle" /\ Fault
    /\ ExportStep(x, IdleExport)
    /\ UNCHANGED <<backend, last, exported, ranged>>
    /\ UNCHANGED appendVars

(***************************************************************************)
(* The process stops and starts again with the key of its configuration:   *)
(* Keyring::single, ensure_key_row.  Open transactions roll back; the      *)
(* memory backend starts empty.                                            *)
(***************************************************************************)
Restart(key) ==
    /\ Fault
    /\ active' = key /\ keyRows' = keyRows \cup {key}
    /\ tx' = [t \in Tasks |-> IdleTx]
    /\ exp' = [x \in Exporters |-> IdleExport]
    /\ IF backend = "memory"
       THEN log' = <<>> /\ seq' = 0 /\ last' = 0 /\ exported' = {}
       ELSE UNCHANGED <<log, seq, last, exported>>
    /\ UNCHANGED <<backend, overlap, late, ranged>>

Next ==
    \/ \E t \in Tasks :
          \/ SelectTip(t) \/ LockTip(t) \/ Insert(t)
          \/ \E at \in Fractions : Commit(t, at)
          \/ AppendFails(t)
    \/ \E at \in Fractions : AppendMemory(at)
    \/ \E x \in Exporters :
          \/ BeginPending(x) \/ ReadTip(x) \/ GetRow(x) \/ PutObject(x)
          \/ InsertCheckpoint(x) \/ ExportFails(x)
          \/ \E from, to \in 1..MaxRows : BeginRange(x, from, to)
    \/ \E key \in Keys : Restart(key)

\* The export loop ticks for ever, a transaction that holds a row ends, and
\* Postgres grants row locks in the order they were asked for.
Fairness ==
    /\ \A x \in Exporters :
          /\ WF_vars(BeginPending(x) \/ ReadTip(x) \/ GetRow(x) \/ PutObject(x))
          /\ SF_vars(InsertCheckpoint(x))
    /\ \A t \in Tasks : 
          WF_vars(Insert(t) \/ (\E at \in Fractions : Commit(t, at))
                            \/ AppendFails(t))

Spec == Init /\ [][Next]_vars /\ Fairness

-----------------------------------------------------------------------------
TypeOK ==
    /\ backend \in {"memory", "postgres"}
    /\ seq \in 0..MaxRows /\ Ids \subseteq 1..seq
    /\ \A i \in Ids : log[i] \in [prev : 0..(i - 1), key : keyRows, at : Fractions]
    /\ active \in keyRows /\ keyRows \subseteq Keys
    /\ tx \in [Tasks -> [pc : {"idle", "waiting", "locked", "inserted"},
                         tip : 0..MaxRows, id : 0..MaxRows]]
    /\ last \in Ids \cup {0} /\ exported \subseteq Ids
    /\ \A x \in Exporters :
          /\ exp[x].pc \in {"idle", "tip", "get", "put", "mark"}
          /\ \A i \in 1..Len(exp[x].rows) : exp[x].rows[i] \in Ids
    /\ overlap \in BOOLEAN /\ late \subseteq Ids
    /\ faults \in 0..MaxFaults /\ ranged \in BOOLEAN

\* verify_chain stops at a row only for a reason its data shows: a key the
\* process does not hold, an instant cut by the column type, or appends that
\* overlapped.  Rows that were appended one after another are linked.
BreaksAreExplained ==
    \A from \in 1..seq, to \in 1..seq :
        LET b == VerifyChain(from, to)
        IN b > 0 => overlap \/ Cut(b)

\* export_pending goes on after the newest checkpoint: a row that is below it
\* and was not exported had its id overtaken by a later commit, or an
\* administrator exported a range.
OnlyLateRowsAreSkipped ==
    \A i \in Ids : i <= last /\ i \notin exported => i \in late \/ ranged

\* Whenever appends pause for long enough the export catches up: there is no
\* row that stays behind for ever, other than those that are skipped.
ExportCatchesUp == []<>(\A i \in Ids : i \in exported \/ i \in late \/ ranged)
=============================================================================
