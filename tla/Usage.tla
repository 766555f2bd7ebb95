------------------------------- MODULE Usage --------------------------------
(***************************************************************************)
(* Usage telemetry of specton-cost: requests are recorded in an unlogged   *)
(* staging table, a drainer moves them to usage_events, and the rollup of  *)
(* every replica sums recent events per hour and hours per day.  Time is   *)
(* in ticks, TicksPerHour to the hour; the bytes of an event are 1.        *)
(***************************************************************************)
EXTENDS Naturals

CONSTANTS
    Rollers,        \* replicas that run the rollup
    TicksPerHour,
    HoursPerDay,
    WindowTicks,    \* the two hours of rollup_recent
    MaxTick,        \* the clock stops here
    MaxUsage,       \* recorded requests
    MaxDbFaults     \* crashes of the database server and failed statements

ASSUME UsageAssumption ==
    /\ TicksPerHour \in Nat \ {0} /\ HoursPerDay \in Nat \ {0}
    /\ WindowTicks \in Nat /\ MaxTick \in Nat /\ MaxUsage \in Nat /\ MaxDbFaults \in Nat

VARIABLES
    clock,
    recorded,   \* history: the tick of each recorded request
    staging,    \* usage_events_staging
    durable,    \* usage_events
    hourly,     \* usage_hourly
    daily,      \* usage_daily
    roller,     \* the statement each rollup has under way: the sums of its snapshot
    dbFaults

usageVars == <<clock, recorded, staging, durable, hourly, daily, roller, dbFaults>>

Ticks == 0..MaxTick
HourOf(tick) == tick \div TicksPerHour
DayOf(hour) == hour \div HoursPerDay
Hours == {HourOf(k) : k \in Ticks}
Days == {DayOf(h) : h \in Hours}

\* the sum of f, a function on 0..n, over S
SumOver(f, S, n) ==
    LET sum[k \in 0..n] == (IF k \in S THEN f[k] ELSE 0) + (IF k = 0 THEN 0 ELSE sum[k - 1])
    IN  sum[n]

\* events of an hour, out of the counts of each tick
HourTotal(events, h, from) ==
    SumOver(events, {k \in (h * TicksPerHour)..((h + 1) * TicksPerHour - 1) : k >= from}, MaxTick)

DayTotal(totals, d) == SumOver(totals, {h \in Hours : DayOf(h) = d}, HourOf(MaxTick))

NoStatement == [pc |-> "idle", sums |-> <<>>]

UsageInit ==
    /\ clock = 0
    /\ recorded = [k \in Ticks |-> 0]
    /\ staging = [k \in Ticks |-> 0]
    /\ durable = [k \in Ticks |-> 0]
    /\ hourly = [h \in Hours |-> 0]
    /\ daily = [d \in Days |-> 0]
    /\ roller = [r \in Rollers |-> NoStatement]
    /\ dbFaults = 0

TickOn ==
    /\ clock < MaxTick
    /\ clock' = clock + 1
    /\ UNCHANGED <<recorded, staging, durable, hourly, daily, roller, dbFaults>>

\* PgUsageRecorder::record inserts an event of tick k
InsertStaging(k) ==
    /\ recorded' = [recorded EXCEPT ![k] = @ + 1]
    /\ staging' = [staging EXCEPT ![k] = @ + 1]
    /\ UNCHANGED <<clock, durable, hourly, daily, roller, dbFaults>>

\* record_usage stamps the event and leaves the insert to a task, which may be late
RecordUsage ==
    /\ SumOver(recorded, Ticks, MaxTick) < MaxUsage
    /\ \E k \in 0..clock : InsertStaging(k)

\* drain_one_cycle: rows leave staging and enter usage_events in one statement
Drain(k) ==
    /\ staging[k] > 0 /\ \A j \in 0..(k - 1) : staging[j] = 0
    /\ staging' = [staging EXCEPT ![k] = 0]
    /\ durable' = [durable EXCEPT ![k] = @ + staging[k]]
    /\ UNCHANGED <<clock, recorded, hourly, daily, roller, dbFaults>>

\* An unlogged table is empty after a crash of the server.
CrashDb ==
    /\ dbFaults < MaxDbFaults
    /\ dbFaults' = dbFaults + 1
    /\ staging' = [k \in Ticks |-> 0]
    /\ recorded' = [k \in Ticks |-> recorded[k] - staging[k]]
    /\ roller' = [r \in Rollers |-> NoStatement]
    /\ UNCHANGED <<clock, durable, hourly, daily>>

WindowStart == IF clock < WindowTicks THEN 0 ELSE clock - WindowTicks

\* ON CONFLICT DO NOTHING
KeepTotal(old, sum) == IF old > 0 THEN old ELSE sum

\* ON CONFLICT DO UPDATE: the sum replaces the total; an hour without events in the
\* window has no group and keeps its row
Upsert(old, sum) == IF sum > 0 THEN sum ELSE old

WriteHours(r) ==
    /\ roller[r].pc = "hourly"
    /\ hourly' = [h \in Hours |-> Upsert(hourly[h], roller[r].sums[h])]
    /\ roller' = [roller EXCEPT ![r] = [pc |-> "daily", sums |-> <<>>]]
    /\ UNCHANGED <<clock, recorded, staging, durable, daily, dbFaults>>

\* the daily statement: whole days, the present one and the one before
DailyTotals ==
    LET today == DayOf(HourOf(clock))
    IN  [d \in Days |-> IF d + 1 >= today THEN Upsert(daily[d], DayTotal(hourly, d)) ELSE daily[d]]

\* rollup_recent: the first statement reads its snapshot, one group per hour with events.
\* The daily one follows even when there is no group; a pass with no group and no day to
\* change is left out.
ReadWindow(r) ==
    /\ roller[r].pc = "idle"
    /\ LET sums == [h \in Hours |-> HourTotal(durable, h, WindowStart)]
       IN  /\ (\E h \in Hours : sums[h] > 0) \/ DailyTotals # daily
           /\ roller' = [roller EXCEPT ![r] = [pc |-> "hourly", sums |-> sums]]
    /\ UNCHANGED <<clock, recorded, staging, durable, hourly, daily, dbFaults>>

WriteDays(r) ==
    /\ roller[r].pc = "daily"
    /\ daily' = DailyTotals
    /\ roller' = [roller EXCEPT ![r] = NoStatement]
    /\ UNCHANGED <<clock, recorded, staging, durable, hourly, dbFaults>>

\* A statement that fails ends the pass; run tries again after its interval.
StatementFails(r) ==
    /\ roller[r].pc # "idle" /\ dbFaults < MaxDbFaults
    /\ dbFaults' = dbFaults + 1
    /\ roller' = [roller EXCEPT ![r] = NoStatement]
    /\ UNCHANGED <<clock, recorded, staging, durable, hourly, daily>>

Drains == \E k \in Ticks : Drain(k)
RollupStep(r) == ReadWindow(r) \/ WriteHours(r) \/ WriteDays(r)

UsageNext ==
    \/ TickOn \/ RecordUsage \/ CrashDb \/ Drains
    \/ \E r \in Rollers : RollupStep(r) \/ StatementFails(r)

\* The drainer and the rollups run on their intervals.
UsageFairness == WF_usageVars(Drains) /\ \A r \in Rollers : WF_usageVars(RollupStep(r))

UsageSpec == UsageInit /\ [][UsageNext]_usageVars /\ UsageFairness
-----------------------------------------------------------------------------
(* Properties *)

\* When the requests end, every hour that lies in the window as a whole is counted in
\* full and stays so while it is in the window: events drained late, failed statements and
\* a rollup that wrote the sums of an older snapshot over newer ones are made good.  The
\* clock stops at MaxTick; what a late pass does to an hour that the window only half
\* covers is not asked.
RecentHoursConverge ==
    <>[](\A h \in Hours : h * TicksPerHour >= WindowStart => hourly[h] = HourTotal(recorded, h, 0))
=============================================================================
