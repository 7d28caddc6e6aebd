---------------------------- MODULE CollectorCycle ----------------------------
(***************************************************************************)
(* The collector daemon in time: run_forever and collect_once              *)
(* (collector.py), the cache of the synthetic path probes (probes.py), the *)
(* pruning of old rows, the loss of whole batches, crashes, and a wall     *)
(* clock that is set; and what the dashboard makes of the rows it finds    *)
(* (web.py, store.py).                                                     *)
(*                                                                         *)
(* Schedules run on time.monotonic(), timestamps come from time.time().    *)
(* Both are told apart without absolute times: `offset` is how far the     *)
(* wall clock has been set away from the monotonic one, and a stamp keeps  *)
(* the offset at which it was taken and the real age it has reached since. *)
(* Ages stop at Cap, where everything is stale.                            *)
(*                                                                         *)
(* Of the components of a cycle two are told apart: the ones that report   *)
(* in every cycle, stamped when the cycle begins, of which the counters    *)
(* have to be in time order; and the required path, which reports only     *)
(* when it is probed.                                                      *)
(***************************************************************************)
EXTENDS Integers

CONSTANTS
    Interval,    \* interval_seconds
    ProbeEvery,  \* probe_minimum_interval_seconds
    MinFresh,    \* 600 seconds
    MaxFresh,    \* 172800 seconds
    PruneEvery,  \* retention_prune_interval_seconds
    RawKeep,     \* raw_retention_days
    StaleAfter,  \* 300 seconds: "Collector data is stale"
    Skew,        \* 60 seconds: how far ahead a stamp may be
    MaxCycle,    \* the longest one collect_once may take
    Offsets,     \* bound: how far the wall clock may be set away
    Spread,      \* by how much two of these differ at most
    Cap,         \* bound: the age at which everything is stale
    NoRow        \* a row that is not there

ASSUME ScheduleAssumption ==
    /\ Interval \in Nat \ {0} /\ ProbeEvery \in Nat \ {0}
    /\ PruneEvery \in Nat \ {0} /\ RawKeep \in Nat
    /\ MinFresh \in Nat /\ MaxFresh \in Nat /\ MinFresh <= MaxFresh
    /\ StaleAfter \in Nat /\ Skew \in Nat /\ MaxCycle \in Nat
ASSUME ClockAssumption ==
    /\ Offsets \subseteq Int /\ 0 \in Offsets
    /\ Spread \in Nat /\ \A a, b \in Offsets : a - b <= Spread

\* fresh_for_seconds, as the collector writes it into every path row.
FreshFor ==
    LET wanted == IF 2 * ProbeEvery > MinFresh THEN 2 * ProbeEvery ELSE MinFresh
    IN  IF wanted < MaxFresh THEN wanted ELSE MaxFresh

\* An age at the cap stays beyond every threshold however the clock is set.
ASSUME CapAssumption ==
    /\ Cap \in Nat
    /\ \A limit \in {FreshFor, StaleAfter, RawKeep, MaxCycle} :
          Cap > limit + Spread
ASSUME NoRowAssumption ==
    NoRow \notin [real : 0..Cap, off : Offsets]
            \cup [at : [real : 0..Cap, off : Offsets], ok : BOOLEAN]

VARIABLES
    pc,         \* the next step of the cycle; "wait" between cycles, or "down"
    sinceStart, \* monotonic time since the cycle began
    sinceProbe, \* since PathProbeCollector._last_attempt, ProbeEvery when due
    sincePrune, \* since _last_retention_attempt, PruneEvery when due
    offset,     \* wall clock minus monotonic clock
    batch,      \* the rows collected in this cycle
    rows,       \* the newest rows of health_samples
    cursor,     \* the stamp of the counters in counter_cursors
    pathUp,     \* whether the required path really works
    deadFor,    \* ghost: how long it has not worked
    calm        \* ghost: how long nothing has gone wrong

process == <<pc, sinceStart, sinceProbe, sincePrune, batch>>
database == <<rows, cursor>>
world == <<offset, pathUp>>
ghosts == <<deadFor, calm>>
vars == <<process, world, database, ghosts>>

Lesser(a, b) == IF a < b THEN a ELSE b
Greater(a, b) == IF a < b THEN b ELSE a

Stamp == [real : 0..Cap, off : Offsets]
Report == [cycle : Stamp \cup {NoRow}, path : [at : Stamp, ok : BOOLEAN] \cup {NoRow}]
NoReport == [cycle |-> NoRow, path |-> NoRow]

\* From the end of whatever went wrong to a newer row of the path.
Settle == ProbeEvery + Greater(Interval, MaxCycle) + MaxCycle

TypeOK ==
    /\ pc \in {"down", "probe", "retain", "record", "wait"}
    /\ sinceStart \in 0..Greater(Interval, MaxCycle)
    /\ sinceProbe \in 0..ProbeEvery
    /\ sincePrune \in 0..PruneEvery
    /\ offset \in Offsets
    /\ batch \in Report
    /\ pc \in {"probe", "retain", "record"} => batch.cycle # NoRow
    /\ rows \in Report
    /\ cursor \in Stamp \cup {NoRow}
    /\ pathUp \in BOOLEAN
    /\ deadFor \in 0..Cap
    /\ calm \in 0..(Settle + 1)

Init ==
    /\ pc = "wait" /\ sinceStart = Interval
    /\ sinceProbe = ProbeEvery /\ sincePrune = PruneEvery
    /\ offset = 0
    /\ batch = NoReport
    /\ rows = NoReport /\ cursor = NoRow
    /\ pathUp \in BOOLEAN
    /\ deadFor = 0 /\ calm = 0

----------------------------------------------------------------------------
(* Time and stamps. *)

Now == [real |-> 0, off |-> offset]

\* time.time() - observed_at
WallAge(stamp) == stamp.real + offset - stamp.off

\* observed_at, up to a common constant
WallTime(stamp) == stamp.off - stamp.real

Older(stamp) == [stamp EXCEPT !.real = Lesser(@ + 1, Cap)]

OlderReport(report) ==
    [cycle |-> IF report.cycle = NoRow THEN NoRow ELSE Older(report.cycle),
     path  |-> IF report.path = NoRow THEN NoRow
               ELSE [report.path EXCEPT !.at = Older(@)]]

(***************************************************************************)
(* One tick of both clocks.  stop.wait ends when the interval is over, and *)
(* every collector in a cycle has its timeouts.                            *)
(***************************************************************************)
Tick ==
    /\ \/ pc = "down"
       \/ pc = "wait" /\ sinceStart < Interval
       \/ pc \in {"probe", "retain", "record"} /\ sinceStart < MaxCycle
    /\ sinceStart' = IF pc = "down" THEN sinceStart ELSE sinceStart + 1
    /\ sinceProbe' = Lesser(sinceProbe + 1, ProbeEvery)
    /\ sincePrune' = Lesser(sincePrune + 1, PruneEvery)
    /\ batch' = OlderReport(batch)
    /\ rows' = OlderReport(rows)
    /\ cursor' = IF cursor = NoRow THEN NoRow ELSE Older(cursor)
    /\ deadFor' = IF pathUp THEN 0 ELSE Lesser(deadFor + 1, Cap)
    /\ calm' = IF pc = "down" THEN 0 ELSE Lesser(calm + 1, Settle + 1)
    /\ UNCHANGED <<pc, world>>

\* NTP, or somebody, sets the wall clock.
SetClock(to) ==
    /\ offset # to
    /\ offset' = to
    /\ calm' = 0
    /\ UNCHANGED <<process, database, pathUp, deadFor>>

\* The path starts or stops working.
PathChange ==
    /\ pathUp' = ~ pathUp
    /\ deadFor' = 0 /\ calm' = 0
    /\ UNCHANGED <<process, offset, database>>

----------------------------------------------------------------------------
(* One cycle. *)

\* The wait is over: collect_once reads the clock and the counters.
StartCycle ==
    /\ pc = "wait"
    /\ sinceStart >= Interval
    /\ pc' = "probe"
    /\ sinceStart' = 0
    /\ batch' = [cycle |-> Now, path |-> NoRow]
    /\ UNCHANGED <<sinceProbe, sincePrune, world, database, ghosts>>

\* Mutant of Probe: when it is not due, the last verdict is stamped anew.
ProbeRestamping ==
    /\ pc = "probe"
    /\ pc' = "retain"
    /\ IF sinceProbe = ProbeEvery
       THEN /\ sinceProbe' = 0
            /\ batch' = [batch EXCEPT !.path = [at |-> Now, ok |-> pathUp]]
       ELSE /\ sinceProbe' = sinceProbe
            /\ batch' = [batch EXCEPT !.path =
                           IF rows.path = NoRow THEN NoRow
                           ELSE [rows.path EXCEPT !.at = Now]]
    /\ UNCHANGED <<sinceStart, sincePrune, world, database, ghosts>>

(***************************************************************************)
(* PathProbeCollector.collect: nothing before the minimum interval is      *)
(* over; otherwise the attempt counts from now on, also when a probe       *)
(* raises and collect_once reports the path as unavailable.                *)
(***************************************************************************)
Probe ==
    /\ pc = "probe"
    /\ pc' = "retain"
    /\ \/ /\ sinceProbe < ProbeEvery
          /\ UNCHANGED <<sinceProbe, batch, calm>>
       \/ /\ sinceProbe = ProbeEvery
          /\ sinceProbe' = 0
          /\ \/ /\ batch' = [batch EXCEPT !.path = [at |-> Now, ok |-> pathUp]]
                /\ calm' = calm
             \/ /\ batch' = [batch EXCEPT !.path = [at |-> Now, ok |-> FALSE]]
                /\ calm' = 0
    /\ UNCHANGED <<sinceStart, sincePrune, world, database, deadFor>>

\* DELETE FROM health_samples WHERE observed_at < now - raw_retention_days
Pruned(report) ==
    [cycle |-> IF report.cycle = NoRow \/ WallAge(report.cycle) > RawKeep
               THEN NoRow ELSE report.cycle,
     path  |-> IF report.path = NoRow \/ WallAge(report.path.at) > RawKeep
               THEN NoRow ELSE report.path]

\* The attempt is noted first: a failed retention is not tried again earlier.
Retain ==
    /\ pc = "retain"
    /\ pc' = "record"
    /\ \/ /\ sincePrune < PruneEvery
          /\ UNCHANGED <<sincePrune, rows>>
       \/ /\ sincePrune = PruneEvery
          /\ sincePrune' = 0
          /\ rows' \in {rows, Pruned(rows)}
    /\ UNCHANGED <<sinceStart, sinceProbe, batch, world, cursor, ghosts>>

\* "counter observations must be time ordered"
OutOfOrder == cursor # NoRow /\ WallTime(batch.cycle) < WallTime(cursor)

EndCycle ==
    /\ pc' = "wait"
    /\ batch' = NoReport
    /\ UNCHANGED <<sinceStart, sinceProbe, sincePrune, world, deadFor>>

\* Mutant of Record: a batch without a verdict on the path clears the old one.
RecordClearing ==
    /\ pc = "record"
    /\ ~ OutOfOrder
    /\ rows' = batch
    /\ cursor' = batch.cycle
    /\ calm' = calm
    /\ EndCycle

Record ==
    /\ pc = "record"
    /\ ~ OutOfOrder
    /\ rows' = [cycle |-> batch.cycle,
                path  |-> IF batch.path = NoRow THEN rows.path ELSE batch.path]
    /\ cursor' = batch.cycle
    /\ calm' = calm
    /\ EndCycle

\* Mutant of RejectBatch: the cycle tries to record the same batch again.
RetryBatch ==
    /\ pc = "record"
    /\ OutOfOrder
    /\ calm' = 0
    /\ UNCHANGED <<process, world, database, deadFor>>

\* record_batch raises because of the order; run_forever goes on.
RejectBatch ==
    /\ pc = "record"
    /\ OutOfOrder
    /\ calm' = 0
    /\ EndCycle
    /\ UNCHANGED database

\* The database is locked, full or unwritable, or two different readings of
\* one counter got the same time.
LoseBatch ==
    /\ pc = "record"
    /\ calm' = 0
    /\ EndCycle
    /\ UNCHANGED database

\* The process ends; the caches and schedules it kept in memory end with it.
Crash ==
    /\ pc # "down"
    /\ pc' = "down"
    /\ sinceStart' = Interval
    /\ sinceProbe' = ProbeEvery /\ sincePrune' = PruneEvery
    /\ batch' = NoReport
    /\ calm' = 0
    /\ UNCHANGED <<world, database, deadFor>>

\* systemd starts it again (Restart=on-failure, or after a reboot), and the
\* first cycle begins at once.
Restart ==
    /\ pc = "down"
    /\ pc' = "wait"
    /\ calm' = 0
    /\ UNCHANGED <<sinceStart, sinceProbe, sincePrune, batch, world, database, deadFor>>

Work == StartCycle \/ Probe \/ Retain \/ Record \/ RejectBatch

Next ==
    \/ Tick
    \/ \E to \in Offsets : SetClock(to)
    \/ PathChange
    \/ Work
    \/ LoseBatch \/ Crash \/ Restart

(***************************************************************************)
(* Time passes, a running collector takes its next step, and systemd       *)
(* starts a collector that has ended.                                      *)
(***************************************************************************)
Fairness == WF_vars(Tick) /\ WF_vars(Work) /\ WF_vars(Restart)

Spec == Init /\ [][Next]_vars /\ Fairness

----------------------------------------------------------------------------
(* What the dashboard shows. *)

\* _required_path_effective_state
Fresh(stamp) == WallAge(stamp) <= FreshFor /\ WallAge(stamp) >= -Skew

PathShown ==
    IF rows.path = NoRow THEN "absent"
    ELSE IF rows.path.ok /\ Fresh(rows.path.at) THEN "healthy"
    ELSE "unavailable"

Stamps == {rows.cycle} \cup (IF rows.path = NoRow THEN {} ELSE {rows.path.at})

\* "The newest stored sample is more than five minutes old."
Stale == \A stamp \in Stamps \ {NoRow} : WallAge(stamp) > StaleAfter

\* The status of ReadOnlySQLiteRepository.overview; nothing else is wrong.
Overall ==
    IF Stamps = {NoRow} THEN "unknown"
    ELSE IF Stale \/ PathShown = "unavailable" THEN "critical"
    ELSE "healthy"

----------------------------------------------------------------------------
(* What the schedule has to ensure. *)

(***************************************************************************)
(* The configuration keeps a verdict fresh until the next one is recorded, *)
(* and cycles shorter than the five minutes of the stale banner.  Config   *)
(* checks neither: interval_seconds may be an hour.                        *)
(***************************************************************************)
Cadence ==
    /\ Settle <= FreshFor
    /\ Settle <= RawKeep
    /\ Greater(Interval, MaxCycle) + MaxCycle <= StaleAfter

Truth == IF pathUp THEN "healthy" ELSE "critical"

(***************************************************************************)
(* If nothing has gone wrong for the time it takes to probe and record     *)
(* again, the dashboard says what is true: no cached verdict, schedule     *)
(* attempt spent on a lost batch, pruned row or clock that was set before  *)
(* makes it raise a false alarm or hide a dead path for longer.            *)
(***************************************************************************)
ReportsTruth == (Cadence /\ calm > Settle) => Overall = Truth

(***************************************************************************)
(* Whatever fails meanwhile, a path that has been dead for longer than a   *)
(* verdict is fresh is not shown as healthy: no verdict outlives its probe *)
(* by being recorded late, kept through restarts or found again by a clock *)
(* that is set back (which gains no more than it is set back by).          *)
(***************************************************************************)
DeadPathNotHealthy == deadFor > FreshFor + Spread => PathShown # "healthy"

(***************************************************************************)
(* Why: a verdict that says the path works, in the batch or recorded, is   *)
(* at least as old as the path has been dead.                              *)
(***************************************************************************)
VerdictsPredateDeath ==
    \A report \in {rows, batch} :
        report.path # NoRow /\ report.path.ok => report.path.at.real >= deadFor

(***************************************************************************)
(* What is younger than the last thing that went wrong tells the truth,    *)
(* and by the clock that is still the clock.                               *)
(***************************************************************************)
YoungRowsAreTrue ==
    \A report \in {rows, batch} :
        /\ report.cycle # NoRow /\ report.cycle.real < calm => report.cycle.off = offset
        /\ report.path # NoRow /\ report.path.at.real < calm =>
              report.path.at.off = offset /\ report.path.ok = pathUp

\* Something went wrong, or a cycle has reported (on the path), within this time.
CycleSeen(time) == calm <= time \/ (rows.cycle # NoRow /\ rows.cycle.real <= time)
PathSeen(time) == calm <= time \/ (rows.path # NoRow /\ rows.path.at.real <= time)

\* How long ago the path was last probed, as seen after the probe of a cycle
\* and before it: sinceProbe says no more than that a probe is due.
LastAttempt ==
    IF sinceProbe < ProbeEvery THEN sinceProbe ELSE sinceStart + ProbeEvery - 1
LastAttemptBefore ==
    IF sinceProbe < ProbeEvery THEN sinceProbe
    ELSE sinceStart + Greater(Interval, MaxCycle) + ProbeEvery - 1

(***************************************************************************)
(* Between cycles the last one and the last attempt have been recorded; in *)
(* a cycle, the one before it has, and what this one saw is in the batch.  *)
(***************************************************************************)
ScheduleKept ==
    /\ pc = "down" => calm = 0
    /\ pc = "wait" => CycleSeen(sinceStart) /\ PathSeen(LastAttempt)
    /\ pc \in {"probe", "retain", "record"} =>
          /\ sinceStart <= MaxCycle
          /\ batch.cycle.real <= sinceStart
          /\ CycleSeen(sinceStart + Greater(Interval, MaxCycle))
          /\ IF pc = "probe" THEN batch.path = NoRow /\ PathSeen(LastAttemptBefore)
             ELSE IF batch.path = NoRow THEN PathSeen(LastAttempt)
             ELSE /\ batch.path.at.real <= LastAttempt
                  /\ PathSeen(sinceStart + Greater(Interval, MaxCycle) + ProbeEvery - 1)

CycleInv ==
    /\ TypeOK
    /\ pathUp => deadFor = 0
    /\ VerdictsPredateDeath
    /\ Cadence => YoungRowsAreTrue /\ ScheduleKept

(***************************************************************************)
(* A cycle that is due is never put off by one that failed: if the clock   *)
(* is set, processes end, batches are lost and probes fail only finitely   *)
(* often, the dashboard ends up telling the truth, also after a clock that *)
(* was set back made record_batch reject every batch for a while.          *)
(***************************************************************************)
Disturbance ==
    \/ \E to \in Offsets : SetClock(to)
    \/ PathChange \/ Crash \/ LoseBatch
    \/ pc = "probe" /\ batch'.path # NoRow /\ batch'.path.ok # pathUp

Recovers == (<>[][~ Disturbance]_vars) => <>[](Overall = Truth)
=============================================================================
