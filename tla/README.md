# A TLA+ verification of aws_ops_monitor

`aws_ops_monitor` watches one Lightsail instance that runs an Xray proxy. A
collector daemon samples the host, Xray, the listeners, synthetic paths and the
Lightsail API once per cycle and writes SQLite; a separate read-only web process
projects the database for a browser; root shell scripts install, back up and
roll back releases. This directory models what can be checked of it, checks it
with TLC on small instances, and proves what matters most with TLAPS for all
values of the constants. File names below are relative to
`src/aws_ops_monitor/` unless they start with `deploy/` or `docs/`.

## Inventory

| Component | State it keeps | Operations | Interacts with | What is hard | What makes it correct |
| --- | --- | --- | --- | --- | --- |
| Host collector (`collectors/host.py`) | none; the kernel's counters and `boot_id` | `collect` | called by the cycle | counters and boot id fail separately; interfaces are re-created | a reading is never later than the traffic it counts |
| Xray collector (`collectors/xray.py`) | none; Xray's counters, the container's `Id\|StartedAt` | `docker inspect`, then `statsquery` | called by the cycle | a restart between the two calls; either call fails | readings under a wrong identity never overcount |
| Store, writing (`store.py`) | gauge, counter, health and rollup tables, cursors | `record_batch`, `apply_retention` | the cycle writes, the web process reads other connections | one rejected row, clock steps, power loss | deltas are bounded by the traffic; all or nothing; every byte kept once |
| Collection cycle (`collector.py`) | `_last_retention_attempt`, the probes' `_last_attempt` | `collect_once`, `run_forever` | all collectors, the store | one component's failure, schedules that lose their batch, a clock that is set | failures are isolated, a cycle is recorded whole, collection resumes, what is shown is true again soon |
| AWS collector (`collectors/aws_lightsail.py`) | `_last_attempt`, `_last_snapshot` | `collect` | Lightsail API, rate limited | a cached snapshot shown again after a failure, a month that rolls over | only gauges of the attested snapshot are shown as verified |
| Path probes (`collectors/probes.py`) | last results and attempt | `collect` | DNS, WebSocket, WARP | cached verdicts outliving their freshness | a required path is healthy only on fresh evidence |
| Network exposure (`collectors/network.py`) | none | `ss` listeners to findings | configuration | combinations of families, wildcards, expected ports | a healthy inventory is exactly the policy's |
| Dashboard server (`web.py`) | none; a connection per call | `overview`, `series` | reads the database while the collector writes | several SELECTs that are not one snapshot, stale data, partial layers | status, alerts and truth agree; what is shown as healthy is fresh |
| Dashboard client (`static/app.js`) | selected range, last answers, timers | refresh, select range | the server | answers out of order, overlapping refreshes | the chart belongs to the selected range |
| Deployment (`deploy/*.sh`) | `current` link, units, backups, secrets | install, backup, verify, roll back | systemd, the database | a failure after any step, a roll back that fails | the host ends on a whole release, old or new, or offline |
| Configuration (`config.py`) | none | validate the environment | everything | bounds | the bounds other components rely on |

## Modules

| Module | What it is |
| --- | --- |
| `CounterEngine` | pure operators: what `record_batch` decides about one counter observation and its cursor (rejected, reset, delta) |
| `TrafficAccount` | abstract specification of the byte ledger: accounts grow, never beyond the traffic, or return to an account that was kept |
| `CounterLedger` | extends `CounterEngine`: sources, collectors, the record transaction, restarts, power loss, backup and restore; implements `TrafficAccount` |
| `RecordTransaction` | extends `CounterLedger`: the record transaction of both sources statement by statement, with a death between any two; implements `CounterLedger` |
| `MCCounterLedger`, `MCRecordTransaction` | instances for TLC: Xray alone, whole transactions; the host and Xray, by statement |
| `CounterLedgerProofs` | the theorems about both |
| `Retention` | the compaction and pruning of one counter's rows, and the sums the dashboard reads |
| `MCRetention`, `RetentionProofs` | its instance for TLC and its theorems |
| `CollectorCycle` | the collector daemon in time: cycles, probe and retention schedules, lost batches, crashes, two clocks, and the status the dashboard derives |
| `MCCollectorCycle`, `CollectorCycleProofs` | its instance for TLC and its theorems |
| `Exposure`, `PathProbes` | pure operators: from the lines of `ss` to listeners, drift and access paths; from DNS, WebSocket and WARP answers to the three synthetic verdicts |
| `Overview` | extends both: the health rows of all components, cycle by cycle, and the status and alerts of the two programs that read them |
| `MCOverview`, `OverviewProofs` | its instance for TLC and its theorems |
| `Deployment` | the deployment transaction, the manual rollback, systemd, and what cuts them off |
| `MCDeployment`, `DeploymentProofs` | its instance for TLC and its theorems |
| `AwsSnapshot` | the Lightsail poll, its cache, the rows it leaves and the tests they have to pass to be shown |
| `DashboardAws` | extends `AwsSnapshot`: one request for the page, read by read, while the collector works |
| `MCAwsSnapshot`, `MCDashboardAws`, `AwsProofs` | their instances for TLC, and the theorems about both |
| `AlarmPages` | the alarms of the instance, page by page, from a service that answers anything |
| `AwsPoll` | extends `AlarmPages`: one whole poll, call by call, the firewall rules, and the health it reports |
| `MCAwsPoll`, `AwsPollProofs` | its instance for TLC, and the theorems about both |
| `DashboardClient` | the page in the browser: overlapping requests, answers in any order, timers, visibility |
| `MCDashboardClient`, `DashboardClientProofs` | its instance for TLC and its theorems |

### CounterLedger

One counter stands for all counters of a source. The counters of a source share
the timestamp and the reset identity of their collector's snapshot and have
rows of their own, so that what is said of one is true of each.

| Variable | In the program |
| --- | --- |
| `identity`, `count` | the boot id or the container start, and the cumulative counter, as the kernel and Xray have them |
| `carried` | ghost: all bytes since the source was first watched, restarts included |
| `pc`, `seen`, `batch` | where `collect_once` is; `observed_at` and `reset_id` inside `XrayCollector.collect`; the lists `counters` of the cycle |
| `store` | `counter_cursors`, the sum of `delta_value` over `counter_samples`, and `is_reset` of the newest row |
| `flushed`, `backup` | the database after a power failure; `metrics.sqlite3` of the newest backup |

Every call of `time.time()` may return any member of `Times`: the clock may be
set by NTP or by hand. `docker inspect` and reading `boot_id` may fail at any
time, which gives the reading the identity `Fallback`. `XrayInspect` and
`XrayStats` are separate actions because Xray can restart between the two
subprocesses. The record transaction is one action here, `RecordBatch`, and
`LoseBatch` is its rollback, for whatever reason; that the code's transaction
comes to this is shown by `RecordTransaction`, below. A power failure takes the database back to the
last flushed commit (`synchronous = NORMAL` with a write-ahead log).
`RestoreDatabase` removes the log and then moves the backup into place; cut off
between the two it leaves what had been flushed into the database file. A reading
has two ghost fields, `life` and `carried`, which say what was true of the
source when the value was read; no action looks at them.

The properties:

* `NeverOvercounts`: whatever restarts, fails or is restored, the sum of deltas
  of a source never exceeds the bytes it carried.
* `DeltaWithinInterval`: the same for every single committed delta and the
  interval between its two readings.
* `ExactWithinRun`: a counter that was not cleared between two readings of one
  identity gives exactly the difference, also across lost batches and restores.
* `UndercountFlagged`: if Xray's readings carry its true identity, a delta that
  leaves out bytes has `is_reset`. It is not stated for the host: an interface
  re-created within one boot keeps the identity, and if it outgrows its old
  value before the next sample the loss is silent.
* `AccountSpec`: with `account <- store.recorded` and `kept <-
  {flushed.recorded, backup.recorded}` the ledger implements `TrafficAccount`.

`RecordTransaction` takes `record_batch` apart: `BeginImmediate`, for each source
in the order of the collectors `InsertSample` (the SELECT, both checks, the
INSERT) and `MoveCursor` (the upsert), and `Commit`. `work` is the database as the
transaction sees it. Between any two statements one may raise (`Rollback`), the
collector may be killed (`Killed`), the host go down (`HostDown`) or rollback.sh
replace the database (`DatabaseReplaced`), while traffic, restarts of Xray,
checkpoints and backups go on.

* `AtomicBatches`: it implements `CounterLedger`: the database only goes through
  states in which a batch is recorded whole, or lost.

### Retention

Tables are functions from ticks to bytes: `raw[t]` is the delta sampled at `t`,
`rolled[t]` what that sample has added to the rollup row of its hour. `db` is
what is committed, `work` what the open transaction sees; each of the three
statements is an action, and `Rollback` may come between any two. A baseline, a
reset and an idle counter leave rows whose delta is zero; `rawAt` and `rolledAt` say
of which ticks there is a row, whatever it holds. `now` is any
clock value in every run, so retention also runs far ahead of, and behind, the
samples.

* `KeptOnce`: a recorded byte is in exactly one table until its tick is before
  the rollup cutoff of the latest retention, and never in both.
* `WindowComplete`: the dashboard's 24 hours, summed from raw rows only, are
  complete for a reader whose clock is not behind a retention. It rests on
  `raw_retention_days >= 1`.
* `SeriesComplete`: a chart within the rollup retention shows every byte since
  its start once, and of earlier bytes at most the rest of the first hour, and
  these once too. `Series` keeps the tick of each byte, so this is said of every
  tick and not only of the sum.
* `RetentionInv`: why: the tables of an open transaction are the first
  statements applied to what is committed, no sample is ahead of the cursor,
  bytes are only where there is a row, and nothing since the raw cutoff has moved to the rollups.
* `ChartComplete`: the buckets of `series` lose nothing but at their edges. Each
  row, of zero bytes or more, is followed into its bucket and through the two
  limits: the SQL of the Xray counters drops fractions and keeps the first
  `limit` buckets, Python rounds down and keeps the last. Only a `Crowded`
  chart, with more buckets than `limit`, loses anything, and then the first
  bucket and, of Xray, the last one. With 168 hours and 1000 points a rollup row
  that begins before `since` is enough for that, also one of an idle hour: it
  adds nothing, but it takes the place of a bucket.
* `RetentionIdempotent`: the sentence of `apply_retention`'s docstring.

### CollectorCycle

The program schedules with `time.monotonic()` and stamps rows with
`time.time()`. The module keeps no absolute time: `offset` is how far the wall
clock has been set away from the monotonic one, and a stamp keeps its real age
and the offset it was taken at, so that `WallAge` and `WallTime` are what the
code computes with. Ages stop at `Cap`, beyond every threshold. Two components
stand for all: one that reports in each cycle, with the counters whose order
`record_batch` insists on, and one required path, reported only when probed.

| Variable | In the program |
| --- | --- |
| `pc`, `sinceStart` | where `collect_once` and `run_forever` are; `elapsed` |
| `sinceProbe`, `sincePrune` | `PathProbeCollector._last_attempt`, `_last_retention_attempt` |
| `batch` | the lists of the cycle that go into `record_batch` |
| `rows`, `cursor` | the newest `health_samples` row of each component; the time of `counter_cursors` |
| `offset`, `pathUp` | the wall clock; whether the path really works |
| `deadFor`, `calm` | ghosts: how long the path has been dead, how long nothing has gone wrong |

`Probe` is one action at the moment of `_last_attempt`, which is also the
verdict's `observed_at`; a probe that raises gives the same row as one that
fails. `Retain` either applies the pruning or fails, and has noted its attempt
before. `RejectBatch` is the rejection of a counter that is older than its
cursor, `LoseBatch` any other failure of the transaction; `run_forever` goes on
after both. `Crash` loses the caches of the process, `Restart` is systemd's.

`Settle`, the time after which the truth has to be back, is the probe interval,
the start of the next cycle, and the cycle that records it. It is an
upper bound: in `cycle` a tick less still holds, the probe interval alone does
not.

* `ReportsTruth`: if nothing has gone wrong for `Settle` ticks, the overall
  status is healthy exactly if the path works. It rests on `Cadence`, which
  `Config` does not check: a cycle and its wait have to fit into the five minutes of the
  stale banner, and a verdict has to stay fresh and unpruned until the next.
* `DeadPathNotHealthy`: whatever fails, a path dead for longer than
  `fresh_for_seconds` (and `Spread`, how far the clock is set) is not shown healthy.
* `CycleInv`: why: a recorded verdict that says the path works is never younger
  than the path's death; and, given `Cadence`, what was probed or observed since
  the last disturbance is true (`YoungRowsAreTrue`), and rows that young are
  there when the schedule says so (`ScheduleKept`).
* `Recovers`: after finitely many disturbances the status becomes, and stays,
  the truth; in particular the batches rejected after a clock set back end.

### Overview, Exposure and PathProbes

`CollectorCycle` has time and one path; `Overview` has all components and coarse
time: an interval is a step, a cycle takes none of it, clocks are not set.

| Variable | In the program |
| --- | --- |
| `on` | the switches of `MonitorConfig`; `warp` is the WARP probe's |
| `reports` | what the collectors of `host`, `xray`, `aws` find, whole rows abstracted to their state |
| `inventory` | the lines of `ss`, or `Fails` (no result), or `Raises` (the collector raises) |
| `answer`, `reactions`, `trace` | what DNS, the addresses and the WARP proxy answer |
| `retainable` | whether `apply_retention` works |
| `rows` | the newest row of each component in `health_samples` |
| `sinceProbe`, `sincePrune` | as in `CollectorCycle` |
| `calm`, `changes` | ghost, and the bound on what happens |

`Collected` is `collect_once`: a row for each component, `NoRow` where the code
writes none, which differs between a component that is switched off, one that
fails, one that raises and one that is not due. `Cycle` prunes first and records
then, `CycleLost` prunes and records nothing, `CycleRaising` has a prober that
raises. A row has the two fields of `details_json` that are looked at again. The
interface faults are sums of a day's counters: whether there are any depends on
how long ago the last one was, which is a parameter of what is shown
(`WebFaults` counts the day before now, `StoreFaults` the day before the newest row). Addresses of `ss` and of DNS are kinds; DNS's distinct ones only,
which is what `resolve_public_addresses` goes on with.

* `StatusExplained`: status and alerts, two loops with rules of their own, agree.
* `StoreAgrees`: so do the overview of `store.py` and that of `web.py`, unless the
  rows are stale, or the last fault is a day ago but not yet before the day of
  the store's: for at most the five minutes it takes rows to get stale, the
  store then says degraded and the page healthy.
* `StatusTrue`: after `Settle` quiet intervals the status is `Truth`, which is
  defined from the lines of `ss`, the answers and the configuration without the
  operators of `Exposure` and `PathProbes`; except for paths whose collector was
  switched off, which are required until retention deletes their rows.
* `OverviewInv`: types, which rows there can be, and where the rows come from:
  since the last disturbance the cycle has written what the configuration and
  the host give (`CycleSeen`), the probes, when they were due, what they find
  (`ProbesSeen`), and retention what it did (`RetentionSeen`); rows of a
  collector that was switched off only grow older, until they are pruned
  (`LeftoversAge`).

### DashboardClient

Nothing in `app.js` ties an answer to the newest request, so requests are a bag
by kind and age. A request ends by an answer, an error or the abort after 8
seconds. If the connection is lost or the request aborted after the head of a
good answer, or its body cannot be parsed, `response.json().catch(() => ({}))`
makes it an answer that says nothing (`LoseBody`): it clears the notice and
shows a status that is unknown, or an empty chart. An overview may also say
itself that the status is unknown. `RefreshAll` sends two at once; the timer goes on in a hidden page but
asks for nothing.

| Variable | In the program |
| --- | --- |
| `hours`, `points` | `state.hours`; the range `state.points` belongs to |
| `status`, `notice` | the status pill; what the one line for notices is about |
| `flight` | the promises of `fetchJSON` not yet settled, with their age |
| `timer`, `hidden` | `refreshTimer`; `document.hidden` |
| `server` | whether the server answers, and if it is well, whether the status it tells is one of `setStatus`'s list |
| `settled`, `calm` | ghosts: how long the user has looked at one range, and how long, besides, the server has been well and told the same |

* `ChartOfSelection`: a chart of another range is gone after `Patience`, two
  timeouts and a refresh. With one tick less it is violated: the bound is exact.
* `ShowsTruth`: after `Patience` without a change, the status is the one the
  server tells, the chart that of the range, and there is no notice. Before
  that nothing is claimed: an answer that was cut off leaves an unknown status
  without a reason.
* `Settles`: once the server answers in time and tells the same, and the range
  stays, the page comes to show that range, what the server tells and no notice.
* `ClientInv`: why: requests for other ranges are older than the selection.

### Deployment

The scripts of `deploy/` share one `flock`, so there is one job at a time, with
a program counter: one action for every command that changes the host. Commands
that only look (checksums, `quick_check`, `systemd-analyze`, the requests of
`verify.sh`) are guards of the steps they protect, and reasons for
`DeployFails` and `RollbackFails`, which may come at any command.

| Variable | In the program |
| --- | --- |
| `pc`, `job` | the next command; `revision`, `previous`, `backup_dir` of the scripts and whether the trap called them |
| `releases`, `current`, `prior` | `/opt/aws-ops-monitor/releases`, its link `current`, the file `previous-release` |
| `unit`, `enabled`, `running` | the release a unit file is from; whether it starts at boot; the release the service runs, or `inactive`, or `restarting` (systemd's five seconds) |
| `secret` | `xray-user-hash.key`, `web-password`: absent, empty or good |
| `database`, `xrayMoved` | whether `metrics.sqlite3` exists; `xray_after` would differ |
| `result`, `verified`, `orderly` | ghosts: how the last job ended, what `verify.sh` has found good, whether nothing was killed and no roll back failed |

systemd is external and modelled from the unit files: `web` has
`Requires=aws-ops-monitor-collector.service`, so starting it starts the
collector, and restarting or stopping the collector does the same to it;
`Restart=on-failure` with `RestartSec=5s`; both services run the code the link
leads to when they start. `systemctl disable --now` may fail where the script
has `|| true`. Which release is good is not fixed: `verify.sh` may fail for any.

* `OnlyVerified`: unless something was killed or a roll back failed, an idle
  host has one release in its link, units and services, or none, and both it
  and `previous-release` have once been verified.
* `DoneMeansDone`, `RestoredMeansRestored`: what the two ways to end without
  going offline promise, from any state that earlier kills left.
* `NothingRunsMeanwhile`: no service runs while the database and the release
  are replaced; `CounterLedger`'s restore, which clears the collector's batch,
  rests on it.
* `FailedFirstStaysOff`: a failed first installation is off, over reboots too.
* `DeployInv`: nothing refers to a release that is not installed whole
  (`Installed`), and what the finished commands of a job leave behind, for a
  deployment (`Progress`), a roll back (`RollbackProgress`, `Restoring`), the
  first installation (`StaysOff`) and the releases involved (`Trusted`).

### AwsSnapshot and DashboardAws

Old AWS figures stay in SQLite after a poll that did not read them again. What
the page shows is therefore decided twice: the newest health row has to be
current, and a figure has to carry that row's timestamp. `AwsSnapshot` models
what leads to the rows, `DashboardAws` composes it with a request.

| Variable | In the program |
| --- | --- |
| `time`, `offset` | the monotonic clock; how far the wall clock is set away from it |
| `pc`, `sinceStart` | where `collect_once` is, and `elapsed` |
| `sinceAttempt`, `cached` | `_last_attempt`, `_last_snapshot` |
| `operator`, `apiUp` | whether the plan allocation is configured; whether Lightsail answers for a running instance |
| `samples` | the snapshots in `gauge_samples` and `health_samples` |
| `step`, `asked`, `gauges`, `health` | where `overview` is; its `now`; what `_latest_gauges` and `_latest_health` have returned |
| `calm` | ghost: how long nothing has gone wrong |

A snapshot stands for all its rows, which `record_batch` inserts in one
transaction with one timestamp. It is known by the moment of its poll on both
clocks; that the clock is set back by exactly the time between two polls, to
the millisecond of `_attested_aws_gauge`, is left out. Healthy and degraded are
one value, `vouches`, because `_is_current_aws_snapshot` takes both.
`collect` catches whatever its calls raise, so the handler in `collect_once`
for a collector that raises is not reached and not modelled; nor is an AWS
collector that is switched off (its row has a state that shows nothing).
`Findable` leaves out rows that no SELECT can find again, which keeps the state
finite without a bound on the number of rows. It is exact also when the clock
was set back and pruning deletes the newest row first, so that an older one
comes to light: such a row stays findable.

* `OnePoll`: all AWS figures of a page are from one poll. In one corner a page
  lacks a direction beside the sum (the clock was set back and retention
  prunes rows between the two SELECTs), but never shows another poll's.
* `FreshFigures`: a figure was read, in real time, no longer ago than a reading
  is fresh, up to twice the clock's excursion: recording a cached snapshot again
  does not make it younger. (That it is also of the page's month by the clock
  is a test of `Current` itself, and no property.)
* `FiguresFollowApi`: after `Settle` ticks without a disturbance the usage is
  shown exactly if Lightsail answers. A lost batch disturbs no longer than
  `AwsEvery`: the cached snapshot is recorded again in the next cycle. It rests
  on `Cadence`, which the factor 2 of `_fresh_for_seconds` gives unless cycles
  are long.
* `AwsInv`, `PageInv`: why rows can be told apart by timestamps and ordered by
  ids: no two polls share a moment, and none is recorded after a later one. Given
  `Cadence`, polls since the last disturbance tell what Lightsail answers
  (`YoungPollsAreTrue`), and one is recorded in time (`ScheduleKept`).

### AlarmPages and AwsPoll

`_collect_alarm_pages` and `_safe_alarms`; the service is external and may
answer with any page, token, malformed value or error. A state is "ok", "alarm"
or "other"; an entry that is no mapping is kept as one without a state.

* `QuietMeansQuiet`: if the alarms give no cause to call the instance degraded,
  the service was read to its end and all alarms it told of were OK.
* `AlarmInv`: nothing is left out before there is a result, nor from a result
  that is not marked as truncated.

`AwsPoll` is what `collect` does around it: seven calls in order, each of which
may raise or answer with a mapping that lacks or garbles what was asked.
`answered`, `failures`, `missing` and `risks` are the lists of that name, of
which only the emptiness matters; `instance` is `instance_state`. A firewall rule
is a record of its fields, each possibly `Absent` or `Garbled`; sources are
kinds. A figure is the set of its data points.

* `HealthyMeansWell`: a row is healthy only if Lightsail told of everything and
  it is well. What is well is said of the ports a rule opens (`Opens`), not with
  the descriptors and counts the code makes of rules.
* `PollInv`: why: what is not told or not well leaves one of the marks.

## Runs

| Run | Instance | What it shows |
| --- | --- | --- |
| `ledger_xray` | Xray only, 2 instants, 3 bytes, 2 starts, initial value 0 or 1 | `LedgerInv`, which implies `NeverOvercounts`, all action properties, and the refinement |
| `ledger_both` | host and Xray, 2 instants, 2 bytes (Xray at most 1), 2 boots, no copies of the database, no restart of Xray alone | the transaction, statement by statement, records whole batches or none; no overcount, also with interfaces re-created under an unchanged boot id |
| `contract_unchanged` (violation) | as `ledger_xray` | docs/metric-contract.md:14 does not hold when an inspect fails |
| `retention` | 7 ticks, hours of 2, raw 2, rollup 4, window 2, samples of no byte or one, up to 4 of them kept, charts of up to 3 points | the properties of retention, and of the charts made of what it leaves |
| `cycle` | probe and pruning every 2 ticks, cycles up to a whole interval, clock set by one tick, to and fro | why a dead path is not shown, the truth within `Settle`, and recovery, under fairness |
| `overview` | the default ports, four inventories, two answers of DNS, three changes, probes every 2 intervals, pruning every 3 | status, alerts and the truth about the host agree |
| `deployment` | two releases (interchangeable: symmetry), any number of jobs, failures, kills and reboots | the promises of the deployment scripts |
| `contract_retry` (violation) | the same | deploy/README.md:42 does not hold when a secret is not generated whole |
| `aws_snapshot` | poll every 2 cycles, cycles up to a tick, figures read or not, ten ticks, clock set by one tick, to and fro, a month that ends | the usage is shown exactly if Lightsail answers |
| `dashboard_aws` | poll every 2 cycles, partial polls, four ticks, two months, clock set back once, allocation configured or not | pages never mix polls, nor show figures that are older than they may be |
| `aws_poll` | ports 0 to 3, of which 1 and 2 are expected; 993 sequences of rules; figures on and beside the limits; 3 pages of up to 2 alarms, 4 kept, 3 tokens (symmetry) | quiet alarms are all alarms, healthy means well |
| `dashboard_client` | two ranges, timeout 1 tick, refresh 2, up to 2 requests of a kind per tick | what is shown wrongly does not stay, and the page comes to show what the server tells |

The bounds. A delta compares two readings, so two instants give earlier, equal
and later; two starts give the same and another identity beside the fallback;
three bytes let a counter restart and grow to, and past, its old value. A
non-zero initial value makes the baseline matter. The raw and rollup cutoffs of
`retention` move with the clock by one tick, and an hour has two, so that at
every other tick they fall inside an hour and it is partly raw, partly rolled or
partly expired; seven ticks leave room for a first and a second retention after
each other. Samples of no byte beside those of one fill buckets of a chart
without adding to its sum. `CHECK_DEADLOCK` is on
everywhere.

In `CollectorCycle` all times are in units of one interval: what counts is
their order (`StaleAfter` < `FreshFor`, `Settle` up to `RawKeep`), not their
size. `Offsets` bounds the clock to two settings one tick apart, as much as
`Skew` tolerates and less than `StaleAfter` hides; the instance satisfies
`Cadence`, with `Settle` exactly `FreshFor`.

`overview` has one reporter because the three are treated alike; the four
inventories are one that is as it should be, a listener on the wrong side, one
that is missing beside an uninvited one, and a port bound twice. Every other
path is missing when nothing is listed. Three changes are enough to switch
something off, break it and lose the batch that would have told. `StaleAfter` <
`ProbeEvery` < `FreshFor`, so rows of every age occur. Faults are of every age
from now to beyond both days.

`deployment` bounds nothing but the number of releases: its variables are finite.
Two releases give a first installation, an update, the same release again, and
a roll back to either.

`aws_snapshot` and `dashboard_aws` are bounded in time, because snapshots keep
absolute stamps. The ten ticks of `aws_snapshot` hold the end of a month and,
before and after it, `Settle` and one tick more with polls that succeed and
polls that fail; `FreshFor` is exactly `2 * AwsEvery`, the code's own
proportion, and exactly `Settle`. The four ticks of `dashboard_aws` hold
polls in either of two months; they are one more than `FreshFigures` allows
between a reading and a page (a tick of freshness and twice the tick the clock
may be away), and freshness and retention of one tick make every row expire
within a request. `calm` is left out of that run's states (VIEW): only
properties under `Cadence` look at it, which its times do not keep. In
`aws_poll` the limit of alarms is met in the middle, at the end and after
the end of a page, and three tokens are more than three pages can use up. Rules
cover each combination of transport, bounds (absent, garbled, out of range, on
and across the policy's ports) and each of kinds of sources, alone and after a
good rule: the counts are over rules one by one, so longer lists add nothing.

In `dashboard_client` two requests of a kind per tick let a selection, a timer
and a page that is shown again coincide; a third would be dropped by the model,
not by the page, and differs from the second in nothing. `ChartComplete` has
limits below, at and above the divisors of the spans.

Fairness. `CollectorCycle` and `DashboardClient` claim liveness. The first
assumes weak fairness of
three things: time passes (`Tick`); a running collector takes its next step
(`Work`: every subprocess and HTTP call in a cycle has a timeout, and
`run_forever` catches what a cycle raises); and systemd starts a collector
that ended (`Restart`: the unit has `Restart=on-failure` and is wanted by
`multi-user.target`, so it comes back after a failure and after a reboot; that somebody who
stops it, or stops Docker, which it `Requires`, starts it again is assumed). None of the environment's
failures is fair, and `Recovers` asks for nothing while they go on. The second
assumes that time passes, that `setInterval` fires (`TimerFires`) and that a
request ends, by an answer or by the abort of `fetchJSON`; neither the user nor
the server is fair, and `Settles` asks for a server that answers. All other
modules are safety only.

## Proofs

Assumptions: those the modules name (`SourcesAssumption`, `TimesAssumption`,
`BoundsAssumption`, `SentinelAssumption`, which only says that the two model
values are no readings; `DeltasAssumption`, `HourAssumption`, `KeepAssumption`,
the bounds `apply_retention` itself insists on, and so on: numbers are numbers,
model values are not data, and the bounds the configuration checks). `Overview`
assumes besides that a probe is fresh and kept until the next one is due
(`fresh_for_seconds` is twice the interval; `config.py` bounds the interval by a
day and the retention from below by a day). `Cadence` is not assumed but is a
premise of the properties it occurs in, because `Config` does not check it.

`CounterLedgerProofs` proves type correctness, `LedgerInv`, and from it
`NeverOvercounts`, `DeltaWithinInterval`, `ExactWithinRun` and `AccountSpec`; and
`UndercountFlagged` from one more invariant.
`NeverOvercounts` alone is not inductive: whether the next delta fits depends
on where the cursor stands. `LedgerInv` adds that

1. every reading, in a cursor or in the batch, is in the past: it had carried
   no more than the source has now, and the counter has not grown by more than
   has flowed since (`ReadInThePast`); restarts only make the counter smaller;
2. in every copy of the database, the sum of deltas is at most what had flowed
   at the cursor (`Backed`), and is zero without a cursor;
3. a reading in the batch is later than the cursor it will replace
   (`LaterThanCursor`): this survives restores because restoring stops the
   collector and its batch is gone.

With 3, a delta is at most the traffic between the two readings, so 2 holds
again after a commit. The refinement maps every step to one step of
`TrafficAccount` or to a stutter.

`AtomicBatches` needs to know what an open transaction has done so far:
`Undecided` says that its view is the committed ledger with the cursors of
`moved` and the deltas of `sampled` in it, none of them rejected, and that the
cycle waits in `record_batch` meanwhile, so that nobody changes the committed
ledger or the batch. At `Commit` all are moved, and the view is what `RecordBatch`
would have made. `NeverOvercounts` then holds of the transaction, too.

`UndercountFlagged` needs to know that two readings that carry their true
identity and share it are of one life of the source: `RunsApart` says that
identities only grow, for every copy of the database and the batch. Then the
counter was not cleared between the readings, and what is left out shows as a
smaller value or another identity.

`CollectorCycleProofs` proves type correctness, `CycleInv`,
`DeadPathNotHealthy` and `ReportsTruth`, from `ScheduleAssumption`,
`ClockAssumption`, `CapAssumption` (the model's cap on ages is beyond every
threshold) and `NoRowAssumption`. `DeadPathNotHealthy` says nothing of the batch
and so is not inductive: `CycleInv` says of both the batch and the rows that a
good verdict's real age is at least `deadFor`. A tick ages both alike; only a
probe makes a young verdict, and only of a path that works, whose `deadFor` is
zero; clock steps change no real age. Freshness then bounds the real age up to
the two offsets.

`ReportsTruth` needs two more parts, both under `Cadence`. `YoungRowsAreTrue`:
a verdict younger than the calm says what the path does now, and no stamp that
young was taken on another clock. `ScheduleKept`: at each command of the cycle,
either the calm is short or a row is at most as old as the time since the
cycle's start and the last attempt allow; the bound of a command follows from
that of the command before, and the bound while waiting is the one of the
record before. At `calm >= Settle` both rows are then young, true, and by
`Cadence` neither stale nor pruned.

`DeploymentProofs` proves type correctness, `DeployInv` and from it all five
properties of the run, from `NameAssumption` (no release is called like one of
the words for having none).

* `DoneMeansDone` needs to know at the last command what all earlier ones have
  done, although services crash and restart in between: `Progress` says so for
  each step, and holds because a service that systemd restarts runs what the
  link leads to, which does not change after `switch`.
* `RestoredMeansRestored` needs the same of the roll back (`RollbackProgress`),
  and that its target and backup are those the job began with (`Restoring`).
* `FailedFirstStaysOff` needs `StaysOff`: what went offline without a link is
  neither enabled nor running, and systemd starts nothing of that kind.
* `OnlyVerified` needs `Trusted`: while nothing was killed and no roll back has
  failed, whatever a job may go back to was verified before the job began, and
  the link leads elsewhere only from the switch until the job's end.

`SystemdEffect` and `JobEffect` say once what each of the two parties leaves
alone; all the parts rest on them.

`RetentionProofs` proves `RetentionInv` and all five properties of the run. The
strengthening is
that `work` is always the first statements of one retention applied to `db`
(`WorkInProgress`), and that nothing has been recorded after the cursor
(`NothingAhead`), so a new sample cannot land on a tick that was compacted. That
retention is idempotent follows tick by tick from what the three statements
leave of one tick (`RetainedTick`, `RetainedRows`). Rows may hold no byte, but no
byte is without a row (`BytesInRows`).

No induction over the tables is needed for the sums. `WindowComplete` compares
two sums over the same ticks, and `NothingRolledEarly` makes the two restrictions
the same function: since the raw cutoff of the latest retention the raw rows are
all there is. `SeriesComplete` is stated tick by tick; `KeptOnce` gives that
no byte counts twice. `ChartComplete` counts buckets: those of the rows shown lie
in an interval whose length is the quotient of span and width (`BucketsCover`,
`FewBetween`), so unless the chart is crowded they are no more than the limit, and
the limit keeps them all.

`AwsProofs` proves type correctness, `AwsInv`, `PageInv`, and from the latter
`OnePoll` and `FreshFigures`, for any schedule, retention and outcome of polls.
The page's properties speak of timestamps only; the invariant says that the
rows a request holds are of the same order and distinctness as those in the
database (`Known(samples \cup Held)`), so that equal stamps mean one snapshot.
A poll is new because at least its process's attempt, or the restart, lies
between it and every recorded row. `FiguresFollowApi` is proved from `AwsInv` in
the way of `ReportsTruth`, with one difference: the cached snapshot is as old as
its attempt, not as the cycle, and a lost batch sets the calm back no further
than to the poll, because the cache is recorded again.

`AwsPollProofs` proves `AlarmInv`, `PollInv`, `QuietMeansQuiet` and
`HealthyMeansWell` for any policy, rules, figures, limits, tokens and page
lengths. What is kept of the alarms equals what was sent as long as no page
was cut, and a cut page always ends the loop with `truncated`; `FirewallSeen`
is the lemma that a firewall without invalid and unsafe rules opens the
expected ports only.

`OverviewProofs` proves `OverviewInv`, `StatusExplained`, `StoreAgrees` and
`StatusTrue`, for any policy, inventory, answer and times. `StatusExplained`
needs from the invariant that only a degraded inventory tells of unexpected
ports, and that a path that is switched off is not required.

`StatusTrue` compares what the page computes with `Truth`, which is written
without the operators of the collectors. The proof has three parts. The
invariant says where each row comes from, so that after `Settle` quiet
intervals each is what its collector finds now (`Settled`); rows nobody writes
any more only age (`LeftoversGo`). Then each collector's operator is translated:
a parsed listener is a line of `ss` that binds a port (`BoundIsParsed`,
`ParsedIsBound`), drift is an uninvited or misplaced one (`DriftIsUninvited`), a
missing path one that nobody binds (`MissingIsUnbound`), and the loop over the
addresses finds one that upgrades exactly if there is a reachable one
(`UpgradedIsReachable`). The loop makes at most four turns
(`collectors/probes.py:210`), so it is unrolled, without an induction. Last, the
status is critical exactly if something required is broken
(`CriticalIsBroken`), and degraded exactly if something is impaired
(`DegradedIsImpaired`).

`DashboardClientProofs` proves `ClientInv`, `ChartOfSelection` and
`ShowsTruth`, for any ranges, times and number of requests.
`ChartOfSelection` is not inductive: a wrong chart is only known to go when it
is known that either the refresh to come is near enough (`NextRefreshCorrects`)
or its request is under way, and that no older request is left by then
(`OldRequestsOnly`). `ShowsTruth` needs the same of the status, the notice and an
empty chart (`NextRefreshTells`).

Only model-checked: the two liveness properties, `Recovers` and `Settles`, and
the two contracts that do not hold. Out of the prover's reach: liveness under
fairness, ENABLED, and induction over data, which no other property needs in the
form it is stated here. The state part of `Recovers`, that a calm system tells the
truth, is proved as `CalmReportsTruth`; what is left to TLC is that calm time
passes and rejected batches end.

## Findings

* docs/metric-contract.md:14 against `collectors/xray.py:237`: an inspect that
  fails once yields two resets of a source that never changed.
* deploy/README.md:42 against `deploy/install.sh:169`: a secret that openssl
  fails to write leaves an empty file, which every retry takes for the secret.

Of the same kind as the first, and without a run: a restart of Xray between
`docker inspect` and `statsquery` (`collectors/xray.py:239`) records values of
the new run under the old identity, where docs/metric-contract.md:16 calls a
changed container start a reset. Neither makes the ledger overcount:
`NeverOvercounts` and `DeltaWithinInterval` hold in both cases.

## Not modelled

* Parsing of /proc, `ss`, `docker` and statsquery output, HMAC pseudonyms,
  redaction, authentication, HTTP and configuration strings: stateless string
  handling.
* Configuration: the checks of single values. The bounds other modules rely on
  are their assumptions; `Cadence` is one that is not checked.
* Drawing and formatting on the page, and its styles.
* Gauges other than those of AWS, the totals by interface and by user, CPU.
* SELECTs of one page that a commit of the collector separates, other than the
  AWS figures'. Status and component alerts come from one SELECT.
* The text of `details_json` beyond the fields that are read back.
* A checkpoint of SQLite that is itself cut off by a power failure.
* Pruning that brings an older path verdict to light when the clock was set
  back (`CollectorCycle` keeps the newest row only). An older good verdict is
  at least as old in real time, so `DeadPathNotHealthy` is not affected.

Hazards without a property, because no document or code promises anything:
an interval of an hour, and timeouts that add up or count for each `recv`
(`collectors/probes.py:241`), against five minutes of staleness
(`config.py:228`); a torn `previous-release` (`deploy/install.sh:257`); a
rollback that starts but does not enable (`deploy/rollback.sh:187`); and a
collector stopped with Docker (`deploy/aws-ops-monitor-collector.service:6`).

## Plan

Modelled, in this order: `CounterEngine`, `CounterLedger` and `TrafficAccount`;
`Retention`; `CollectorCycle`; `AwsSnapshot` and `DashboardAws`; `Deployment`;
`AlarmPages`; then `Exposure`, `PathProbes` and `Overview`; `AwsPoll`;
`DashboardClient`; the charts of `Retention`; `RecordTransaction`.

What is left, most important first:

1. The other SELECTs of `overview` between commits of the collector.
2. The totals by interface and by user over both tables.
3. The bounds of `MonitorConfig` as a module that implies the others'
   assumptions, and says which of `Cadence` it does not.

Theorems to come: what liveness rests on and is not itself liveness, step by
step, namely that a batch is rejected only while the wall clock is behind the
cursor, and that each request of the page ends within its timeout; the
relation between `AwsPoll`'s outcome and the snapshot `AwsSnapshot` starts from.
