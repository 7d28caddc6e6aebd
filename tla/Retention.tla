------------------------------ MODULE Retention ------------------------------
(***************************************************************************)
(* What becomes of one counter's recorded deltas: MetricStore.             *)
(* apply_retention compacts old rows of counter_samples into               *)
(* counter_hourly_rollups and prunes both tables in one transaction, while *)
(* record_batch adds rows and the dashboard sums what it finds.            *)
(*                                                                         *)
(* Time is counted in ticks, HourTicks of them to the hour of a rollup     *)
(* row.  A table is kept as the bytes it holds for every tick: raw[t] is   *)
(* the delta of the sample observed at t, and rolled[t] is what that       *)
(* sample has contributed to the rollup row of its hour, so that the row's *)
(* delta_value is the sum of rolled over the hour.  A baseline, a reset or *)
(* an idle counter leaves a row whose delta is zero: rawAt are the ticks   *)
(* of which there is a sample, rolledAt those whose sample has gone into   *)
(* the rollup row of its hour, whatever they hold.  The wall clock may be  *)
(* set to anything, so `now` is any member of Times.                       *)
(***************************************************************************)
EXTENDS Integers, FiniteSetsExt

CONSTANTS
    Times,       \* bound: the ticks a clock may show
    Deltas,      \* bound: what one sample adds
    HourTicks,   \* 3600 seconds
    RawKeep,     \* raw_retention_days
    RollupKeep,  \* rollup_retention_days
    Window,      \* the dashboard's 24 hours
    Limits       \* bound: what a request may give as limit

ASSUME TimesAssumption == Times \subseteq Nat
ASSUME DeltasAssumption == Deltas \subseteq Nat
ASSUME HourAssumption == HourTicks \in Nat \ {0}
\* MonitorConfig and apply_retention insist on 1 day <= raw < rollup.
ASSUME KeepAssumption ==
    /\ RawKeep \in Nat /\ RollupKeep \in Nat /\ Window \in Nat
    /\ Window <= RawKeep
    /\ RawKeep < RollupKeep
\* _series_options insists on 1 <= limit.
ASSUME LimitsAssumption == Limits \subseteq Nat \ {0}

VARIABLES
    db,        \* what is committed: what every reader sees
    work,      \* what the collector's open transaction sees
    pc,        \* the next statement of apply_retention, or "idle"
    cutoffNow, \* apply_retention's `now`
    lastAt,    \* the counter's cursor time, or -1
    recorded,  \* ghost: every delta ever committed, by tick
    latest     \* ghost: the latest `now` of a committed retention, or -1

vars == <<db, work, pc, cutoffNow, lastAt, recorded, latest>>

Table == [Times -> Nat]
Tables == [raw : Table, rolled : Table,
           rawAt : SUBSET Times, rolledAt : SUBSET Times]
Nothing == [t \in Times |-> 0]

TypeOK ==
    /\ db \in Tables
    /\ work \in Tables
    /\ pc \in {"idle", "compact", "pruneRaw", "pruneRollups", "commit"}
    /\ cutoffNow \in Times \cup {-1}
    /\ pc # "idle" => cutoffNow \in Times
    /\ lastAt \in Times \cup {-1}
    /\ recorded \in Table
    /\ latest \in Times \cup {-1}

Init ==
    /\ db = [raw |-> Nothing, rolled |-> Nothing, rawAt |-> {}, rolledAt |-> {}]
    /\ work = db
    /\ pc = "idle"
    /\ cutoffNow = -1
    /\ lastAt = -1
    /\ recorded = Nothing
    /\ latest = -1

HourOf(t) == t \div HourTicks
HourStart(t) == HourOf(t) * HourTicks
RawCutoff(now) == now - RawKeep
RollupCutoff(now) == now - RollupKeep

(***************************************************************************)
(* record_batch commits a sample.  Its time is after the cursor's: an      *)
(* earlier one is rejected, and at the same instant only the same reading  *)
(* is taken, which adds nothing.  The connection runs one transaction at a *)
(* time.                                                                   *)
(***************************************************************************)
Record(t, d) ==
    /\ pc = "idle"
    /\ lastAt < t \/ (lastAt = t /\ d = 0)
    /\ db' = [db EXCEPT !.raw[t] = @ + d, !.rawAt = @ \cup {t}]
    /\ recorded' = [recorded EXCEPT ![t] = @ + d]
    /\ lastAt' = t
    /\ work' = db'
    /\ UNCHANGED <<pc, cutoffNow, latest>>

(***************************************************************************)
(* The three statements of apply_retention, each on the tables the         *)
(* transaction sees.                                                       *)
(***************************************************************************)

\* Mutant of Compactable: the row at the cutoff is compacted but not deleted.
CompactableAtCutoff(t, now) == t <= RawCutoff(now) /\ t >= RollupCutoff(now)

\* INSERT INTO counter_hourly_rollups ... ON CONFLICT ... delta_value + excluded
Compactable(t, now) == t < RawCutoff(now) /\ t >= RollupCutoff(now)

Compacted(tables, now) ==
    [tables EXCEPT !.rolled =
        [t \in Times |->
            IF Compactable(t, now) THEN @[t] + tables.raw[t] ELSE @[t]],
        !.rolledAt = @ \cup {t \in tables.rawAt : Compactable(t, now)}]

\* Mutant of RawPruned: the row at the cutoff is deleted as well.
RawPrunedAtCutoff(tables, now) ==
    [tables EXCEPT !.raw =
        [t \in Times |-> IF t <= RawCutoff(now) THEN 0 ELSE @[t]],
        !.rawAt = {t \in @ : ~ (t <= RawCutoff(now))}]

\* Mutant of RawPruned: rows stay until the rollup retention is over.
RawPrunedLate(tables, now) ==
    [tables EXCEPT !.raw =
        [t \in Times |-> IF t < RollupCutoff(now) THEN 0 ELSE @[t]],
        !.rawAt = {t \in @ : ~ (t < RollupCutoff(now))}]

\* DELETE FROM counter_samples WHERE observed_at < raw_cutoff
RawPruned(tables, now) ==
    [tables EXCEPT !.raw =
        [t \in Times |-> IF t < RawCutoff(now) THEN 0 ELSE @[t]],
        !.rawAt = {t \in @ : ~ (t < RawCutoff(now))}]

\* Mutant of RollupsPruned: the hour the cutoff falls into is deleted.
RollupsPrunedInHour(tables, now) ==
    [tables EXCEPT !.rolled =
        [t \in Times |-> IF HourStart(t) < RollupCutoff(now) THEN 0 ELSE @[t]],
        !.rolledAt = {t \in @ : ~ (HourStart(t) < RollupCutoff(now))}]

\* DELETE FROM counter_hourly_rollups WHERE bucket_start < rollup_delete_before
RollupsPruned(tables, now) ==
    [tables EXCEPT !.rolled =
        [t \in Times |->
            IF HourStart(t) < HourStart(RollupCutoff(now)) THEN 0 ELSE @[t]],
        !.rolledAt = {t \in @ : ~ (HourStart(t) < HourStart(RollupCutoff(now)))}]

BeginRetention(now) ==
    /\ pc = "idle"
    /\ cutoffNow' = now
    /\ work' = db
    /\ pc' = "compact"
    /\ UNCHANGED <<db, lastAt, recorded, latest>>

Compact ==
    /\ pc = "compact"
    /\ work' = Compacted(work, cutoffNow)
    /\ pc' = "pruneRaw"
    /\ UNCHANGED <<db, cutoffNow, lastAt, recorded, latest>>

PruneRaw ==
    /\ pc = "pruneRaw"
    /\ work' = RawPruned(work, cutoffNow)
    /\ pc' = "pruneRollups"
    /\ UNCHANGED <<db, cutoffNow, lastAt, recorded, latest>>

PruneRollups ==
    /\ pc = "pruneRollups"
    /\ work' = RollupsPruned(work, cutoffNow)
    /\ pc' = "commit"
    /\ UNCHANGED <<db, cutoffNow, lastAt, recorded, latest>>

EndRetention ==
    /\ pc' = "idle"
    /\ cutoffNow' = -1
    /\ UNCHANGED <<lastAt, recorded>>

Commit ==
    /\ pc = "commit"
    /\ db' = work
    /\ latest' = IF cutoffNow > latest THEN cutoffNow ELSE latest
    /\ EndRetention
    /\ UNCHANGED work

\* Mutant of Rollback: the statements so far stay (no enclosing transaction).
RollbackNothing ==
    /\ pc # "idle"
    /\ db' = work
    /\ EndRetention
    /\ UNCHANGED <<work, latest>>

\* A statement raises, or the collector dies inside the transaction.
Rollback ==
    /\ pc # "idle"
    /\ work' = db
    /\ EndRetention
    /\ UNCHANGED <<db, latest>>

Next ==
    \/ \E t \in Times, d \in Deltas : Record(t, d)
    \/ \E now \in Times : BeginRetention(now)
    \/ Compact \/ PruneRaw \/ PruneRollups \/ Commit \/ Rollback

Spec == Init /\ [][Next]_vars

----------------------------------------------------------------------------
(* Readers. *)

Total(table, ticks) == SumFunction([t \in ticks |-> table[t]])

From(t0) == {t \in Times : t >= t0}

\* SQLiteRepository._host_window: raw rows only, since now - 86400.
HostWindow(now) == Total(db.raw, From(now - Window))

(***************************************************************************)
(* series, in store.py and in web.py: raw rows since `since`, and the      *)
(* rollup rows from the hour of `since` on.  What these rows hold of each  *)
(* tick's bytes:                                                           *)
(***************************************************************************)
Series(since) ==
    [t \in Times |-> (IF t >= since THEN db.raw[t] ELSE 0)
                   + (IF t >= HourStart(since) THEN db.rolled[t] ELSE 0)]

(***************************************************************************)
(* SQLiteRepository.series draws these rows as a chart.  They are grouped  *)
(* by the bucket their time falls into, the host's in Python and Xray's in *)
(* SQL, the Xray buckets beyond `limit` are not selected, and the points   *)
(* of both before the last `limit` are cut off.  One counter stands for    *)
(* the host's and for Xray's: a row here is one of each.                   *)
(***************************************************************************)
ChartRows(since) ==
    {r \in [at : Times, of : {"raw", "rolled"}] :
        IF r.of = "raw" THEN r.at \in db.rawAt /\ r.at >= since
                        ELSE r.at \in db.rolledAt /\ r.at >= HourStart(since)}

\* The observed_at of the row.
RowTime(r) == IF r.of = "raw" THEN r.at ELSE HourStart(r.at)

\* Mutant of BucketTicks: the quotient is rounded down.
BucketTicksDown(span, limit) == Max({1, span \div limit})

\* max(1, ceil(max(1, now - since) / limit))
BucketTicks(span, limit) == (Max({1, span}) + limit - 1) \div limit

\* int((observed_at - since) // bucket_seconds)
HostBucket(t, since, ticks) == (t - since) \div ticks

\* CAST((observed_at - ?) / ? AS INTEGER), which drops the fraction
XrayBucket(t, since, ticks) ==
    IF t >= since THEN (t - since) \div ticks ELSE -((since - t) \div ticks)

\* ORDER BY bucket ASC LIMIT limit
FirstOf(buckets, limit) == {b \in buckets : Cardinality({c \in buckets : c < b}) < limit}

\* [...][-limit:]
LastOf(buckets, limit) == {b \in buckets : Cardinality({c \in buckets : c > b}) < limit}

Chart(now, since, limit) ==
    LET ticks     == BucketTicks(now - since, limit)
        host(r)   == HostBucket(RowTime(r), since, ticks)
        xray(r)   == XrayBucket(RowTime(r), since, ticks)
        rows      == ChartRows(since)
        selected  == FirstOf({xray(r) : r \in rows}, limit)
        points    == LastOf({host(r) : r \in rows} \cup selected, limit)
    IN [host |-> {r \in rows : host(r) \in points},
        xray |-> {r \in rows : xray(r) \in points \cap selected}]

----------------------------------------------------------------------------
(* What retention may never do. *)

(***************************************************************************)
(* Every recorded byte is in exactly one of the two tables until the       *)
(* rollup retention has passed over it: compaction neither loses a byte at *)
(* a cutoff, nor counts one twice across repeated, failed or interrupted   *)
(* runs, nor overwrites the part of an hour compacted before.              *)
(***************************************************************************)
KeptOnce ==
    \A t \in Times :
        /\ db.raw[t] + db.rolled[t] <= recorded[t]
        /\ (latest = -1 \/ t >= RollupCutoff(latest))
             => db.raw[t] + db.rolled[t] = recorded[t]

(***************************************************************************)
(* The dashboard's 24 hours are complete although they are summed from raw *)
(* rows alone, provided no retention has run at a later clock than the     *)
(* reader's.                                                               *)
(***************************************************************************)
WindowComplete ==
    \A now \in Times : now >= latest =>
        HostWindow(now) = Total(recorded, From(now - Window))

(***************************************************************************)
(* A chart from `since` on, if it lies within the rollup retention, shows  *)
(* every byte since then once, and otherwise at most the rest of the first *)
(* hour: hours that are partly raw and partly rolled up are not counted    *)
(* twice.                                                                  *)
(***************************************************************************)
SeriesComplete ==
    \A since, t \in Times : (latest = -1 \/ since >= RollupCutoff(latest)) =>
        /\ t >= since => Series(since)[t] = recorded[t]
        /\ Series(since)[t] <= (IF t >= HourStart(since) THEN recorded[t] ELSE 0)

(***************************************************************************)
(* A chart loses nothing but at its edges, and nothing at all, neither of  *)
(* the host's bytes nor of Xray's, unless it is crowded: there are more    *)
(* than `limit` buckets only if `limit` divides the span, or if the hour   *)
(* of `since` has a rollup row, which is before `since`.  Then the rows up *)
(* to the end of the first bucket and, of Xray, those of the last bucket's *)
(* length may be missing.  Rows are no later than the reader's clock.      *)
(***************************************************************************)
Crowded(span, limit, since) ==
    \/ Max({1, span}) % limit = 0
    \/ \E r \in ChartRows(since) : RowTime(r) < since

ChartComplete ==
    pc = "idle" =>
        \A since, now \in Times, limit \in Limits : since <= now /\ lastAt <= now =>
            LET chart == Chart(now, since, limit)
                ticks == BucketTicks(now - since, limit)
                rows  == ChartRows(since)
                Within(first, last) == {r \in rows : RowTime(r) \in first..last}
            IN /\ ~Crowded(now - since, limit, since) => (chart.host = rows /\ chart.xray = rows)
               /\ Within(since + ticks, now) \subseteq chart.host
               /\ Within(since + ticks, now - ticks - 1) \subseteq chart.xray

(***************************************************************************)
(* "Repeated calls are idempotent" (apply_retention's docstring): run      *)
(* again at the same `now` on what it left, retention changes nothing.     *)
(* (The committed tables are the same while a transaction is open.)        *)
(***************************************************************************)
Retained(tables, now) == RollupsPruned(RawPruned(Compacted(tables, now), now), now)

RetentionIdempotent ==
    pc = "idle" =>
        \A now \in Times : Retained(Retained(db, now), now) = Retained(db, now)

(***************************************************************************)
(* Why KeptOnce holds: however far the open transaction has come, what it  *)
(* sees is the first statements of one retention applied to what is        *)
(* committed, no tick after the cursor has been recorded, and bytes are    *)
(* only where there is a row.                                              *)
(***************************************************************************)
WorkInProgress ==
    work = CASE pc = "pruneRaw"     -> Compacted(db, cutoffNow)
             [] pc = "pruneRollups" -> RawPruned(Compacted(db, cutoffNow), cutoffNow)
             [] pc = "commit"       -> Retained(db, cutoffNow)
             [] OTHER               -> db

NothingAhead ==
    \A t \in Times : t > lastAt =>
        recorded[t] = 0 /\ t \notin db.rawAt /\ t \notin db.rolledAt

BytesInRows ==
    \A t \in Times : /\ t \notin db.rawAt => db.raw[t] = 0
                     /\ t \notin db.rolledAt => db.rolled[t] = 0

(***************************************************************************)
(* Why WindowComplete holds: nothing at or after the raw cutoff of the     *)
(* latest retention has moved to the rollups.                              *)
(***************************************************************************)
NothingRolledEarly ==
    \A t \in Times : (latest = -1 \/ t >= RawCutoff(latest)) => db.rolled[t] = 0

RetentionInv ==
    /\ TypeOK /\ WorkInProgress /\ NothingAhead /\ BytesInRows
    /\ KeptOnce /\ NothingRolledEarly
=============================================================================
