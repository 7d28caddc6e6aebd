--------------------------- MODULE RetentionProofs ---------------------------
(***************************************************************************)
(* Proofs about Retention for every clock, every amount and every          *)
(* retention length the configuration admits.                              *)
(***************************************************************************)
EXTENDS Retention, FiniteSetTheorems, TLAPS

USE TimesAssumption, DeltasAssumption, HourAssumption, KeepAssumption

\* An hour starts at or before the instants in it.
LEMMA HourStartType ==
    ASSUME NEW t \in Int
    PROVE  HourStart(t) \in Int /\ HourStart(t) <= t /\ t < HourStart(t) + HourTicks
<1>1. /\ t \div HourTicks \in Int
      /\ HourTicks * (t \div HourTicks) <= t
      /\ t < HourTicks * (t \div HourTicks) + HourTicks
  OBVIOUS
<1>2. QED
  BY <1>1 DEF HourStart, HourOf

\* An earlier instant is in no later hour.
LEMMA HourStartMonotone ==
    ASSUME NEW a \in Int, NEW b \in Int, a <= b
    PROVE  HourStart(a) <= HourStart(b)
<1>1. /\ a \div HourTicks \in Int /\ b \div HourTicks \in Int
      /\ HourTicks * (a \div HourTicks) <= a
      /\ b < HourTicks * (b \div HourTicks) + HourTicks
  OBVIOUS
<1>2. a \div HourTicks <= b \div HourTicks
  BY <1>1
<1>3. QED
  BY <1>1, <1>2 DEF HourStart, HourOf

\* Each statement leaves tables behind it.
LEMMA StatementTypes ==
    ASSUME NEW tables \in Tables, NEW now \in Times
    PROVE  /\ Compacted(tables, now) \in Tables
           /\ RawPruned(tables, now) \in Tables
           /\ RollupsPruned(tables, now) \in Tables
<1>1. now \in Int /\ \A t \in Times : t \in Int
  OBVIOUS
<1>2. \A t \in Times : tables.raw[t] \in Nat /\ tables.rolled[t] \in Nat
  BY DEF Tables, Table
<1>3. [t \in Times |-> IF Compactable(t, now)
                       THEN tables.rolled[t] + tables.raw[t]
                       ELSE tables.rolled[t]] \in Table
  BY <1>2 DEF Table
<1>4. [t \in Times |-> IF t < RawCutoff(now) THEN 0 ELSE tables.raw[t]] \in Table
  BY <1>2 DEF Table
<1>5. [t \in Times |-> IF HourStart(t) < HourStart(RollupCutoff(now))
                       THEN 0 ELSE tables.rolled[t]] \in Table
  BY <1>2 DEF Table
<1>6. tables.rawAt \subseteq Times /\ tables.rolledAt \subseteq Times
  BY DEF Tables
<1>7. QED
  BY <1>3, <1>4, <1>5, <1>6 DEF Compacted, RawPruned, RollupsPruned, Tables

LEMMA RetainedType ==
    ASSUME NEW tables \in Tables, NEW now \in Times
    PROVE  Retained(tables, now) \in Tables
  BY StatementTypes DEF Retained

(***************************************************************************)
(* What one retention does to one tick: it moves a sample below the raw    *)
(* cutoff from one table to the other, unless it is older than the rollup  *)
(* cutoff.                                                                 *)
(***************************************************************************)
LEMMA RetainedTick ==
    ASSUME NEW tables \in Tables, NEW now \in Times, NEW t \in Times
    PROVE  LET after == Retained(tables, now)
           IN  /\ after.raw[t] + after.rolled[t] <= tables.raw[t] + tables.rolled[t]
               /\ t >= RollupCutoff(now) =>
                    after.raw[t] + after.rolled[t] = tables.raw[t] + tables.rolled[t]
<1> DEFINE compacted == Compacted(tables, now)
           pruned == RawPruned(compacted, now)
           after == RollupsPruned(pruned, now)
<1>1. compacted \in Tables /\ pruned \in Tables /\ after \in Tables
  BY StatementTypes
<1>2. tables.raw[t] \in Nat /\ tables.rolled[t] \in Nat /\ t \in Int /\ now \in Int
  BY DEF Tables, Table
<1>3. /\ compacted.raw = tables.raw
      /\ compacted.rolled[t] = (IF Compactable(t, now)
                                THEN tables.rolled[t] + tables.raw[t]
                                ELSE tables.rolled[t])
  BY DEF Compacted, Tables, Table
<1>4. /\ pruned.rolled = compacted.rolled
      /\ pruned.raw[t] = (IF t < RawCutoff(now) THEN 0 ELSE compacted.raw[t])
  BY <1>1 DEF RawPruned, Tables, Table
<1>5. /\ after.raw = pruned.raw
      /\ after.rolled[t] = (IF HourStart(t) < HourStart(RollupCutoff(now))
                            THEN 0 ELSE pruned.rolled[t])
  BY <1>1 DEF RollupsPruned, Tables, Table
<1>6. RollupCutoff(now) \in Int /\ RollupCutoff(now) < RawCutoff(now)
  BY <1>2 DEF RollupCutoff, RawCutoff
<1>7. t >= RollupCutoff(now) => HourStart(RollupCutoff(now)) <= HourStart(t)
  BY <1>2, <1>6, HourStartMonotone
<1>8. HourStart(RollupCutoff(now)) \in Int /\ HourStart(t) \in Int
  BY <1>2, <1>6 DEF HourStart, HourOf
<1> HIDE DEF compacted, pruned, after
<1>9. after.raw[t] = (IF t < RawCutoff(now) THEN 0 ELSE tables.raw[t])
  BY <1>3, <1>4, <1>5
<1>10. after.rolled[t] <= (IF Compactable(t, now)
                          THEN tables.rolled[t] + tables.raw[t]
                          ELSE tables.rolled[t])
  BY <1>2, <1>3, <1>4, <1>5
<1>11. t >= RollupCutoff(now) =>
         after.rolled[t] = (IF Compactable(t, now)
                            THEN tables.rolled[t] + tables.raw[t]
                            ELSE tables.rolled[t])
  BY <1>3, <1>4, <1>5, <1>7, <1>8
<1>12. after.rolled[t] \in Nat /\ RawCutoff(now) \in Int
  BY <1>1, <1>2 DEF Tables, Table, RawCutoff
<1>13. /\ after.raw[t] + after.rolled[t] <= tables.raw[t] + tables.rolled[t]
       /\ t >= RollupCutoff(now) =>
            after.raw[t] + after.rolled[t] = tables.raw[t] + tables.rolled[t]
  <2>1. CASE t < RawCutoff(now) /\ t >= RollupCutoff(now)
    BY <1>2, <1>9, <1>11, <2>1 DEF Compactable
  <2>2. CASE t < RawCutoff(now) /\ ~ (t >= RollupCutoff(now))
    BY <1>2, <1>9, <1>10, <1>12, <2>2 DEF Compactable
  <2>3. CASE ~ (t < RawCutoff(now))
    BY <1>2, <1>6, <1>9, <1>10, <1>11, <1>12, <2>3 DEF Compactable
  <2>4. QED
    BY <2>1, <2>2, <2>3
<1>14. QED
  BY <1>13 DEF Retained, compacted, pruned, after

\* What one retention leaves of one tick, exactly.
LEMMA RetainedExactly ==
    ASSUME NEW tables \in Tables, NEW now \in Times, NEW t \in Times
    PROVE  /\ Retained(tables, now).raw[t] =
                  (IF t < RawCutoff(now) THEN 0 ELSE tables.raw[t])
           /\ Retained(tables, now).rolled[t] =
                  (IF HourStart(t) < HourStart(RollupCutoff(now)) THEN 0
                   ELSE IF Compactable(t, now) THEN tables.rolled[t] + tables.raw[t]
                   ELSE tables.rolled[t])
<1> DEFINE compacted == Compacted(tables, now)
           pruned == RawPruned(compacted, now)
<1>1. compacted \in Tables /\ pruned \in Tables
  BY StatementTypes
<1>2. /\ compacted.raw = tables.raw
      /\ compacted.rolled[t] = (IF Compactable(t, now)
                                THEN tables.rolled[t] + tables.raw[t]
                                ELSE tables.rolled[t])
  BY DEF Compacted, Tables, Table
<1>3. /\ pruned.rolled = compacted.rolled
      /\ pruned.raw[t] = (IF t < RawCutoff(now) THEN 0 ELSE compacted.raw[t])
  BY <1>1 DEF RawPruned, Tables, Table
<1>4. /\ RollupsPruned(pruned, now).raw = pruned.raw
      /\ RollupsPruned(pruned, now).rolled[t] =
            (IF HourStart(t) < HourStart(RollupCutoff(now)) THEN 0 ELSE pruned.rolled[t])
  BY <1>1 DEF RollupsPruned, Tables, Table
<1>5. QED
  BY <1>2, <1>3, <1>4 DEF Retained

\* The rows one retention leaves: those of samples at or after the raw
\* cutoff, and those of hours that were rolled up, now or before.
LEMMA RetainedRows ==
    ASSUME NEW tables \in Tables, NEW now \in Times, NEW t \in Times
    PROVE  /\ t \in Retained(tables, now).rawAt
                <=> t \in tables.rawAt /\ ~ (t < RawCutoff(now))
           /\ t \in Retained(tables, now).rolledAt
                <=> /\ \/ t \in tables.rolledAt
                       \/ t \in tables.rawAt /\ Compactable(t, now)
                    /\ ~ (HourStart(t) < HourStart(RollupCutoff(now)))
<1> DEFINE compacted == Compacted(tables, now)
           pruned == RawPruned(compacted, now)
<1>1. compacted \in Tables /\ pruned \in Tables
  BY StatementTypes
<1>2. /\ compacted.rawAt = tables.rawAt
      /\ compacted.rolledAt =
            tables.rolledAt \cup {u \in tables.rawAt : Compactable(u, now)}
  BY DEF Compacted, Tables
<1>3. /\ pruned.rolledAt = compacted.rolledAt
      /\ pruned.rawAt = {u \in compacted.rawAt : ~ (u < RawCutoff(now))}
  BY <1>1 DEF RawPruned, Tables
<1>4. /\ RollupsPruned(pruned, now).rawAt = pruned.rawAt
      /\ RollupsPruned(pruned, now).rolledAt =
            {u \in pruned.rolledAt : ~ (HourStart(u) < HourStart(RollupCutoff(now)))}
  BY <1>1 DEF RollupsPruned, Tables
<1>5. QED
  BY <1>2, <1>3, <1>4 DEF Retained

----------------------------------------------------------------------------

LEMMA InitRetentionInv == Init => RetentionInv
<1> SUFFICES ASSUME Init PROVE RetentionInv
  OBVIOUS
<1>1. Nothing \in Table /\ \A t \in Times : Nothing[t] = 0
  BY DEF Nothing, Table
<1>2. TypeOK
  BY <1>1 DEF Init, TypeOK, Tables
<1>3. QED
  BY <1>1, <1>2 DEF Init, RetentionInv, WorkInProgress, NothingAhead,
                    BytesInRows, KeptOnce, NothingRolledEarly

LEMMA StepTypeOK == RetentionInv /\ [Next]_vars => TypeOK'
<1> SUFFICES ASSUME RetentionInv, [Next]_vars PROVE TypeOK'
  OBVIOUS
<1>0. TypeOK
  BY DEF RetentionInv
<1> USE <1>0 DEF TypeOK
<1>1. ASSUME NEW t \in Times, NEW d \in Deltas, Record(t, d)
      PROVE  TypeOK'
  <2>1. db.raw \in Table /\ db.rolled \in Table /\ d \in Nat
    BY DEF Tables
  <2>2. [db.raw EXCEPT ![t] = @ + d] \in Table /\ [recorded EXCEPT ![t] = @ + d] \in Table
    <3>1. ASSUME NEW f \in Table
          PROVE  [f EXCEPT ![t] = @ + d] \in Table
      <4>1. f[t] + d \in Nat
        BY <2>1, <3>1 DEF Table
      <4>2. QED
        BY <3>1, <4>1 DEF Table
    <3>2. QED
      BY <2>1, <3>1
  <2>3. db' = [raw |-> [db.raw EXCEPT ![t] = @ + d], rolled |-> db.rolled,
               rawAt |-> db.rawAt \cup {t}, rolledAt |-> db.rolledAt]
    BY <1>1 DEF Record, Tables
  <2>4. db.rawAt \cup {t} \subseteq Times /\ db.rolledAt \subseteq Times
    BY DEF Tables
  <2>5. db' \in Tables
    BY <2>1, <2>2, <2>3, <2>4 DEF Tables
  <2>6. QED
    BY <1>1, <2>2, <2>5 DEF Record
<1>2. ASSUME NEW now \in Times, BeginRetention(now)
      PROVE  TypeOK'
  BY <1>2 DEF BeginRetention
<1>3. CASE Compact
  BY <1>3, StatementTypes DEF Compact
<1>4. CASE PruneRaw
  BY <1>4, StatementTypes DEF PruneRaw
<1>5. CASE PruneRollups
  BY <1>5, StatementTypes DEF PruneRollups
<1>6. CASE Commit \/ Rollback
  BY <1>6 DEF Commit, Rollback, EndRetention
<1>7. CASE UNCHANGED vars
  BY <1>7 DEF vars
<1>8. QED
  BY <1>1, <1>2, <1>3, <1>4, <1>5, <1>6, <1>7 DEF Next

LEMMA StepWork == RetentionInv /\ [Next]_vars => WorkInProgress'
<1> SUFFICES ASSUME RetentionInv, [Next]_vars
             PROVE  WorkInProgress'
  OBVIOUS
<1>0. TypeOK /\ WorkInProgress
  BY DEF RetentionInv
<1>1. ASSUME NEW t \in Times, NEW d \in Deltas, Record(t, d)
      PROVE  WorkInProgress'
  BY <1>1 DEF Record, WorkInProgress
<1>2. ASSUME NEW now \in Times, BeginRetention(now)
      PROVE  WorkInProgress'
  BY <1>0, <1>2 DEF BeginRetention, WorkInProgress
<1>3. CASE Compact \/ PruneRaw \/ PruneRollups
  BY <1>0, <1>3 DEF Compact, PruneRaw, PruneRollups, WorkInProgress, Retained
<1>4. CASE Commit \/ Rollback
  BY <1>0, <1>4 DEF Commit, Rollback, EndRetention, WorkInProgress
<1>5. CASE UNCHANGED vars
  BY <1>0, <1>5 DEF vars, WorkInProgress
<1>6. QED
  BY <1>1, <1>2, <1>3, <1>4, <1>5 DEF Next

LEMMA StepRows == RetentionInv /\ [Next]_vars => NothingAhead' /\ BytesInRows'
<1> SUFFICES ASSUME RetentionInv, [Next]_vars, NEW t \in Times
             PROVE  /\ t > lastAt' => /\ recorded'[t] = 0
                                      /\ t \notin db'.rawAt /\ t \notin db'.rolledAt
                    /\ t \notin db'.rawAt => db'.raw[t] = 0
                    /\ t \notin db'.rolledAt => db'.rolled[t] = 0
  BY DEF NothingAhead, BytesInRows
<1>0. /\ TypeOK /\ WorkInProgress /\ db \in Tables /\ recorded \in Table
      /\ t \in Int /\ lastAt \in Int
      /\ t > lastAt => recorded[t] = 0 /\ t \notin db.rawAt /\ t \notin db.rolledAt
      /\ t \notin db.rawAt => db.raw[t] = 0
      /\ t \notin db.rolledAt => db.rolled[t] = 0
  <2>1. TypeOK /\ WorkInProgress /\ NothingAhead /\ BytesInRows
    BY DEF RetentionInv
  <2>2. db \in Tables /\ recorded \in Table /\ lastAt \in Int /\ t \in Int
    BY <2>1 DEF TypeOK
  <2>3. QED
    BY <2>1, <2>2 DEF NothingAhead, BytesInRows
<1>1. ASSUME NEW u \in Times, NEW d \in Deltas, Record(u, d)
      PROVE  /\ t > lastAt' => /\ recorded'[t] = 0
                               /\ t \notin db'.rawAt /\ t \notin db'.rolledAt
             /\ t \notin db'.rawAt => db'.raw[t] = 0
             /\ t \notin db'.rolledAt => db'.rolled[t] = 0
  <2>1. /\ lastAt' = u /\ u \in Int /\ u >= lastAt
        /\ db'.rawAt = db.rawAt \cup {u} /\ db'.rolledAt = db.rolledAt
        /\ db'.rolled = db.rolled
    BY <1>0, <1>1 DEF Record, Tables
  <2>2. t # u => db'.raw[t] = db.raw[t] /\ recorded'[t] = recorded[t]
    BY <1>0, <1>1 DEF Record, Tables, Table
  <2>3. QED
    BY <1>0, <2>1, <2>2
<1>2. CASE Commit
  <2>1. /\ cutoffNow \in Times /\ cutoffNow \in Int
        /\ db' = Retained(db, cutoffNow)
        /\ recorded' = recorded /\ lastAt' = lastAt
    BY <1>0, <1>2 DEF Commit, EndRetention, WorkInProgress, TypeOK
  <2>2. /\ t \in db'.rawAt <=> t \in db.rawAt /\ ~ (t < RawCutoff(cutoffNow))
        /\ t \in db'.rolledAt
             <=> /\ \/ t \in db.rolledAt
                    \/ t \in db.rawAt /\ Compactable(t, cutoffNow)
                 /\ ~ (HourStart(t) < HourStart(RollupCutoff(cutoffNow)))
    BY <1>0, <2>1, RetainedRows
  <2>3. /\ db'.raw[t] = (IF t < RawCutoff(cutoffNow) THEN 0 ELSE db.raw[t])
        /\ db'.rolled[t] =
              (IF HourStart(t) < HourStart(RollupCutoff(cutoffNow)) THEN 0
               ELSE IF Compactable(t, cutoffNow) THEN db.rolled[t] + db.raw[t]
               ELSE db.rolled[t])
    BY <1>0, <2>1, RetainedExactly
  <2>4. QED
    BY <1>0, <2>1, <2>2, <2>3
<1>3. CASE UNCHANGED <<db, recorded, lastAt>>
  BY <1>0, <1>3
<1>4. QED
  BY <1>1, <1>2, <1>3
  DEF Next, vars, BeginRetention, Compact, PruneRaw, PruneRollups, Rollback,
      EndRetention

LEMMA StepKeptOnce == RetentionInv /\ [Next]_vars => KeptOnce'
<1> SUFFICES ASSUME RetentionInv, [Next]_vars, NEW t \in Times
             PROVE  /\ db'.raw[t] + db'.rolled[t] <= recorded'[t]
                    /\ (latest' = -1 \/ t >= RollupCutoff(latest'))
                         => db'.raw[t] + db'.rolled[t] = recorded'[t]
  BY DEF KeptOnce
<1>0. /\ TypeOK /\ WorkInProgress
      /\ db.raw[t] + db.rolled[t] <= recorded[t]
      /\ (latest = -1 \/ t >= RollupCutoff(latest))
           => db.raw[t] + db.rolled[t] = recorded[t]
  BY DEF RetentionInv, KeptOnce
<1>1. /\ db.raw[t] \in Nat /\ db.rolled[t] \in Nat /\ recorded[t] \in Nat
      /\ t \in Int /\ latest \in Int
  BY <1>0 DEF TypeOK, Tables, Table
<1>2. ASSUME NEW u \in Times, NEW d \in Deltas, Record(u, d)
      PROVE  /\ db'.raw[t] + db'.rolled[t] <= recorded'[t]
             /\ (latest' = -1 \/ t >= RollupCutoff(latest'))
                  => db'.raw[t] + db'.rolled[t] = recorded'[t]
  <2>1. /\ db'.raw[t] = (IF t = u THEN db.raw[t] + d ELSE db.raw[t])
        /\ db'.rolled[t] = db.rolled[t]
        /\ recorded'[t] = (IF t = u THEN recorded[t] + d ELSE recorded[t])
        /\ latest' = latest
    BY <1>0, <1>2 DEF Record, TypeOK, Tables, Table
  <2>2. d \in Nat
    OBVIOUS
  <2>3. QED
    BY <1>0, <1>1, <2>1, <2>2
<1>3. CASE Commit
  <2>1. /\ cutoffNow \in Times /\ db \in Tables
        /\ db' = Retained(db, cutoffNow) /\ recorded' = recorded
    BY <1>0, <1>3 DEF Commit, EndRetention, WorkInProgress, TypeOK
  <2>2. /\ db'.raw[t] + db'.rolled[t] <= db.raw[t] + db.rolled[t]
        /\ t >= RollupCutoff(cutoffNow) =>
             db'.raw[t] + db'.rolled[t] = db.raw[t] + db.rolled[t]
    BY <2>1, RetainedTick
  <2>3. db'.raw[t] \in Nat /\ db'.rolled[t] \in Nat
    BY <2>1, RetainedType DEF Tables, Table
  <2>4. /\ cutoffNow \in Nat
        /\ latest' = (IF cutoffNow > latest THEN cutoffNow ELSE latest)
    BY <1>3, <2>1 DEF Commit
  <2>5. (latest' = -1 \/ t >= RollupCutoff(latest')) =>
          /\ t >= RollupCutoff(cutoffNow)
          /\ latest = -1 \/ t >= RollupCutoff(latest)
    BY <1>1, <2>4 DEF RollupCutoff
  <2>6. QED
    BY <1>0, <1>1, <2>1, <2>2, <2>3, <2>5
<1>4. CASE UNCHANGED <<db, recorded, latest>>
  BY <1>0, <1>4
<1>5. QED
  BY <1>2, <1>3, <1>4
  DEF Next, vars, BeginRetention, Compact, PruneRaw, PruneRollups, Rollback,
      EndRetention

LEMMA StepNothingRolledEarly ==
    RetentionInv /\ [Next]_vars => NothingRolledEarly'
<1> SUFFICES ASSUME RetentionInv, [Next]_vars, NEW t \in Times,
                    latest' = -1 \/ t >= RawCutoff(latest')
             PROVE  db'.rolled[t] = 0
  BY DEF NothingRolledEarly
<1>0. TypeOK /\ WorkInProgress /\ NothingRolledEarly
  BY DEF RetentionInv
<1>1. t \in Int /\ latest \in Int /\ db \in Tables
  BY <1>0 DEF TypeOK
<1>2. ASSUME NEW u \in Times, NEW d \in Deltas, Record(u, d)
      PROVE  db'.rolled[t] = 0
  BY <1>0, <1>1, <1>2 DEF Record, NothingRolledEarly, Tables
<1>3. CASE Commit
  <2>1. /\ cutoffNow \in Times /\ cutoffNow \in Nat
        /\ db' = Retained(db, cutoffNow)
        /\ latest' = (IF cutoffNow > latest THEN cutoffNow ELSE latest)
    BY <1>0, <1>3 DEF Commit, WorkInProgress, TypeOK
  <2>2. /\ ~ (t < RawCutoff(cutoffNow))
        /\ latest = -1 \/ t >= RawCutoff(latest)
    BY <1>1, <2>1 DEF RawCutoff
  <2>3. db.rolled[t] = 0
    BY <1>0, <2>2 DEF NothingRolledEarly
  <2>4. QED
    BY <1>1, <2>1, <2>2, <2>3, RetainedExactly DEF Compactable
<1>4. CASE UNCHANGED <<db, latest>>
  BY <1>0, <1>4 DEF NothingRolledEarly
<1>5. QED
  BY <1>2, <1>3, <1>4
  DEF Next, vars, BeginRetention, Compact, PruneRaw, PruneRollups, Rollback,
      EndRetention

\* The inductive invariant of retention, the transaction under way included.
THEOREM RetentionInvariant == Spec => []RetentionInv
<1>1. RetentionInv /\ [Next]_vars => RetentionInv'
  BY StepTypeOK, StepWork, StepRows, StepKeptOnce, StepNothingRolledEarly
  DEF RetentionInv
<1>2. QED
  BY <1>1, InitRetentionInv, PTL DEF Spec

\* Until the rollup retention has passed over it every recorded byte is in
\* exactly one of the two tables, however runs fail, repeat or are torn.
THEOREM RetentionKeepsOnce == Spec => []KeptOnce
<1>1. RetentionInv => KeptOnce
  BY DEF RetentionInv
<1>2. QED
  BY <1>1, RetentionInvariant, PTL

(***************************************************************************)
(* The dashboard's 24 hours of raw rows are complete: the window ends at   *)
(* or after the raw cutoff, below which alone rows move to the rollups.    *)
(***************************************************************************)
THEOREM WindowIsComplete == Spec => []WindowComplete
<1>1. RetentionInv => WindowComplete
  <2> SUFFICES ASSUME RetentionInv, NEW now \in Times, now >= latest
               PROVE  HostWindow(now) = Total(recorded, From(now - Window))
    BY DEF WindowComplete
  <2>1. TypeOK /\ KeptOnce /\ NothingRolledEarly
    BY DEF RetentionInv
  <2>2. ASSUME NEW t \in From(now - Window)
        PROVE  db.raw[t] = recorded[t]
    <3>1. /\ t \in Times /\ t \in Int /\ t >= now - Window
          /\ now \in Int /\ latest \in Int
      BY <2>1, <2>2 DEF From, TypeOK
    <3>2. /\ latest = -1 \/ t >= RawCutoff(latest)
          /\ latest = -1 \/ t >= RollupCutoff(latest)
      BY <3>1 DEF RawCutoff, RollupCutoff
    <3>3. db.rolled[t] = 0 /\ db.raw[t] + db.rolled[t] = recorded[t]
      BY <2>1, <3>1, <3>2 DEF NothingRolledEarly, KeptOnce
    <3>4. db.raw[t] \in Nat
      BY <2>1, <3>1 DEF TypeOK, Tables, Table
    <3>5. QED
      BY <3>3, <3>4
  <2>3. [t \in From(now - Window) |-> db.raw[t]]
          = [t \in From(now - Window) |-> recorded[t]]
    BY <2>2, Zenon
  <2>4. QED
    BY <2>3, Zenon DEF HostWindow, Total
<1>2. QED
  BY <1>1, RetentionInvariant, PTL

(***************************************************************************)
(* A chart counts every byte since its start once, and of earlier bytes    *)
(* at most those of its first hour.                                        *)
(***************************************************************************)
THEOREM SeriesIsComplete == Spec => []SeriesComplete
<1>1. RetentionInv => SeriesComplete
  <2> SUFFICES ASSUME RetentionInv, NEW since \in Times, NEW t \in Times,
                      latest = -1 \/ since >= RollupCutoff(latest)
               PROVE  /\ t >= since => Series(since)[t] = recorded[t]
                      /\ Series(since)[t] <=
                           (IF t >= HourStart(since) THEN recorded[t] ELSE 0)
    BY DEF SeriesComplete
  <2>1. /\ since \in Int /\ t \in Int /\ latest \in Int
        /\ db.raw[t] \in Nat /\ db.rolled[t] \in Nat /\ recorded[t] \in Nat
    BY DEF RetentionInv, TypeOK, Tables, Table
  <2>2. /\ db.raw[t] + db.rolled[t] <= recorded[t]
        /\ t >= since => db.raw[t] + db.rolled[t] = recorded[t]
    BY <2>1 DEF RetentionInv, KeptOnce, RollupCutoff
  <2>3. HourStart(since) \in Int /\ HourStart(since) <= since
    BY <2>1, HourStartType
  <2>4. Series(since)[t] = (IF t >= since THEN db.raw[t] ELSE 0)
                         + (IF t >= HourStart(since) THEN db.rolled[t] ELSE 0)
    BY DEF Series
  <2>5. QED
    BY <2>1, <2>2, <2>3, <2>4
<1>2. QED
  BY <1>1, RetentionInvariant, PTL

LEMMA SameTable ==
    ASSUME NEW f \in Table, NEW g \in Table, \A t \in Times : f[t] = g[t]
    PROVE  f = g
<1>1. /\ f = [t \in Times |-> f[t]]
      /\ g = [t \in Times |-> g[t]]
  BY Zenon DEF Table
<1>2. [t \in Times |-> f[t]] = [t \in Times |-> g[t]]
  BY Zenon
<1>3. QED
  BY <1>1, <1>2

\* Retention that runs again at the same clock changes nothing.
THEOREM RetentionIsIdempotent == Spec => []RetentionIdempotent
<1>1. ASSUME NEW tables \in Tables, NEW now \in Times
      PROVE  Retained(Retained(tables, now), now) = Retained(tables, now)
  <2> DEFINE once  == Retained(tables, now)
             twice == Retained(once, now)
  <2>1. once \in Tables /\ twice \in Tables
    BY RetainedType
  <2>2. ASSUME NEW t \in Times
        PROVE  twice.raw[t] = once.raw[t] /\ twice.rolled[t] = once.rolled[t]
    <3>1. /\ once.raw[t] = (IF t < RawCutoff(now) THEN 0 ELSE tables.raw[t])
          /\ HourStart(t) < HourStart(RollupCutoff(now)) => once.rolled[t] = 0
      BY RetainedExactly
    <3>2. /\ twice.raw[t] = (IF t < RawCutoff(now) THEN 0 ELSE once.raw[t])
          /\ twice.rolled[t] =
                (IF HourStart(t) < HourStart(RollupCutoff(now)) THEN 0
                 ELSE IF Compactable(t, now) THEN once.rolled[t] + once.raw[t]
                 ELSE once.rolled[t])
      BY <2>1, RetainedExactly
    <3>3. once.rolled[t] \in Nat /\ once.raw[t] \in Nat
      BY <2>1 DEF Tables, Table
    <3>4. Compactable(t, now) => t < RawCutoff(now)
      BY DEF Compactable
    <3> HIDE DEF once, twice
    <3>5. QED
      BY <3>1, <3>2, <3>3, <3>4
  <2>3. twice.raw = once.raw /\ twice.rolled = once.rolled
    <3>1. /\ twice.raw \in Table /\ twice.rolled \in Table
          /\ once.raw \in Table /\ once.rolled \in Table
      BY <2>1 DEF Tables
    <3> HIDE DEF once, twice
    <3>2. QED
      BY <2>2, <3>1, SameTable
  <2>4. ASSUME NEW t \in Times
        PROVE  /\ t \in twice.rawAt <=> t \in once.rawAt
               /\ t \in twice.rolledAt <=> t \in once.rolledAt
    <3>1. /\ t \in once.rawAt <=> t \in tables.rawAt /\ ~ (t < RawCutoff(now))
          /\ t \in once.rolledAt
               => ~ (HourStart(t) < HourStart(RollupCutoff(now)))
      BY RetainedRows
    <3>2. /\ t \in twice.rawAt <=> t \in once.rawAt /\ ~ (t < RawCutoff(now))
          /\ t \in twice.rolledAt
               <=> /\ \/ t \in once.rolledAt
                      \/ t \in once.rawAt /\ Compactable(t, now)
                   /\ ~ (HourStart(t) < HourStart(RollupCutoff(now)))
      BY <2>1, RetainedRows
    <3>3. Compactable(t, now) => t < RawCutoff(now)
      BY DEF Compactable
    <3> HIDE DEF once, twice
    <3>4. QED
      BY <3>1, <3>2, <3>3
  <2> HIDE DEF once, twice
  <2>5. twice.rawAt = once.rawAt /\ twice.rolledAt = once.rolledAt
    BY <2>1, <2>4 DEF Tables
  <2>6. twice = once
    BY <2>1, <2>3, <2>5 DEF Tables
  <2>7. QED
    BY <2>6 DEF once, twice
<1>2. RetentionInv => RetentionIdempotent
  BY <1>1 DEF RetentionInv, TypeOK, RetentionIdempotent
<1>3. QED
  BY <1>2, RetentionInvariant, PTL

----------------------------------------------------------------------------
(* Charts. *)

\* Quotients, by the two bounds that define them.
LEMMA Quotient ==
    ASSUME NEW x \in Int, NEW d \in Nat \ {0}, NEW k \in Int
    PROVE  /\ x \div d \in Int
           /\ x >= d * k => x \div d >= k
           /\ x < d * k  => x \div d < k
<1>1. /\ x \div d \in Int
      /\ d * (x \div d) <= x
      /\ x < d * (x \div d) + d
  OBVIOUS
<1>2. ASSUME NEW q \in Int, d * q <= x, x < d * q + d
      PROVE  (x >= d * k => q >= k) /\ (x < d * k => q < k)
  <2>1. ASSUME q + 1 <= k PROVE d * (q + 1) <= d * k
    BY <2>1
  <2>2. ASSUME k <= q PROVE d * k <= d * q
    BY <2>2
  <2>3. d * (q + 1) = d * q + d /\ d * k \in Int /\ d * q \in Int
    OBVIOUS
  <2>4. QED
    BY <1>2, <2>1, <2>2, <2>3
<1>3. QED
  BY <1>1, <1>2

LEMMA AtLeastOne ==
    ASSUME NEW x \in Int
    PROVE  Max({1, x}) = (IF x >= 1 THEN x ELSE 1)
<1>1. \E m \in {1, x} : \A y \in {1, x} : m >= y
  OBVIOUS
<1>2. /\ Max({1, x}) \in {1, x}
      /\ \A y \in {1, x} : Max({1, x}) >= y
  BY <1>1, Zenon DEF Max
<1>3. QED
  BY <1>2

\* The buckets of a chart, `limit` of them, cover its span, and more than
\* cover it unless `limit` divides the span.
LEMMA BucketsCover ==
    ASSUME NEW span \in Nat, NEW limit \in Nat \ {0}
    PROVE  /\ BucketTicks(span, limit) \in Nat \ {0}
           /\ span <= BucketTicks(span, limit) * limit
           /\ Max({1, span}) % limit # 0 => span < BucketTicks(span, limit) * limit
<1> DEFINE m == Max({1, span})
           ticks == (m + limit - 1) \div limit
<1>1. m \in Nat /\ m >= 1 /\ m >= span /\ (span # m => span < m)
  BY AtLeastOne
<1> HIDE DEF m
<1>2. /\ ticks \in Int
      /\ limit * ticks <= m + limit - 1
      /\ m + limit - 1 < limit * ticks + limit
  BY <1>1
<1>3. m <= limit * ticks
  BY <1>1, <1>2
<1>4. ticks >= 1
  BY <1>1, Quotient
<1>5. m % limit # 0 => m # limit * ticks
  <2>1. ASSUME NEW q \in Int PROVE (limit * q) % limit = 0
    OBVIOUS
  <2>2. QED
    BY <1>2, <2>1
<1> HIDE DEF ticks
<1>6. ticks \in Nat \ {0} /\ limit * ticks = ticks * limit /\ ticks * limit \in Int
  BY <1>2, <1>4 DEF ticks
<1>7. /\ span <= ticks * limit
      /\ m % limit # 0 => span < ticks * limit
  BY <1>1, <1>3, <1>5, <1>6
<1>8. QED
  BY <1>6, <1>7 DEF BucketTicks, m, ticks

\* A set of at most n neighbouring integers.
LEMMA FewBetween ==
    ASSUME NEW a \in Int, NEW b \in Int, NEW n \in Nat, b - a + 1 <= n,
           NEW S, \A c \in S : c \in Int /\ a <= c /\ c <= b
    PROVE  IsFiniteSet(S) /\ Cardinality(S) \in Nat /\ Cardinality(S) <= n
<1>0. S \in SUBSET (a .. b)
  OBVIOUS
<1>1. IsFiniteSet(a .. b) /\ Cardinality(a .. b) <= n
  <2>1. /\ IsFiniteSet(a .. b)
        /\ Cardinality(a .. b) = (IF a > b THEN 0 ELSE b - a + 1)
    BY FS_Interval
  <2>2. QED
    BY <2>1
<1>2. IsFiniteSet(S) /\ Cardinality(S) <= Cardinality(a .. b)
  BY <1>0, <1>1, FS_Subset
<1>3. Cardinality(S) \in Nat /\ Cardinality(a .. b) \in Nat
  BY <1>1, <1>2, FS_CardinalityType
<1>4. QED
  BY <1>1, <1>2, <1>3

\* The start of an hour is in that hour.
LEMMA HourStartOfStart ==
    ASSUME NEW t \in Int
    PROVE  HourStart(HourStart(t)) = HourStart(t)
<1>1. t \div HourTicks \in Int
  OBVIOUS
<1>2. ASSUME NEW q \in Int PROVE (q * HourTicks) \div HourTicks = q
  <2>1. /\ q * HourTicks \in Int
        /\ q * HourTicks >= HourTicks * q
        /\ q * HourTicks < HourTicks * (q + 1)
    OBVIOUS
  <2>2. /\ (q * HourTicks) \div HourTicks >= q
        /\ (q * HourTicks) \div HourTicks < q + 1
        /\ (q * HourTicks) \div HourTicks \in Int
    BY <2>1, Quotient
  <2>3. QED
    BY <2>2
<1>3. QED
  BY <1>1, <1>2 DEF HourStart, HourOf

(***************************************************************************)
(* The rows of a chart are no later than the last sample, and those before *)
(* its start are at the start of the same hour.                            *)
(***************************************************************************)
LEMMA RowTimes ==
    ASSUME RetentionInv, NEW since \in Times, NEW r \in ChartRows(since)
    PROVE  /\ RowTime(r) \in Int
           /\ RowTime(r) <= lastAt
           /\ RowTime(r) < since => RowTime(r) = HourStart(since)
<1>1. /\ r.at \in Times /\ r.at \in Int /\ since \in Int
      /\ r.of \in {"raw", "rolled"}
      /\ r.of = "raw" => r.at >= since /\ r.at \in db.rawAt
      /\ r.of # "raw" => r.at >= HourStart(since) /\ r.at \in db.rolledAt
  <2>1. /\ r \in [at : Times, of : {"raw", "rolled"}]
        /\ IF r.of = "raw" THEN r.at \in db.rawAt /\ r.at >= since
                           ELSE r.at \in db.rolledAt /\ r.at >= HourStart(since)
    BY Zenon DEF ChartRows
  <2>2. r.at \in Times /\ r.of \in {"raw", "rolled"}
    BY <2>1
  <2>3. /\ r.of = "raw" => r.at >= since /\ r.at \in db.rawAt
        /\ r.of # "raw" => r.at >= HourStart(since) /\ r.at \in db.rolledAt
    BY <2>1, Zenon
  <2>4. \A t \in Times : t \in Int
    OBVIOUS
  <2>5. QED
    BY <2>2, <2>3, <2>4, Zenon
<1>2. r.at <= lastAt
  <2>1. lastAt \in Int
    BY DEF RetentionInv, TypeOK
  <2>2. QED
    BY <1>1, <2>1 DEF RetentionInv, NothingAhead
<1>3. lastAt \in Int
  BY DEF RetentionInv, TypeOK
<1>4. CASE r.of = "raw"
  BY <1>1, <1>2, <1>4 DEF RowTime
<1>5. CASE r.of # "raw"
  <2>1. RowTime(r) = HourStart(r.at)
    BY <1>5 DEF RowTime
  <2>2. /\ HourStart(r.at) \in Int /\ HourStart(r.at) <= r.at
        /\ HourStart(since) \in Int
    BY <1>1, HourStartType
  <2>3. HourStart(since) <= HourStart(r.at)
    BY <1>1, <1>5, <2>2, HourStartMonotone, HourStartOfStart
  <2>4. HourStart(r.at) < since => HourStart(r.at) <= HourStart(since)
    BY <1>1, <2>2, HourStartMonotone, HourStartOfStart
  <2>5. QED
    BY <1>1, <1>2, <1>3, <2>1, <2>2, <2>3, <2>4
<1>6. QED
  BY <1>4, <1>5

(***************************************************************************)
(* The bucket of a row, given that `limit` buckets cover the chart's span. *)
(* SQL and Python agree on rows that are not before the start.             *)
(***************************************************************************)
LEMMA RowBucket ==
    ASSUME NEW t \in Int, NEW since \in Int, NEW now \in Int, t <= now,
           NEW ticks \in Nat \ {0}, NEW limit \in Nat \ {0},
           now - since <= ticks * limit
    PROVE  /\ HostBucket(t, since, ticks) \in Int
           /\ HostBucket(t, since, ticks) <= limit
           /\ XrayBucket(t, since, ticks) \in Int
           /\ t < since => XrayBucket(t, since, ticks) <= 0
           /\ t >= since => /\ HostBucket(t, since, ticks) >= 0
                            /\ XrayBucket(t, since, ticks) = HostBucket(t, since, ticks)
           /\ t >= since + ticks => HostBucket(t, since, ticks) >= 1
           /\ t <= now - ticks - 1 => HostBucket(t, since, ticks) <= limit - 2
           /\ now - since < ticks * limit => HostBucket(t, since, ticks) <= limit - 1
<1> DEFINE x == t - since
           b == x \div ticks
<1>1. x \in Int /\ b \in Int
  BY Quotient
<1>2. /\ ticks * 0 = 0 /\ ticks * 1 = ticks
      /\ ticks * limit \in Int
      /\ ticks * (limit + 1) = ticks * limit + ticks
      /\ ticks * (limit - 1) = ticks * limit - ticks
  OBVIOUS
<1>3. b <= limit
  <2>1. x < ticks * (limit + 1)
    BY <1>2
  <2>2. b < limit + 1
    BY <1>1, <2>1, Quotient
  <2>3. QED
    BY <1>1, <2>2
<1>4. (t >= since => b >= 0) /\ (t >= since + ticks => b >= 1)
  <2>1. (t >= since => x >= ticks * 0) /\ (t >= since + ticks => x >= ticks * 1)
    BY <1>2
  <2>2. QED
    BY <1>1, <2>1, Quotient
<1>5. t <= now - ticks - 1 => b <= limit - 2
  <2>1. ASSUME t <= now - ticks - 1 PROVE x < ticks * (limit - 1)
    BY <1>2, <2>1
  <2>2. t <= now - ticks - 1 => b < limit - 1
    BY <1>1, <2>1, Quotient
  <2>3. QED
    BY <1>1, <2>2
<1>6. now - since < ticks * limit => b <= limit - 1
  <2>1. ASSUME now - since < ticks * limit PROVE x < ticks * limit
    BY <1>2, <2>1
  <2>2. now - since < ticks * limit => b < limit
    BY <1>1, <2>1, Quotient
  <2>3. QED
    BY <1>1, <2>2
<1>7. t < since => /\ XrayBucket(t, since, ticks) \in Int
                   /\ XrayBucket(t, since, ticks) <= 0
  <2>1. ASSUME t < since
        PROVE  (since - t) \div ticks \in Int /\ (since - t) \div ticks >= 0
    <3>1. since - t \in Int /\ since - t >= ticks * 0
      BY <1>2, <2>1
    <3>2. QED
      BY <3>1, Quotient
  <2>2. t < since => XrayBucket(t, since, ticks) = -((since - t) \div ticks)
    BY DEF XrayBucket
  <2>3. ASSUME NEW q \in Int, q >= 0 PROVE -q \in Int /\ -q <= 0
    BY <2>3
  <2>4. QED
    BY <2>1, <2>2, <2>3
<1>8. /\ HostBucket(t, since, ticks) = b
      /\ t >= since => XrayBucket(t, since, ticks) = b
  BY DEF HostBucket, XrayBucket
<1> HIDE DEF b, x
<1>9. QED
  BY <1>1, <1>3, <1>4, <1>5, <1>6, <1>7, <1>8

(***************************************************************************)
(* A chart loses rows only at its edges and only when it is crowded.       *)
(* Otherwise all buckets are among the first, and among the last, `limit`  *)
(* of them.  The row in bucket b of a crowded chart is cut off from the    *)
(* left only by buckets after b, of which there are at most limit - b, and *)
(* from the right, for Xray, only by buckets before b: 0 to b - 1 and the  *)
(* one of the hour of `since`.                                             *)
(***************************************************************************)
THEOREM ChartIsComplete == Spec => []ChartComplete
<1>1. ASSUME RetentionInv, NEW since \in Times, NEW now \in Times, NEW limit \in Limits,
             since <= now, lastAt <= now
      PROVE  LET chart == Chart(now, since, limit)
                 ticks == BucketTicks(now - since, limit)
                 rows  == ChartRows(since)
                 Within(first, last) == {r \in rows : RowTime(r) \in first..last}
             IN  /\ ~Crowded(now - since, limit, since) => (chart.host = rows /\ chart.xray = rows)
                 /\ Within(since + ticks, now) \subseteq chart.host
                 /\ Within(since + ticks, now - ticks - 1) \subseteq chart.xray
  <2> DEFINE chart    == Chart(now, since, limit)
             ticks    == BucketTicks(now - since, limit)
             rows     == ChartRows(since)
             host(r)  == HostBucket(RowTime(r), since, ticks)
             xray(r)  == XrayBucket(RowTime(r), since, ticks)
             early    == XrayBucket(HourStart(since), since, ticks)
             hosts    == {host(r) : r \in rows}
             xrays    == {xray(r) : r \in rows}
             selected == FirstOf(xrays, limit)
             points   == LastOf(hosts \cup selected, limit)
  <2>1. /\ since \in Int /\ now \in Int /\ now - since \in Nat
        /\ limit \in Nat \ {0} /\ lastAt \in Int
    <3>1. \A t \in Times : t \in Nat
      OBVIOUS
    <3>2. since \in Nat /\ now \in Nat /\ limit \in Nat \ {0}
      BY <3>1, LimitsAssumption
    <3>3. lastAt \in Int
      BY <1>1 DEF RetentionInv, TypeOK
    <3>4. now - since \in Nat
      BY <1>1, <3>2
    <3>5. QED
      BY <3>2, <3>3, <3>4
  <2>2. /\ ticks \in Nat \ {0}
        /\ now - since <= ticks * limit
        /\ Max({1, now - since}) % limit # 0 => now - since < ticks * limit
    BY <2>1, BucketsCover
  <2>3. chart = [host |-> {r \in rows : host(r) \in points},
                 xray |-> {r \in rows : xray(r) \in points \cap selected}]
    BY DEF Chart
  <2>4. ASSUME NEW r \in rows
        PROVE  /\ RowTime(r) \in Int /\ RowTime(r) <= now
               /\ RowTime(r) < since => RowTime(r) = HourStart(since)
    BY <1>1, <2>1, RowTimes
  <2> HIDE DEF chart, ticks, rows
  <2>5. ASSUME NEW r \in rows
        PROVE  /\ host(r) \in Int /\ host(r) <= limit
               /\ xray(r) \in Int
               /\ RowTime(r) < since => xray(r) <= 0 /\ xray(r) = early
               /\ RowTime(r) >= since => host(r) >= 0 /\ xray(r) = host(r)
               /\ RowTime(r) >= since + ticks => host(r) >= 1
               /\ RowTime(r) <= now - ticks - 1 => host(r) <= limit - 2
               /\ now - since < ticks * limit => host(r) <= limit - 1
    BY <2>1, <2>2, <2>4, RowBucket
  <2> HIDE DEF host, xray, early
  <2>6. /\ \A b \in hosts : b \in Int /\ b <= limit
        /\ \A b \in xrays : b \in Int /\ b <= limit /\ (b >= 0 \/ b = early)
    BY <2>1, <2>4, <2>5
  <2>7. /\ selected = {b \in xrays : Cardinality({c \in xrays : c < b}) < limit}
        /\ points = {b \in hosts \cup selected :
                        Cardinality({c \in hosts \cup selected : c > b}) < limit}
    BY DEF FirstOf, LastOf
  <2> HIDE DEF hosts, xrays, selected, points
  <2>8. ASSUME ~Crowded(now - since, limit, since)
        PROVE  chart.host = rows /\ chart.xray = rows
    <3>1. /\ now - since < ticks * limit
          /\ \A r \in rows : RowTime(r) >= since
      BY <2>1, <2>2, <2>4, <2>8 DEF Crowded, rows
    <3>2. \A r \in rows : /\ host(r) \in 0 .. limit - 1
                          /\ xray(r) = host(r)
      BY <2>1, <2>5, <3>1
    <3>3. hosts = xrays
      BY <3>2 DEF hosts, xrays
    <3>4. \A c \in hosts : c \in Int /\ 0 <= c /\ c <= limit - 1
      BY <2>1, <3>2 DEF hosts
    <3>5. ASSUME NEW b \in hosts
          PROVE  Cardinality({c \in hosts : c < b}) < limit
      <4> DEFINE before == {c \in hosts : c < b}
      <4>1. \A c \in before : c \in Int /\ 0 <= c /\ c <= limit - 2
        BY <2>1, <3>4
      <4> HIDE DEF before
      <4>2. limit - 1 \in Nat /\ limit - 2 \in Int
        BY <2>1
      <4>3. (limit - 2) - 0 + 1 <= limit - 1 /\ (limit - 1) - 1 + 1 <= limit - 1
        BY <2>1
      <4>4. Cardinality(before) \in Nat /\ Cardinality(before) <= limit - 1
        BY <4>1, <4>2, <4>3, FewBetween
      <4>5. QED
        BY <2>1, <4>4 DEF before
    <3>6. ASSUME NEW b \in hosts
          PROVE  Cardinality({c \in hosts : c > b}) < limit
      <4> DEFINE after == {c \in hosts : c > b}
      <4>1. \A c \in after : c \in Int /\ 1 <= c /\ c <= limit - 1
        BY <2>1, <3>4
      <4> HIDE DEF after
      <4>2. limit - 1 \in Nat /\ limit - 2 \in Int
        BY <2>1
      <4>3. (limit - 2) - 0 + 1 <= limit - 1 /\ (limit - 1) - 1 + 1 <= limit - 1
        BY <2>1
      <4>4. Cardinality(after) \in Nat /\ Cardinality(after) <= limit - 1
        BY <4>1, <4>2, <4>3, FewBetween
      <4>5. QED
        BY <2>1, <4>4 DEF after
    <3>7. selected = hosts
      BY <2>7, <3>3, <3>5
    <3>8. points = hosts
      <4>1. hosts \cup selected = hosts
        BY <3>7
      <4>2. QED
        BY <2>7, <3>6, <4>1
    <3>9. \A r \in rows : host(r) \in points /\ xray(r) \in points \cap selected
      BY <3>2, <3>7, <3>8 DEF hosts
    <3>10. QED
      BY <2>3, <3>9
  <2>9. ASSUME NEW r \in rows, RowTime(r) >= since + ticks
        PROVE  r \in chart.host /\ host(r) \in points
    <3>1. host(r) \in hosts /\ host(r) \in Int /\ host(r) >= 1
      BY <2>5, <2>9 DEF hosts
    <3> DEFINE after == {c \in hosts \cup selected : c > host(r)}
    <3>2. /\ \A c \in after : c \in Int /\ 2 <= c /\ c <= limit
          /\ limit - 1 \in Nat
      BY <2>1, <2>6, <2>7, <3>1
    <3>3. Cardinality(after) \in Nat /\ Cardinality(after) <= limit - 1
      <4> HIDE DEF after
      <4>1. limit - 2 + 1 <= limit - 1 /\ limit \in Int
        BY <2>1
      <4>2. QED
        BY <2>1, <3>2, <4>1, FewBetween
    <3>4. host(r) \in points
      BY <2>1, <2>7, <3>1, <3>3
    <3>5. QED
      BY <2>3, <3>4
  <2>10. ASSUME NEW r \in rows, RowTime(r) >= since + ticks, RowTime(r) <= now - ticks - 1
         PROVE  r \in chart.xray
    <3>1. /\ xray(r) = host(r) /\ xray(r) \in xrays /\ xray(r) \in Int
          /\ xray(r) >= 1 /\ xray(r) <= limit - 2
      <4>1. RowTime(r) >= since
        BY <2>1, <2>2, <2>4, <2>10
      <4>2. QED
        BY <2>5, <2>10, <4>1 DEF xrays
    <3> DEFINE before == {c \in xrays : c < xray(r)}
               some   == before \ {early}
    <3>2. /\ \A c \in some : c \in Int /\ 0 <= c /\ c <= limit - 3
          /\ limit - 2 \in Nat
      BY <2>1, <2>6, <3>1
    <3>3. IsFiniteSet(some) /\ Cardinality(some) \in Nat /\ Cardinality(some) <= limit - 2
      <4> HIDE DEF some
      <4>1. limit - 3 - 0 + 1 <= limit - 2 /\ limit - 3 \in Int
        BY <2>1
      <4>2. QED
        BY <2>1, <3>2, <4>1, FewBetween
    <3>4. /\ IsFiniteSet(some \cup {early})
          /\ Cardinality(some \cup {early}) <= limit - 1
      <4> HIDE DEF some
      <4>1. /\ IsFiniteSet(some \cup {early})
            /\ Cardinality(some \cup {early}) = Cardinality(some)
                 \/ Cardinality(some \cup {early}) = Cardinality(some) + 1
        BY <3>3, FS_AddElement
      <4>2. QED
        BY <2>1, <3>3, <4>1
    <3>5. IsFiniteSet(before) /\ Cardinality(before) <= Cardinality(some \cup {early})
      <4>1. before \subseteq some \cup {early}
        OBVIOUS
      <4> HIDE DEF before
      <4>2. QED
        BY <3>4, <4>1, FS_Subset
    <3>6. Cardinality(before) \in Nat /\ Cardinality(some \cup {early}) \in Nat
      BY <3>4, <3>5, FS_CardinalityType
    <3>7. xray(r) \in selected
      <4>1. Cardinality(before) < limit
        BY <2>1, <3>4, <3>5, <3>6
      <4>2. QED
        BY <2>7, <3>1, <4>1
    <3>8. xray(r) \in points
      BY <2>9, <2>10, <3>1
    <3>9. QED
      BY <2>3, <3>7, <3>8
  <2>11. /\ {r \in rows : RowTime(r) \in (since + ticks) .. now} \subseteq chart.host
         /\ {r \in rows : RowTime(r) \in (since + ticks) .. (now - ticks - 1)}
              \subseteq chart.xray
    BY <2>1, <2>2, <2>4, <2>9, <2>10
  <2>12. QED
    BY <2>8, <2>11 DEF chart, ticks, rows
<1>2. RetentionInv => ChartComplete
  BY <1>1 DEF ChartComplete
<1>3. QED
  BY <1>2, RetentionInvariant, PTL
=============================================================================
