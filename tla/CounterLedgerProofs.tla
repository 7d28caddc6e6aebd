------------------------- MODULE CounterLedgerProofs -------------------------
(***************************************************************************)
(* Proofs about CounterLedger, and about the transaction that implements   *)
(* its steps, for every value of the constants.                            *)
(***************************************************************************)
EXTENDS RecordTransaction, TLAPS

USE SourcesAssumption, TimesAssumption, SentinelAssumption

\* A reading taken now is a reading, is in the past, and is as current as a
\* reading can be: it gives nothing away to any other reading.
LEMMA ReadingNow ==
    ASSUME TypeOK, NEW s \in Sources, NEW at \in Times, NEW id \in Nat
    PROVE  /\ ReadingOf(s, id, at) \in Reading
           /\ ReadInThePast(s, ReadingOf(s, id, at))
           /\ ReadingOf(s, id, at).carried = carried[s]
           /\ ReadingOf(s, id, at).raw = count[s]
  BY DEF TypeOK, ReadingOf, Reading, ReadInThePast

\* A delta is a natural number: it is never negative.
LEMMA DeltaType ==
    ASSUME NEW c \in Reading \cup {NoCursor}, NEW r \in Reading
    PROVE  Delta(c, r) \in Nat
  BY DEF Delta, IsReset, Reading

LEMMA CommittedType ==
    ASSUME TypeOK
    PROVE  Committed(store) \in Ledger
<1>1. \A s \in Sources : s \in Observed => batch[s] \in Reading
  BY DEF TypeOK, Observed
<1>2. store.cursor \in [Sources -> Reading \cup {NoCursor}]
  BY DEF TypeOK, Ledger
<1>3. store.recorded \in [Sources -> Nat] /\ store.flagged \in [Sources -> BOOLEAN]
  BY DEF TypeOK, Ledger
<1>4. \A s \in Sources : s \in Observed =>
         /\ Delta(store.cursor[s], batch[s]) \in Nat
         /\ IsReset(store.cursor[s], batch[s]) \in BOOLEAN
  BY <1>1, <1>2, DeltaType DEF IsReset
<1>5. Committed(store).cursor \in [Sources -> Reading \cup {NoCursor}]
  BY <1>1, <1>2 DEF Committed
<1>6. Committed(store).recorded \in [Sources -> Nat]
  BY <1>3, <1>4 DEF Committed
<1>7. Committed(store).flagged \in [Sources -> BOOLEAN]
  BY <1>3, <1>4 DEF Committed
<1>8. QED
  BY <1>5, <1>6, <1>7 DEF Committed, Ledger

LEMMA EmptyLedgerType == EmptyLedger \in Ledger
  BY DEF EmptyLedger, Ledger

THEOREM InitTypeOK == Init => TypeOK
<1> SUFFICES ASSUME Init PROVE TypeOK
  OBVIOUS
<1>1. count \in [Sources -> Nat]
  BY BoundsAssumption DEF Init
<1>2. QED
  BY <1>1, EmptyLedgerType DEF Init, TypeOK, NothingSeen, NoBatch, Fallback

LEMMA StepTypeOK == TypeOK /\ [Next]_vars => TypeOK'
<1> SUFFICES ASSUME TypeOK, [Next]_vars
             PROVE  TypeOK'
  OBVIOUS
<1> USE DEF TypeOK, world, collector, databases, NothingSeen, NoBatch, Fallback
<1>1. ASSUME NEW s \in Sources, Traffic(s)
      PROVE  TypeOK'
  BY <1>1 DEF Traffic
<1>2. ASSUME NEW s \in Sources, StartFromZero(s)
      PROVE  TypeOK'
  BY <1>2 DEF StartFromZero
<1>3. CASE HostReboot
  BY <1>3 DEF HostReboot
<1>4. CASE HostCollect
  <2>1. CASE batch' = batch
    BY <1>4, <2>1 DEF HostCollect
  <2>2. ASSUME "host" \in Sources, NEW at \in Times,
               NEW id \in {identity["host"], Fallback},
               batch' = [batch EXCEPT !["host"] = ReadingOf("host", id, at)]
        PROVE  TypeOK'
    <3>1. id \in Nat
      BY <2>2
    <3>2. ReadingOf("host", id, at) \in Reading
      BY <2>2, <3>1, ReadingNow
    <3>3. QED
      BY <1>4, <2>2, <3>2 DEF HostCollect
  <2>3. QED
    BY <1>4, <2>1, <2>2 DEF HostCollect
<1>5. CASE XrayInspect
  <2>1. PICK at \in Times, id \in {identity["xray"], Fallback} :
           seen' = [at |-> at, id |-> id]
    BY <1>5 DEF XrayInspect
  <2>2. "xray" \in Sources /\ id \in Nat
    BY <1>5 DEF XrayInspect
  <2>3. seen' \in [at : Times \cup {NoReading}, id : Nat] /\ seen'.at \in Times
    BY <2>1, <2>2
  <2>4. QED
    BY <1>5, <2>2, <2>3 DEF XrayInspect
<1>6. CASE XrayStats
  <2>1. "xray" \in Sources /\ seen.at \in Times /\ seen.id \in Nat
    BY <1>6 DEF XrayStats
  <2>2. ReadingOf("xray", seen.id, seen.at) \in Reading
    BY <2>1, ReadingNow
  <2>3. QED
    BY <1>6, <2>2 DEF XrayStats
<1>7. CASE RecordBatch
  BY <1>7, CommittedType DEF RecordBatch, EndOfCycle
<1>8. CASE LoseBatch
  BY <1>8 DEF LoseBatch, EndOfCycle
<1>9. CASE CollectorStop
  BY <1>9 DEF CollectorStop
<1>10. CASE CollectorStart
  BY <1>10 DEF CollectorStart
<1>11. CASE Flush \/ BackupDatabase \/ RestoreDatabase
  BY <1>11 DEF Flush, BackupDatabase, RestoreDatabase
<1>12. CASE UNCHANGED vars
  BY <1>12 DEF vars
<1>13. QED
  BY <1>1, <1>2, <1>3, <1>4, <1>5, <1>6, <1>7, <1>8, <1>9, <1>10,
     <1>11, <1>12 DEF Next

\* Every variable of the specification stays within its type.
THEOREM TypeCorrect == Spec => []TypeOK
  BY InitTypeOK, StepTypeOK, PTL DEF Spec

----------------------------------------------------------------------------

\* What one step may do to the counted sources: bytes flow and are counted,
\* or the counter is cleared.
SourcesMove ==
    \A s \in Sources :
        /\ carried[s] <= carried'[s]
        /\ count'[s] = count[s] + (carried'[s] - carried[s]) \/ count'[s] = 0

LEMMA WorldMoves == TypeOK /\ [Next]_vars => SourcesMove
<1> SUFFICES ASSUME TypeOK, [Next]_vars, NEW s \in Sources
             PROVE  /\ carried[s] <= carried'[s]
                    /\ \/ count'[s] = count[s] + (carried'[s] - carried[s])
                       \/ count'[s] = 0
  BY DEF SourcesMove
<1>0. carried[s] \in Nat /\ count[s] \in Nat
  BY DEF TypeOK
<1> USE DEF TypeOK, world
<1>1. ASSUME NEW q \in Sources, Traffic(q)
      PROVE  /\ carried[s] <= carried'[s]
             /\ count'[s] = count[s] + (carried'[s] - carried[s])
  <2>1. carried'[s] = (IF s = q THEN carried[s] + 1 ELSE carried[s])
    BY <1>1 DEF Traffic
  <2>2. count'[s] = (IF s = q THEN count[s] + 1 ELSE count[s])
    BY <1>1 DEF Traffic
  <2>3. QED
    BY <1>0, <2>1, <2>2
<1>2. CASE (\E q \in Sources : StartFromZero(q)) \/ HostReboot
  <2>1. carried' = carried
    BY <1>2 DEF StartFromZero, HostReboot
  <2>2. count'[s] = count[s] \/ count'[s] = 0
    BY <1>2 DEF StartFromZero, HostReboot
  <2>3. QED
    BY <1>0, <2>1, <2>2
<1>3. CASE UNCHANGED world
  BY <1>3
<1>4. CASE UNCHANGED vars
  BY <1>4 DEF vars
<1>5. QED
  BY <1>1, <1>2, <1>3, <1>4
  DEF Next, HostCollect, XrayInspect, XrayStats, RecordBatch, LoseBatch,
      EndOfCycle, CollectorStop, CollectorStart, Flush, BackupDatabase,
      RestoreDatabase

\* A reading stays in the past whatever the sources do.
LEMMA PastStays ==
    ASSUME TypeOK, TypeOK', SourcesMove, NEW s \in Sources,
           NEW CONSTANT r \in Reading, ReadInThePast(s, r)
    PROVE  ReadInThePast(s, r)'
<1>1. /\ r.raw \in Nat /\ r.carried \in Nat
      /\ count[s] \in Nat /\ count'[s] \in Nat
      /\ carried[s] \in Nat /\ carried'[s] \in Nat
  BY DEF TypeOK, Reading
<1>2. QED
  BY <1>1 DEF SourcesMove, ReadInThePast

LEMMA BackedStays ==
    ASSUME TypeOK, TypeOK', SourcesMove, NEW s \in Sources,
           NEW CONSTANT ledger \in Ledger, Backed(ledger, s)
    PROVE  Backed(ledger, s)'
<1>1. ledger.cursor[s] \in Reading \cup {NoCursor}
  BY DEF Ledger
<1>2. CASE ledger.cursor[s] = NoCursor
  BY <1>2 DEF Backed
<1>3. CASE ledger.cursor[s] # NoCursor
  <2>1. ReadInThePast(s, ledger.cursor[s])'
    BY <1>1, <1>3, PastStays DEF Backed
  <2>2. QED
    BY <1>3, <2>1 DEF Backed
<1>4. QED
  BY <1>2, <1>3

(***************************************************************************)
(* The arithmetic heart: a committed delta is covered by what flowed       *)
(* between the cursor and the reading that replaces it.                    *)
(***************************************************************************)
LEMMA DeltaCovered ==
    ASSUME NEW c \in Reading, NEW r \in Reading,
           c.carried <= r.carried,
           r.raw + c.carried <= c.raw + r.carried
    PROVE  Delta(c, r) <= r.carried - c.carried
  BY DEF Delta, IsReset, Reading

LEMMA CommitBacked ==
    ASSUME LedgerInv, NEW s \in Sources
    PROVE  Backed(Committed(store), s)
<1>1. Backed(store, s)
  BY DEF LedgerInv
<1>2. store.cursor[s] \in Reading \cup {NoCursor} /\ store.recorded[s] \in Nat
  BY DEF LedgerInv, TypeOK, Ledger
<1>3. CASE s \notin Observed
  <2>1. /\ Committed(store).cursor[s] = store.cursor[s]
        /\ Committed(store).recorded[s] = store.recorded[s]
    BY <1>3 DEF Committed
  <2>2. QED
    BY <1>1, <2>1 DEF Backed
<1>4. CASE s \in Observed
  <2>1. batch[s] \in Reading /\ ReadInThePast(s, batch[s]) /\ LaterThanCursor(s)
    BY <1>4 DEF LedgerInv, TypeOK, Observed
  <2>2. /\ Committed(store).cursor[s] = batch[s]
        /\ Committed(store).recorded[s]
             = store.recorded[s] + Delta(store.cursor[s], batch[s])
    BY <1>4 DEF Committed
  <2>3. store.recorded[s] + Delta(store.cursor[s], batch[s]) <= batch[s].carried
    <3>1. CASE store.cursor[s] = NoCursor
      <4>1. store.recorded[s] = 0 /\ Delta(store.cursor[s], batch[s]) = 0
        BY <1>1, <3>1 DEF Backed, Delta
      <4>2. QED
        BY <2>1, <4>1 DEF Reading
    <3>2. CASE store.cursor[s] # NoCursor
      <4>1. store.cursor[s] \in Reading
        BY <1>2, <3>2
      <4>2. Delta(store.cursor[s], batch[s]) \in Nat
        BY <2>1, <4>1, DeltaType
      <4>3. Delta(store.cursor[s], batch[s])
              <= batch[s].carried - store.cursor[s].carried
        BY <2>1, <3>2, <4>1, DeltaCovered DEF LaterThanCursor
      <4>4. store.recorded[s] <= store.cursor[s].carried
        BY <1>1, <3>2 DEF Backed
      <4>5. store.cursor[s].carried \in Nat /\ batch[s].carried \in Nat
        BY <2>1, <4>1 DEF Reading
      <4>6. QED
        BY <1>2, <4>2, <4>3, <4>4, <4>5
    <3>3. QED
      BY <3>1, <3>2
  <2>4. batch[s] # NoCursor
    BY <2>1
  <2>5. QED
    BY <2>1, <2>2, <2>3, <2>4 DEF Backed
<1>5. QED
  BY <1>3, <1>4

\* A reading taken now is later than whatever cursor the store holds.
LEMMA NowIsLater ==
    ASSUME LedgerInv, NEW s \in Sources, NEW at \in Times, NEW id \in Nat,
           store.cursor[s] # NoCursor
    PROVE  /\ store.cursor[s].carried <= ReadingOf(s, id, at).carried
           /\ ReadingOf(s, id, at).raw + store.cursor[s].carried
                <= store.cursor[s].raw + ReadingOf(s, id, at).carried
<1>1. ReadInThePast(s, store.cursor[s])
  BY DEF LedgerInv, Backed
<1>2. QED
  BY <1>1 DEF ReadInThePast, ReadingOf

----------------------------------------------------------------------------

LEMMA InitLedgerInv == Init => LedgerInv
<1> SUFFICES ASSUME Init PROVE LedgerInv
  OBVIOUS
<1>1. TypeOK
  BY InitTypeOK
<1>2. \A s \in Sources : Backed(EmptyLedger, s)
  BY DEF Backed, EmptyLedger
<1>3. store = EmptyLedger /\ flushed = EmptyLedger /\ backup = EmptyLedger
  BY DEF Init
<1>4. batch = NoBatch /\ Observed = {}
  BY DEF Init, NoBatch, Observed
<1>5. QED
  BY <1>1, <1>2, <1>3, <1>4 DEF LedgerInv

\* The three databases stay backed by real traffic over every step.
LEMMA StepBacked ==
    ASSUME LedgerInv, [Next]_vars, TypeOK', NEW s \in Sources
    PROVE  Backed(store, s)' /\ Backed(flushed, s)' /\ Backed(backup, s)'
<1>1. TypeOK /\ SourcesMove
  BY WorldMoves DEF LedgerInv
<1>2. store \in Ledger /\ flushed \in Ledger /\ backup \in Ledger
  BY <1>1 DEF TypeOK
<1>3. Backed(store, s) /\ Backed(flushed, s) /\ Backed(backup, s)
  BY DEF LedgerInv
<1> DEFINE B(ledger) ==
        IF ledger.cursor[s] = NoCursor
        THEN ledger.recorded[s] = 0
        ELSE /\ ledger.recorded[s] <= ledger.cursor[s].carried
             /\ ledger.cursor[s].carried <= carried'[s]
             /\ count'[s] + ledger.cursor[s].carried
                  <= ledger.cursor[s].raw + carried'[s]
<1>4. ASSUME NEW CONSTANT ledger \in Ledger, Backed(ledger, s)
      PROVE  B(ledger)
  BY <1>1, <1>4, BackedStays DEF Backed, ReadInThePast
<1>5. Committed(store) \in Ledger /\ Backed(Committed(store), s)
  BY <1>1, CommittedType, CommitBacked
<1>6. store' \in {store, flushed, backup, Committed(store)}
  BY DEF Next, vars, world, collector, databases, Traffic, StartFromZero,
     HostReboot, HostCollect, XrayInspect, XrayStats,
     RecordBatch, LoseBatch, EndOfCycle, CollectorStop, CollectorStart,
     Flush, BackupDatabase, RestoreDatabase
<1>7. flushed' \in {store, flushed} /\ backup' \in {store, backup}
  BY DEF Next, vars, world, collector, databases, Traffic, StartFromZero,
     HostReboot, HostCollect, XrayInspect, XrayStats,
     RecordBatch, LoseBatch, EndOfCycle, CollectorStop, CollectorStart,
     Flush, BackupDatabase, RestoreDatabase
<1>8. B(store) /\ B(flushed) /\ B(backup) /\ B(Committed(store))
  BY <1>2, <1>3, <1>4, <1>5
<1>9. B(store') /\ B(flushed') /\ B(backup')
  BY <1>6, <1>7, <1>8
<1>10. QED
  BY <1>9 DEF Backed, ReadInThePast

\* What the batch holds after a step: nothing, what it held, or in addition
\* one reading taken in this step.
BatchStep ==
    \/ batch' = NoBatch
    \/ batch' = batch /\ store' = store
    \/ \E s \in Sources, at \in Times, id \in Nat :
          /\ batch' = [batch EXCEPT ![s] = ReadingOf(s, id, at)]
          /\ UNCHANGED <<world, store>>

LEMMA BatchMoves == TypeOK /\ [Next]_vars => BatchStep
<1> SUFFICES ASSUME TypeOK, [Next]_vars PROVE BatchStep
  OBVIOUS
<1> USE DEF BatchStep
<1>1. CASE HostCollect
  <2>1. CASE batch' = batch
    BY <1>1, <2>1 DEF HostCollect, databases
  <2>2. ASSUME "host" \in Sources, NEW at \in Times,
               NEW id \in {identity["host"], Fallback},
               batch' = [batch EXCEPT !["host"] = ReadingOf("host", id, at)]
        PROVE  BatchStep
    <3>1. id \in Nat
      BY <2>2 DEF TypeOK, Fallback
    <3>2. QED
      BY <1>1, <2>2, <3>1 DEF HostCollect, databases
  <2>3. QED
    BY <1>1, <2>1, <2>2 DEF HostCollect
<1>2. CASE XrayStats
  <2>1. "xray" \in Sources /\ seen.at \in Times /\ seen.id \in Nat
    BY <1>2 DEF XrayStats, TypeOK
  <2>2. QED
    BY <1>2, <2>1 DEF XrayStats, databases
<1>3. CASE RecordBatch \/ LoseBatch \/ CollectorStop \/ RestoreDatabase \/ HostReboot
  BY <1>3 DEF RecordBatch, LoseBatch, EndOfCycle, CollectorStop,
              RestoreDatabase, HostReboot
<1>4. CASE \/ \E s \in Sources : Traffic(s)
           \/ \E s \in Sources : StartFromZero(s)
           \/ XrayInspect \/ CollectorStart
           \/ Flush \/ BackupDatabase \/ UNCHANGED vars
  BY <1>4 DEF Traffic, StartFromZero, XrayInspect,
              CollectorStart, Flush, BackupDatabase, vars, collector, databases
<1>5. QED
  BY <1>1, <1>2, <1>3, <1>4 DEF Next

LEMMA StepBatch ==
    ASSUME LedgerInv, [Next]_vars, TypeOK', NEW s \in Observed'
    PROVE  ReadInThePast(s, batch[s])' /\ LaterThanCursor(s)'
<1>1. TypeOK /\ SourcesMove /\ BatchStep
  BY WorldMoves, BatchMoves DEF LedgerInv
<1>2. s \in Sources /\ batch'[s] # NoReading /\ batch'[s] \in Reading
  BY DEF Observed, TypeOK
<1>3. CASE batch' = NoBatch
  BY <1>2, <1>3 DEF NoBatch
<1>4. ASSUME s \in Observed, batch'[s] = batch[s], store' = store
      PROVE  ReadInThePast(s, batch[s])' /\ LaterThanCursor(s)'
  <2>1. ReadInThePast(s, batch[s]) /\ LaterThanCursor(s)
    BY <1>4 DEF LedgerInv
  <2>2. /\ batch[s].carried <= carried'[s]
        /\ count'[s] + batch[s].carried <= batch[s].raw + carried'[s]
    BY <1>1, <1>2, <1>4, <2>1, PastStays DEF ReadInThePast
  <2>3. QED
    BY <1>4, <2>1, <2>2 DEF ReadInThePast, LaterThanCursor
<1>5. CASE batch' = batch /\ store' = store
  BY <1>2, <1>4, <1>5 DEF Observed
<1>6. ASSUME NEW q \in Sources, NEW at \in Times, NEW id \in Nat,
             batch' = [batch EXCEPT ![q] = ReadingOf(q, id, at)],
             UNCHANGED <<world, store>>
      PROVE  ReadInThePast(s, batch[s])' /\ LaterThanCursor(s)'
  <2>1. CASE s # q
    <3>1. batch'[s] = batch[s] /\ s \in Observed
      BY <1>1, <1>2, <1>6, <2>1 DEF TypeOK, Observed
    <3>2. QED
      BY <1>4, <1>6, <3>1
  <2>2. CASE s = q
    <3>1. batch'[s] = ReadingOf(s, id, at)
      BY <1>1, <1>6, <2>2 DEF TypeOK
    <3>2. ReadInThePast(s, ReadingOf(s, id, at))
      BY <1>1, <1>6, <2>2, ReadingNow
    <3>3. store.cursor[s] # NoCursor =>
             /\ store.cursor[s].carried <= ReadingOf(s, id, at).carried
             /\ ReadingOf(s, id, at).raw + store.cursor[s].carried
                  <= store.cursor[s].raw + ReadingOf(s, id, at).carried
      BY <1>6, <2>2, NowIsLater
    <3>4. QED
      BY <1>6, <3>1, <3>2, <3>3 DEF ReadInThePast, LaterThanCursor, world
  <2>3. QED
    BY <2>1, <2>2
<1>7. QED
  BY <1>1, <1>3, <1>5, <1>6 DEF BatchStep

LEMMA StepLedgerInv == LedgerInv /\ [Next]_vars => LedgerInv'
<1> SUFFICES ASSUME LedgerInv, [Next]_vars PROVE LedgerInv'
  OBVIOUS
<1>1. TypeOK'
  BY StepTypeOK DEF LedgerInv
<1>2. \A s \in Sources : Backed(store, s)' /\ Backed(flushed, s)' /\ Backed(backup, s)'
  BY <1>1, StepBacked
<1>3. \A s \in Observed' : ReadInThePast(s, batch[s])' /\ LaterThanCursor(s)'
  BY <1>1, StepBatch
<1>4. (pc \in {"stopped", "host"} => batch = NoBatch)'
  BY DEF LedgerInv, Next, vars, world, collector, databases, Traffic,
     StartFromZero, HostReboot, HostCollect, XrayInspect,
     XrayStats, RecordBatch, LoseBatch, EndOfCycle, CollectorStop,
     CollectorStart, Flush, BackupDatabase, RestoreDatabase
<1>5. QED
  BY <1>1, <1>2, <1>3, <1>4 DEF LedgerInv

\* The inductive invariant: every database, the live one and both it may
\* return to, is covered by traffic, and so is the batch under way.
THEOREM LedgerInvariant == Spec => []LedgerInv
  BY InitLedgerInv, StepLedgerInv, PTL DEF Spec

LEMMA BackedBounds == LedgerInv => NeverOvercounts
<1> SUFFICES ASSUME LedgerInv, NEW s \in Sources
             PROVE  store.recorded[s] <= carried[s]
  BY DEF NeverOvercounts
<1>1. Backed(store, s) /\ carried[s] \in Nat
  BY DEF LedgerInv, TypeOK
<1>2. store.cursor[s] \in Reading \cup {NoCursor} /\ store.recorded[s] \in Nat
  BY DEF LedgerInv, TypeOK, Ledger
<1>3. CASE store.cursor[s] = NoCursor
  BY <1>1, <1>3 DEF Backed
<1>4. CASE store.cursor[s] # NoCursor
  BY <1>1, <1>2, <1>4 DEF Backed, ReadInThePast, Reading
<1>5. QED
  BY <1>3, <1>4

\* No history of restarts, failures, lost commits and restored backups makes
\* the ledger attribute to a source more bytes than it carried.
THEOREM LedgerNeverOvercounts == Spec => []NeverOvercounts
  BY LedgerInvariant, BackedBounds, PTL

----------------------------------------------------------------------------

\* What the invariant says of a cursor and the reading that replaces it.
LEMMA ObservedPair ==
    ASSUME LedgerInv, NEW s \in Observed, store.cursor[s] # NoCursor
    PROVE  /\ store.cursor[s] \in Reading /\ batch[s] \in Reading
           /\ store.cursor[s].carried <= batch[s].carried
           /\ batch[s].raw + store.cursor[s].carried
                <= store.cursor[s].raw + batch[s].carried
<1>1. s \in Sources /\ batch[s] \in Reading
  BY DEF LedgerInv, TypeOK, Observed
<1>2. store.cursor[s] \in Reading
  BY <1>1 DEF LedgerInv, TypeOK, Ledger
<1>3. LaterThanCursor(s)
  BY DEF LedgerInv
<1>4. QED
  BY <1>1, <1>2, <1>3 DEF LaterThanCursor

\* What a commit adds to the account of an observed source.
LEMMA CommitAdds ==
    ASSUME LedgerInv, RecordBatch, NEW s \in Observed
    PROVE  /\ store'.recorded[s]
                = store.recorded[s] + Delta(store.cursor[s], batch[s])
           /\ store.recorded[s] \in Nat
           /\ Delta(store.cursor[s], batch[s]) \in Nat
<1>1. s \in Sources /\ batch[s] \in Reading
  BY DEF LedgerInv, TypeOK, Observed
<1>2. store.cursor[s] \in Reading \cup {NoCursor} /\ store.recorded[s] \in Nat
  BY <1>1 DEF LedgerInv, TypeOK, Ledger
<1>3. store'.recorded[s] = store.recorded[s] + Delta(store.cursor[s], batch[s])
  BY <1>1 DEF RecordBatch, Committed
<1>4. QED
  BY <1>1, <1>2, <1>3, DeltaType

\* No committed delta exceeds what flowed between the two readings it
\* compares, restarts between or within the readings included.
THEOREM LedgerDeltaWithinInterval == Spec => DeltaWithinInterval
<1>1. ASSUME LedgerInv, RecordBatch, NEW s \in Observed,
             store.cursor[s] # NoCursor
      PROVE  store'.recorded[s] - store.recorded[s]
               <= batch[s].carried - store.cursor[s].carried
  <2>1. Delta(store.cursor[s], batch[s])
          <= batch[s].carried - store.cursor[s].carried
    BY <1>1, ObservedPair, DeltaCovered
  <2>2. QED
    BY <1>1, <2>1, CommitAdds
<1>2. LedgerInv /\ [Next]_vars =>
        [RecordBatch =>
           \A s \in Observed : store.cursor[s] # NoCursor =>
               store'.recorded[s] - store.recorded[s]
                   <= batch[s].carried - store.cursor[s].carried]_vars
  BY <1>1
<1>3. QED
  BY <1>2, LedgerInvariant, PTL DEF Spec, DeltaWithinInterval

\* Between two samples of one run of the counter under one identity the
\* delta is exact, whatever was lost, stopped or restored in between.
THEOREM LedgerExactWithinRun == Spec => ExactWithinRun
<1>1. ASSUME LedgerInv, RecordBatch, NEW s \in Observed,
             store.cursor[s] # NoCursor,
             store.cursor[s].id = batch[s].id,
             SameRun(store.cursor[s], batch[s])
      PROVE  store'.recorded[s] - store.recorded[s]
               = batch[s].carried - store.cursor[s].carried
  <2>1. /\ store.cursor[s] \in Reading /\ batch[s] \in Reading
        /\ store.cursor[s].carried <= batch[s].carried
    BY <1>1, ObservedPair
  <2>2. Delta(store.cursor[s], batch[s])
          = batch[s].carried - store.cursor[s].carried
    BY <1>1, <2>1 DEF Delta, IsReset, SameRun, Reading
  <2>3. QED
    BY <1>1, <2>2, CommitAdds
<1>2. LedgerInv /\ [Next]_vars =>
        [RecordBatch =>
           \A s \in Observed :
              (/\ store.cursor[s] # NoCursor
               /\ store.cursor[s].id = batch[s].id
               /\ SameRun(store.cursor[s], batch[s]))
              => store'.recorded[s] - store.recorded[s]
                   = batch[s].carried - store.cursor[s].carried]_vars
  BY <1>1
<1>3. QED
  BY <1>2, LedgerInvariant, PTL DEF Spec, ExactWithinRun

----------------------------------------------------------------------------

\* The cursor of a source that is observed becomes its reading, others stay.
LEMMA CommitMoves ==
    ASSUME LedgerInv, RecordBatch, NEW s \in Sources
    PROVE  /\ s \in Observed => store'.cursor[s] = batch[s]
           /\ s \notin Observed => store'.cursor[s] = store.cursor[s]
  BY DEF RecordBatch, Committed

----------------------------------------------------------------------------
(***************************************************************************)
(* A life of the container is one run of its counters: readings of one     *)
(* life, wherever they are kept, are of the same run, which is the present *)
(* one if the container still lives.                                       *)
(***************************************************************************)
Taken ==
    {store.cursor["xray"], flushed.cursor["xray"], backup.cursor["xray"], batch["xray"]}
      \cap Reading

RunsApart ==
    "xray" \in Sources =>
        /\ \A r \in Taken :
              /\ r.life <= identity["xray"]
              /\ r.life = identity["xray"]
                    => r.carried - r.raw = carried["xray"] - count["xray"]
        /\ \A q, r \in Taken : q.life = r.life => SameRun(q, r)

\* What a step adds to the readings that are kept is a reading of now.
LEMMA TakenMoves ==
    ASSUME LedgerInv, TypeOK', [Next]_vars, "xray" \in Sources, NEW r \in Taken'
    PROVE  \/ r \in Taken
           \/ /\ UNCHANGED world
              /\ \E at \in Times, id \in Nat : r = ReadingOf("xray", id, at)
<1>1. TypeOK /\ BatchStep
  BY BatchMoves DEF LedgerInv
<1>2. CASE r = batch'["xray"]
  <2>1. r # NoReading
    BY <1>2 DEF Taken
  <2>2. CASE batch' = NoBatch \/ batch' = batch
    BY <1>2, <2>1, <2>2 DEF Taken, NoBatch
  <2>3. ASSUME NEW s \in Sources, NEW at \in Times, NEW id \in Nat,
               batch' = [batch EXCEPT ![s] = ReadingOf(s, id, at)], UNCHANGED world
        PROVE  \/ r \in Taken
               \/ /\ UNCHANGED world
                  /\ \E at1 \in Times, id1 \in Nat : r = ReadingOf("xray", id1, at1)
    <3>1. DOMAIN batch = Sources
      BY <1>1 DEF TypeOK
    <3>2. CASE s = "xray"
      BY <1>2, <2>3, <3>1, <3>2
    <3>3. CASE s # "xray"
      BY <1>2, <2>3, <3>1, <3>3 DEF Taken
    <3>4. QED
      BY <3>2, <3>3
  <2>4. QED
    BY <1>1, <2>2, <2>3 DEF BatchStep
<1>3. CASE r = store'.cursor["xray"]
  <2>1. CASE RecordBatch
    BY <1>3, <2>1, CommitMoves DEF Taken
  <2>2. CASE ~ RecordBatch
    <3>1. store' \in {store, flushed, backup}
      BY <2>2 DEF Next, vars, world, collector, databases, Traffic, StartFromZero,
         HostReboot, HostCollect, XrayInspect, XrayStats, LoseBatch,
         EndOfCycle, CollectorStop, CollectorStart, Flush, BackupDatabase,
         RestoreDatabase
    <3>2. QED
      BY <1>3, <3>1 DEF Taken
  <2>3. QED
    BY <2>1, <2>2
<1>4. CASE r \in {flushed'.cursor["xray"], backup'.cursor["xray"]}
  <2>1. flushed' \in {store, flushed} /\ backup' \in {store, backup}
    BY DEF Next, vars, world, collector, databases, Traffic, StartFromZero,
       HostReboot, HostCollect, XrayInspect, XrayStats, RecordBatch,
       LoseBatch, EndOfCycle, CollectorStop, CollectorStart, Flush, BackupDatabase,
       RestoreDatabase
  <2>2. QED
    BY <1>4, <2>1 DEF Taken
<1>5. QED
  BY <1>2, <1>3, <1>4 DEF Taken

\* Xray's counter goes on with the traffic, or the container has another life.
LEMMA RunMoves ==
    ASSUME TypeOK, [Next]_vars, "xray" \in Sources
    PROVE  \/ /\ identity'["xray"] = identity["xray"]
              /\ carried'["xray"] - count'["xray"] = carried["xray"] - count["xray"]
           \/ identity'["xray"] = identity["xray"] + 1
<1> USE DEF TypeOK
<1>1. ASSUME NEW s \in Sources, Traffic(s)
      PROVE  /\ identity'["xray"] = identity["xray"]
             /\ carried'["xray"] - count'["xray"] = carried["xray"] - count["xray"]
  BY <1>1 DEF Traffic
<1>2. ASSUME NEW s \in Sources, StartFromZero(s)
      PROVE  \/ /\ identity'["xray"] = identity["xray"]
                /\ carried'["xray"] - count'["xray"] = carried["xray"] - count["xray"]
             \/ identity'["xray"] = identity["xray"] + 1
  BY <1>2 DEF StartFromZero
<1>3. CASE HostReboot
  BY <1>3 DEF HostReboot
<1>4. CASE UNCHANGED world
  BY <1>4 DEF world
<1>5. QED
  BY <1>1, <1>2, <1>3, <1>4
  DEF Next, vars, HostCollect, XrayInspect, XrayStats, RecordBatch, LoseBatch,
      EndOfCycle, CollectorStop, CollectorStart, Flush, BackupDatabase,
      RestoreDatabase

LEMMA StepRunsApart ==
    ASSUME LedgerInv, TypeOK', [Next]_vars, RunsApart
    PROVE  RunsApart'
<1> SUFFICES ASSUME "xray" \in Sources PROVE RunsApart'
  BY DEF RunsApart
<1>1. TypeOK
  BY DEF LedgerInv
<1>2. /\ identity["xray"] \in Nat /\ carried["xray"] \in Nat /\ count["xray"] \in Nat
      /\ identity'["xray"] \in Nat /\ carried'["xray"] \in Nat /\ count'["xray"] \in Nat
  BY <1>1 DEF TypeOK
<1> DEFINE Old(r) == /\ r.life <= identity["xray"]
                     /\ r.life = identity["xray"]
                          => r.carried - r.raw = carried["xray"] - count["xray"]
<1>3. ASSUME NEW r \in Taken'
      PROVE  r \in Reading /\ Old(r)
  <2>1. r \in Reading
    BY DEF Taken
  <2>2. CASE r \in Taken
    BY <2>1, <2>2 DEF RunsApart
  <2>3. ASSUME NEW at \in Times, NEW id \in Nat, r = ReadingOf("xray", id, at)
        PROVE  Old(r)
    BY <1>2, <2>3 DEF ReadingOf
  <2>4. \/ r \in Taken
        \/ \E at \in Times, id \in Nat : r = ReadingOf("xray", id, at)
    BY <1>3, TakenMoves
  <2>5. QED
    BY <2>1, <2>2, <2>3, <2>4
<1>4. ASSUME NEW r \in Taken'
      PROVE  /\ r.life <= identity'["xray"]
             /\ r.life = identity'["xray"]
                   => r.carried - r.raw = carried'["xray"] - count'["xray"]
  <2>1. r.life \in Nat
    BY <1>3 DEF Reading
  <2>2. QED
    BY <1>1, <1>2, <1>3, <2>1, RunMoves
<1>5. ASSUME NEW q \in Taken', NEW r \in Taken', q.life = r.life
      PROVE  SameRun(q, r)
  <2>1. CASE q \in Taken /\ r \in Taken
    BY <1>5, <2>1 DEF RunsApart
  <2>2. CASE q \notin Taken \/ r \notin Taken
    <3>1. q.life = identity["xray"] \/ r.life = identity["xray"]
      BY <2>2, TakenMoves DEF ReadingOf
    <3>2. QED
      BY <1>3, <1>5, <3>1 DEF SameRun
  <2>3. QED
    BY <2>1, <2>2
<1>6. QED
  BY <1>4, <1>5 DEF RunsApart

\* As long as Xray's readings carry the container's own identity, bytes that
\* a delta leaves out are announced by is_reset.
THEOREM LedgerUndercountFlagged == Spec => UndercountFlagged
<1>1. Init => RunsApart
  BY DEF Init, RunsApart, Taken, EmptyLedger, NoBatch
<1>2. LedgerInv /\ LedgerInv' /\ [Next]_vars /\ RunsApart => RunsApart'
  BY StepRunsApart DEF LedgerInv
<1>3. Spec => []RunsApart
  BY <1>1, <1>2, LedgerInvariant, PTL DEF Spec
<1>4. ASSUME LedgerInv, RunsApart, RecordBatch, NEW s \in Observed \cap {"xray"},
             store.cursor[s] # NoCursor,
             Truthful(store.cursor[s]), Truthful(batch[s]),
             store'.recorded[s] - store.recorded[s]
               < batch[s].carried - store.cursor[s].carried
      PROVE  store'.flagged[s]
  <2>1. store.cursor[s] \in Reading /\ batch[s] \in Reading
    BY <1>4, ObservedPair
  <2>2. s = "xray" /\ "xray" \in Sources
    BY DEF Observed
  <2>3. batch[s].life = store.cursor[s].life => SameRun(batch[s], store.cursor[s])
    BY <1>4, <2>1, <2>2 DEF RunsApart, Taken
  <2>4. Delta(store.cursor[s], batch[s])
          < batch[s].carried - store.cursor[s].carried
    <3>1. s \in Observed
      OBVIOUS
    <3>2. QED
      BY <1>4, <2>1, <3>1, CommitAdds DEF Reading
  <2>5. IsReset(store.cursor[s], batch[s])
    BY <1>4, <2>1, <2>3, <2>4 DEF Delta, IsReset, SameRun, Truthful, Reading
  <2>6. QED
    BY <1>4, <2>2, <2>5 DEF RecordBatch, Committed, Observed
<1>5. LedgerInv /\ RunsApart /\ [Next]_vars =>
        [RecordBatch =>
           \A s \in Observed \cap {"xray"} :
              (/\ store.cursor[s] # NoCursor
               /\ Truthful(store.cursor[s]) /\ Truthful(batch[s])
               /\ store'.recorded[s] - store.recorded[s]
                    < batch[s].carried - store.cursor[s].carried)
              => store'.flagged[s]]_vars
  BY <1>4
<1>6. QED
  BY <1>3, <1>5, LedgerInvariant, PTL DEF Spec, UndercountFlagged

----------------------------------------------------------------------------

\* Every step of the ledger is a step of the account its readers rely on,
\* or leaves that account alone.
LEMMA StepAccount ==
    ASSUME LedgerInv, LedgerInv', NeverOvercounts', [Next]_vars
    PROVE  [Account!Next]_(Account!vars)
<1> USE DEF Account!Next, Account!vars
<1>1. ASSUME NEW s \in Sources, Traffic(s)
      PROVE  Account!Carry(s)
  BY <1>1 DEF Traffic, databases, Account!Carry
<1>2. CASE RecordBatch
  <2>1. store'.recorded \in [Sources -> Nat]
    BY DEF LedgerInv, TypeOK, Ledger
  <2>2. ASSUME NEW s \in Sources
        PROVE  store.recorded[s] <= store'.recorded[s]
    <3>1. store.recorded[s] \in Nat
      BY DEF LedgerInv, TypeOK, Ledger
    <3>2. CASE s \in Observed
      BY <1>2, <3>2, CommitAdds
    <3>3. CASE s \notin Observed
      BY <1>2, <3>1, <3>3 DEF RecordBatch, Committed
    <3>4. QED
      BY <3>2, <3>3
  <2>3. \A s \in Sources : store'.recorded[s] <= carried[s]
    <3>1. \A s \in Sources : store'.recorded[s] <= carried'[s]
      BY DEF NeverOvercounts
    <3>2. QED
      BY <1>2, <3>1 DEF RecordBatch, EndOfCycle, world
  <2>4. QED
    BY <1>2, <2>1, <2>2, <2>3 DEF RecordBatch, EndOfCycle, world, Account!Attribute
<1>3. CASE HostReboot
  BY <1>3 DEF HostReboot, Account!Return
<1>4. CASE Flush
  BY <1>4 DEF Flush, world, Account!Keep
<1>5. CASE BackupDatabase
  BY <1>5 DEF BackupDatabase, world, Account!Keep
<1>6. CASE RestoreDatabase
  BY <1>6 DEF RestoreDatabase, world, Account!Return
<1>7. CASE \/ \E s \in Sources : StartFromZero(s)
           \/ HostCollect \/ XrayInspect \/ XrayStats \/ LoseBatch
           \/ CollectorStop \/ CollectorStart \/ UNCHANGED vars
  BY <1>7 DEF StartFromZero, HostCollect, XrayInspect, XrayStats,
     LoseBatch, EndOfCycle, CollectorStop, CollectorStart, vars, world, databases
<1>8. QED
  BY <1>1, <1>2, <1>3, <1>4, <1>5, <1>6, <1>7 DEF Next

\* The ledger implements the abstract account: totals only grow, within the
\* traffic, except to return to an earlier total of their own.
THEOREM LedgerImplementsAccount == Spec => AccountSpec
<1>1. Init => Account!Init
  BY DEF Init, EmptyLedger, Account!Init, Account!Zero
<1>2. LedgerInv /\ LedgerInv' /\ NeverOvercounts' /\ [Next]_vars
        => [Account!Next]_(Account!vars)
  BY StepAccount
<1>3. QED
  BY <1>1, <1>2, LedgerInvariant, LedgerNeverOvercounts, PTL
  DEF Spec, AccountSpec, Account!Spec

----------------------------------------------------------------------------
(* The transaction, statement by statement. *)

\* A transaction that is closed leaves nothing undecided.
LEMMA CloseDecides == Close => Undecided'
  BY DEF Close, Undecided

\* While a transaction is open the cycle waits in record_batch: what happens
\* elsewhere changes neither the batch nor the committed ledger.
LEMMA ElsewhereKeeps ==
    ASSUME Elsewhere, pc = "record"
    PROVE  pc' = pc /\ batch' = batch /\ store' = store
  BY DEF Elsewhere, Traffic, StartFromZero, HostCollect,
     XrayInspect, XrayStats, CollectorStart, Flush, BackupDatabase,
     collector, databases

LEMMA StepUndecided ==
    ASSUME TypeOK, Undecided, [TransactionNext]_<<vars, transaction>>
    PROVE  Undecided'
<1>0. /\ store \in Ledger /\ Observed \subseteq Sources
      /\ \A s \in Observed : batch[s] \in Reading
  BY DEF TypeOK, Observed
<1>1. CASE BeginImmediate
  <2>1. /\ open' = TRUE /\ work' = store /\ sampled' = {} /\ moved' = {}
        /\ pc' = "record" /\ store' = store /\ batch' = batch
    BY <1>1 DEF BeginImmediate, Undecided, vars, collector, databases
  <2>2. QED
    BY <1>0, <2>1 DEF Undecided
<1>2. ASSUME NEW s \in Sources, InsertSample(s)
      PROVE  Undecided'
  <2>1. /\ open /\ open' = open /\ moved' = moved
        /\ s \in Observed /\ s \notin moved /\ s \notin sampled
        /\ sampled' = sampled \cup {s}
        /\ pc' = pc /\ batch' = batch /\ store' = store /\ Observed' = Observed
    BY <1>2 DEF InsertSample, AtTurn, vars, collector, databases, Observed
  <2>2. /\ work.cursor[s] = store.cursor[s]
        /\ work.recorded[s] = store.recorded[s]
        /\ work \in Ledger
    BY <2>1 DEF Undecided
  <2>3. ~ Rejected(store.cursor[s], batch[s])
    BY <1>2, <2>2 DEF InsertSample
  <2>4. /\ store.cursor[s] \in Reading \cup {NoCursor}
        /\ store.recorded[s] \in Nat
    BY <1>0 DEF Ledger
  <2>5. /\ Delta(store.cursor[s], batch[s]) \in Nat
        /\ IsReset(store.cursor[s], batch[s]) \in BOOLEAN
    BY <1>0, <2>1, <2>4, DeltaType DEF IsReset
  <2>6. work' = [work EXCEPT
          !.recorded[s] = store.recorded[s] + Delta(store.cursor[s], batch[s]),
          !.flagged[s] = IsReset(store.cursor[s], batch[s])]
    BY <1>2, <2>2 DEF InsertSample
  <2>7. /\ work'.cursor = work.cursor
        /\ work'.recorded = [work.recorded EXCEPT
             ![s] = store.recorded[s] + Delta(store.cursor[s], batch[s])]
        /\ work'.flagged = [work.flagged EXCEPT
             ![s] = IsReset(store.cursor[s], batch[s])]
        /\ work' \in Ledger
    <3>1. /\ work'.cursor = work.cursor
          /\ work'.recorded = [work.recorded EXCEPT
               ![s] = store.recorded[s] + Delta(store.cursor[s], batch[s])]
          /\ work'.flagged = [work.flagged EXCEPT
               ![s] = IsReset(store.cursor[s], batch[s])]
          /\ work' = [cursor |-> work'.cursor, recorded |-> work'.recorded,
                      flagged |-> work'.flagged]
      BY <2>2, <2>6 DEF Ledger
    <3>2. store.recorded[s] + Delta(store.cursor[s], batch[s]) \in Nat
      BY <2>4, <2>5
    <3>3. /\ work'.recorded \in [Sources -> Nat]
          /\ work'.flagged \in [Sources -> BOOLEAN]
          /\ work'.cursor \in [Sources -> Reading \cup {NoCursor}]
      BY <2>2, <2>5, <3>1, <3>2 DEF Ledger
    <3>4. QED
      BY <3>1, <3>3 DEF Ledger
  <2>8. ASSUME NEW q \in Sources
        PROVE  /\ work'.cursor[q] =
                    (IF q \in moved THEN batch[q] ELSE store.cursor[q])
               /\ q \notin sampled' => /\ work'.recorded[q] = store.recorded[q]
                                       /\ work'.flagged[q] = store.flagged[q]
               /\ q \in sampled' =>
                    /\ ~ Rejected(store.cursor[q], batch[q])
                    /\ work'.recorded[q] = store.recorded[q]
                                             + Delta(store.cursor[q], batch[q])
                    /\ work'.flagged[q] = IsReset(store.cursor[q], batch[q])
    <3>1. CASE q = s
      BY <2>1, <2>2, <2>3, <2>7, <3>1 DEF Undecided, Ledger
    <3>2. CASE q # s
      BY <2>1, <2>2, <2>7, <3>2 DEF Undecided, Ledger
    <3>3. QED
      BY <3>1, <3>2
  <2>9. QED
    BY <2>1, <2>7, <2>8 DEF Undecided
<1>3. ASSUME NEW s \in Sources, MoveCursor(s)
      PROVE  Undecided'
  <2>1. /\ open /\ open' = open /\ sampled' = sampled
        /\ s \in Observed /\ s \in sampled /\ moved' = moved \cup {s}
        /\ pc' = pc /\ batch' = batch /\ store' = store /\ Observed' = Observed
        /\ work' = [work EXCEPT !.cursor[s] = batch[s]]
    BY <1>3 DEF MoveCursor, AtTurn, vars, collector, databases, Observed
  <2>2. work \in Ledger /\ batch[s] \in Reading
    BY <1>0, <2>1 DEF Undecided
  <2>3. /\ work'.cursor = [work.cursor EXCEPT ![s] = batch[s]]
        /\ work'.recorded = work.recorded /\ work'.flagged = work.flagged
        /\ work' \in Ledger
    BY <2>1, <2>2 DEF Ledger
  <2>4. \A q \in Sources : work'.cursor[q] =
          (IF q \in moved' THEN batch[q] ELSE store.cursor[q])
    BY <2>1, <2>2, <2>3 DEF Undecided, Ledger
  <2>5. QED
    BY <2>1, <2>3, <2>4 DEF Undecided
<1>4. CASE Commit \/ Rollback \/ Killed \/ HostDown \/ DatabaseReplaced
  BY <1>4, CloseDecides DEF Commit, Rollback, Killed, HostDown, DatabaseReplaced
<1>5. CASE Elsewhere /\ UNCHANGED transaction
  BY <1>5, ElsewhereKeeps DEF Undecided, transaction, Observed
<1>6. CASE UNCHANGED <<vars, transaction>>
  BY <1>6 DEF Undecided, transaction, vars, collector, databases, Observed
<1>7. QED
  BY <1>1, <1>2, <1>3, <1>4, <1>5, <1>6 DEF TransactionNext

\* Once every cursor is moved, the transaction's view is the whole batch.
LEMMA WorkIsBatch ==
    ASSUME TypeOK, Undecided, open, moved = Observed
    PROVE  /\ work = Committed(store)
           /\ \A s \in Observed : ~ Rejected(store.cursor[s], batch[s])
<1>1. sampled = Observed /\ work \in Ledger /\ Observed \subseteq Sources
  BY DEF Undecided, Observed
<1>2. work.cursor = Committed(store).cursor
  BY <1>1 DEF Undecided, Ledger, Committed
<1>3. work.recorded = Committed(store).recorded
  BY <1>1 DEF Undecided, Ledger, Committed
<1>4. work.flagged = Committed(store).flagged
  BY <1>1 DEF Undecided, Ledger, Committed
<1>5. QED
  BY <1>1, <1>2, <1>3, <1>4 DEF Undecided, Ledger, Committed

\* Every statement is a step of CounterLedger, or none that it can see.
LEMMA StepAtomic ==
    ASSUME TypeOK, Undecided, [TransactionNext]_<<vars, transaction>>
    PROVE  [Next]_vars
<1>1. CASE Commit
  <2>1. open /\ moved = Observed /\ pc = "record"
    BY <1>1 DEF Commit, Undecided
  <2>2. RecordBatch
    BY <1>1, <2>1, WorkIsBatch DEF Commit, RecordBatch
  <2>3. QED
    BY <2>2 DEF Next
<1>2. CASE Rollback \/ Killed \/ HostDown \/ DatabaseReplaced
  BY <1>2 DEF Rollback, Killed, HostDown, DatabaseReplaced, Next
<1>3. CASE Elsewhere
  BY <1>3 DEF Elsewhere, Next
<1>4. CASE UNCHANGED vars
  BY <1>4
<1>5. QED
  BY <1>1, <1>2, <1>3, <1>4
  DEF TransactionNext, BeginImmediate, InsertSample, MoveCursor

\* Interrupted between any two statements, record_batch takes the database
\* only through states in which batches are recorded whole or lost.
THEOREM TransactionImplementsLedger == TransactionSpec => AtomicBatches
<1>1. TransactionInit => Init /\ LedgerInv /\ Undecided
  BY InitLedgerInv DEF TransactionInit, Undecided
<1>2. ASSUME LedgerInv, Undecided, [TransactionNext]_<<vars, transaction>>
      PROVE  [Next]_vars /\ LedgerInv' /\ Undecided'
  BY <1>2, StepAtomic, StepUndecided, StepLedgerInv DEF LedgerInv
<1>3. QED
  BY <1>1, <1>2, PTL DEF TransactionSpec, AtomicBatches, Spec

\* So the account of no source passes its traffic, whichever statement is
\* the last one before the process, the host or the database is gone.
COROLLARY TransactionNeverOvercounts == TransactionSpec => []NeverOvercounts
  BY TransactionImplementsLedger, LedgerNeverOvercounts, PTL DEF AtomicBatches
=============================================================================
