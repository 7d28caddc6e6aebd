------------------------ MODULE CollectorCycleProofs ------------------------
(***************************************************************************)
(* Proofs about CollectorCycle for every value of its constants.           *)
(***************************************************************************)
EXTENDS CollectorCycle, TLAPS

USE ScheduleAssumption, NoRowAssumption

LEMMA ConstantsType ==
    /\ Cap \in Nat /\ Spread \in Nat /\ FreshFor \in Nat
    /\ Cap > FreshFor + Spread
    /\ Offsets \subseteq Int /\ 0 \in Offsets
    /\ \A a, b \in Offsets : a - b <= Spread
  BY CapAssumption, ClockAssumption DEF FreshFor

\* Neither a stamp nor a row of the path is the missing row.
LEMMA StampIsNoRow == NoRow \notin Stamp /\ NoRow \notin [at : Stamp, ok : BOOLEAN]
  BY DEF Stamp

LEMMA NowType == offset \in Offsets => Now \in Stamp
  BY ConstantsType DEF Now, Stamp

\* A tick keeps a stamp a stamp, and makes it one older up to the cap.
LEMMA OlderType ==
    ASSUME NEW stamp \in Stamp
    PROVE  /\ Older(stamp) \in Stamp
           /\ Older(stamp).real = Lesser(stamp.real + 1, Cap)
           /\ Older(stamp).off = stamp.off
  BY ConstantsType DEF Older, Stamp, Lesser

LEMMA OlderReportType ==
    ASSUME NEW report \in Report
    PROVE  /\ OlderReport(report) \in Report
           /\ OlderReport(report).cycle = NoRow <=> report.cycle = NoRow
           /\ OlderReport(report).path = NoRow <=> report.path = NoRow
           /\ report.cycle # NoRow =>
                /\ OlderReport(report).cycle.real = Lesser(report.cycle.real + 1, Cap)
                /\ OlderReport(report).cycle.off = report.cycle.off
           /\ report.path # NoRow =>
                /\ OlderReport(report).path.ok = report.path.ok
                /\ OlderReport(report).path.at.real = Lesser(report.path.at.real + 1, Cap)
                /\ OlderReport(report).path.at.off = report.path.at.off
<1>1. report.cycle # NoRow =>
        /\ Older(report.cycle) \in Stamp
        /\ Older(report.cycle).real = Lesser(report.cycle.real + 1, Cap)
        /\ Older(report.cycle).off = report.cycle.off
  BY OlderType DEF Report
<1>2. report.path # NoRow =>
        /\ [report.path EXCEPT !.at = Older(@)] \in [at : Stamp, ok : BOOLEAN]
        /\ [report.path EXCEPT !.at = Older(@)].ok = report.path.ok
        /\ [report.path EXCEPT !.at = Older(@)].at.real = Lesser(report.path.at.real + 1, Cap)
        /\ [report.path EXCEPT !.at = Older(@)].at.off = report.path.at.off
  <2> SUFFICES ASSUME report.path # NoRow
               PROVE  /\ [report.path EXCEPT !.at = Older(@)] \in [at : Stamp, ok : BOOLEAN]
                      /\ [report.path EXCEPT !.at = Older(@)].ok = report.path.ok
                      /\ [report.path EXCEPT !.at = Older(@)].at.real
                            = Lesser(report.path.at.real + 1, Cap)
                      /\ [report.path EXCEPT !.at = Older(@)].at.off = report.path.at.off
    OBVIOUS
  <2>1. report.path \in [at : Stamp, ok : BOOLEAN]
    BY DEF Report
  <2>2. report.path.at \in Stamp
    BY <2>1
  <2>3. QED
    BY <2>1, <2>2, OlderType
<1>3. OlderReport(report) \in Report
  BY <1>1, <1>2 DEF OlderReport, Report
<1>4. QED
  BY <1>1, <1>2, <1>3, StampIsNoRow DEF OlderReport

LEMMA PrunedType ==
    ASSUME NEW report \in Report
    PROVE  /\ Pruned(report) \in Report
           /\ Pruned(report).cycle \in {NoRow, report.cycle}
           /\ Pruned(report).path \in {NoRow, report.path}
           /\ ~ (WallAge(report.cycle) > RawKeep) => Pruned(report).cycle = report.cycle
           /\ ~ (WallAge(report.path.at) > RawKeep) => Pruned(report).path = report.path
  BY DEF Pruned, Report, WallAge, Stamp

\* The ages and the clocks of the rows of a report.
LEMMA ReportStamps ==
    ASSUME NEW report \in Report
    PROVE  /\ report.cycle # NoRow =>
                /\ report.cycle \in Stamp
                /\ report.cycle.real \in Nat /\ report.cycle.real <= Cap
                /\ report.cycle.off \in Int
           /\ report.path # NoRow =>
                /\ report.path.at \in Stamp /\ report.path.ok \in BOOLEAN
                /\ report.path.at.real \in Nat /\ report.path.at.real <= Cap
                /\ report.path.at.off \in Int
<1>1. ASSUME NEW stamp \in Stamp
      PROVE  stamp.real \in Nat /\ stamp.real <= Cap /\ stamp.off \in Int
  <2>1. stamp.real \in 0..Cap /\ stamp.off \in Offsets
    BY DEF Stamp
  <2>2. stamp.off \in Int
    BY <2>1, ConstantsType
  <2>3. stamp.real \in Nat /\ stamp.real <= Cap
    BY <2>1, ConstantsType
  <2>4. QED
    BY <2>2, <2>3
<1>2. report.path # NoRow => report.path \in [at : Stamp, ok : BOOLEAN]
  BY DEF Report
<1>3. report.path # NoRow => report.path.at \in Stamp /\ report.path.ok \in BOOLEAN
  BY <1>2
<1>4. report.cycle # NoRow => report.cycle \in Stamp
  BY DEF Report
<1>5. QED
  BY <1>1, <1>3, <1>4

\* How the schedule's times compare when the configuration keeps verdicts fresh.
LEMMA ScheduleTimes ==
    /\ Settle \in Nat /\ Greater(Interval, MaxCycle) \in Nat \ {0}
    /\ Interval <= Greater(Interval, MaxCycle) /\ MaxCycle <= Greater(Interval, MaxCycle)
    /\ Settle = ProbeEvery + Greater(Interval, MaxCycle) + MaxCycle
    /\ Cadence => /\ Settle <= FreshFor /\ Settle <= RawKeep /\ Settle < Cap
                  /\ Greater(Interval, MaxCycle) + MaxCycle <= StaleAfter
  BY ConstantsType DEF Settle, Greater, Cadence

LEMMA NoReportType == NoReport \in Report
  BY DEF NoReport, Report

LEMMA InitTypeOK == Init => TypeOK
  BY ConstantsType, NoReportType DEF Init, TypeOK, Greater, Lesser, Settle

LEMMA StepTypeOK == TypeOK /\ [Next]_vars => TypeOK'
<1> SUFFICES ASSUME TypeOK, [Next]_vars
             PROVE  TypeOK'
  OBVIOUS
<1> USE DEF TypeOK, process, database, world, ghosts
<1>0. Settle \in Nat /\ Greater(Interval, MaxCycle) \in Nat
  BY DEF Settle, Greater
<1>1. CASE Tick
  <2>1. batch' \in Report /\ rows' \in Report
    BY <1>1, OlderReportType DEF Tick
  <2>2. pc' \in {"probe", "retain", "record"} => batch'.cycle # NoRow
    BY <1>1, OlderReportType DEF Tick
  <2>3. cursor' \in Stamp \cup {NoRow}
    BY <1>1, OlderType DEF Tick
  <2>4. sinceStart' \in 0..Greater(Interval, MaxCycle)
    BY <1>1 DEF Tick, Greater
  <2>5. /\ sinceProbe' \in 0..ProbeEvery /\ sincePrune' \in 0..PruneEvery
        /\ deadFor' \in 0..Cap /\ calm' \in 0..(Settle + 1)
    BY <1>0, <1>1, ConstantsType DEF Tick, Lesser
  <2>6. QED
    BY <1>1, <2>1, <2>2, <2>3, <2>4, <2>5 DEF Tick
<1>2. ASSUME NEW to \in Offsets, SetClock(to)
      PROVE  TypeOK'
  BY <1>0, <1>2 DEF SetClock
<1>3. CASE PathChange
  BY <1>0, <1>3, ConstantsType DEF PathChange
<1>4. CASE StartCycle
  <2>1. batch' \in Report /\ batch'.cycle # NoRow
    BY <1>4, NowType, StampIsNoRow DEF StartCycle, Report
  <2>2. QED
    BY <1>0, <1>4, <2>1 DEF StartCycle
<1>5. CASE Probe
  <2>1. batch' \in Report /\ batch'.cycle = batch.cycle
    <3>1. ASSUME NEW ok \in BOOLEAN,
                 batch' = [batch EXCEPT !.path = [at |-> Now, ok |-> ok]]
          PROVE  batch' \in Report /\ batch'.cycle = batch.cycle
      <4>1. [at |-> Now, ok |-> ok] \in [at : Stamp, ok : BOOLEAN]
        BY NowType
      <4>2. QED
        BY <3>1, <4>1 DEF Report
    <3>2. CASE batch' = batch
      BY <3>2
    <3>3. QED
      BY <1>5, <3>1, <3>2 DEF Probe
  <2>2. calm' \in {0, calm} /\ sinceProbe' \in {0, sinceProbe}
    BY <1>5 DEF Probe
  <2>3. QED
    BY <1>0, <1>5, <2>1, <2>2 DEF Probe
<1>6. CASE Retain
  <2>1. rows' \in Report
    BY <1>6, PrunedType DEF Retain
  <2>2. QED
    BY <1>6, <2>1 DEF Retain
<1>7. CASE Record
  <2>1. rows' \in Report
    BY <1>7 DEF Record, Report
  <2>2. cursor' \in Stamp \cup {NoRow}
    BY <1>7 DEF Record, Report
  <2>3. QED
    BY <1>7, <2>1, <2>2, NoReportType DEF Record, EndCycle
<1>8. CASE RejectBatch \/ LoseBatch
  BY <1>0, <1>8, NoReportType DEF RejectBatch, LoseBatch, EndCycle
<1>9. CASE Crash
  BY <1>0, <1>9, NoReportType DEF Crash, Greater
<1>10. CASE Restart
  BY <1>0, <1>10 DEF Restart
<1>11. CASE UNCHANGED vars
  BY <1>11 DEF vars
<1>12. QED
  BY <1>1, <1>2, <1>3, <1>4, <1>5, <1>6, <1>7, <1>8, <1>9, <1>10, <1>11 DEF Next, Work

\* Whatever fails and however the clock is set, every variable keeps its type.
THEOREM TypeCorrect == Spec => []TypeOK
  BY InitTypeOK, StepTypeOK, PTL DEF Spec

LEMMA InitSchedule == Init => YoungRowsAreTrue /\ ScheduleKept
<1> SUFFICES ASSUME Init
             PROVE  YoungRowsAreTrue /\ ScheduleKept
  OBVIOUS
<1>1. YoungRowsAreTrue
  BY DEF Init, NoReport, YoungRowsAreTrue
<1>2. CycleSeen(sinceStart) /\ PathSeen(LastAttempt)
  BY DEF Init, CycleSeen, PathSeen, LastAttempt
<1>3. QED
  BY <1>1, <1>2 DEF Init, ScheduleKept

\* What is younger than the last thing that went wrong stays true: whatever makes
\* it untrue goes wrong.
LEMMA StepYoungRowsAreTrue ==
    Cadence /\ TypeOK /\ YoungRowsAreTrue /\ [Next]_vars => YoungRowsAreTrue'
<1> SUFFICES ASSUME Cadence, TypeOK, YoungRowsAreTrue, [Next]_vars
             PROVE  YoungRowsAreTrue'
  OBVIOUS
<1> DEFINE True(report, time, off, up) ==
             /\ report.cycle # NoRow /\ report.cycle.real < time => report.cycle.off = off
             /\ report.path # NoRow /\ report.path.at.real < time =>
                   report.path.at.off = off /\ report.path.ok = up
<1>1. True(rows, calm, offset, pathUp) /\ True(batch, calm, offset, pathUp)
  BY DEF YoungRowsAreTrue
<1>2. SUFFICES True(rows', calm', offset', pathUp') /\ True(batch', calm', offset', pathUp')
  BY DEF YoungRowsAreTrue
<1>3. /\ rows \in Report /\ batch \in Report /\ rows' \in Report /\ batch' \in Report
      /\ calm \in Nat /\ calm <= Settle + 1 /\ pathUp \in BOOLEAN /\ Settle \in Nat
  <2>1. TypeOK'
    BY StepTypeOK
  <2>2. QED
    BY <2>1, ScheduleTimes DEF TypeOK
<1>4. True(NoReport, calm, offset, pathUp)
  BY DEF NoReport
<1> USE DEF process, database, world, ghosts
<1>5. CASE calm' = 0
  BY <1>3, <1>5, ReportStamps
<1>6. CASE Tick
  <2>1. ASSUME NEW report \in Report, True(report, calm, offset, pathUp)
        PROVE  True(OlderReport(report), calm', offset, pathUp)
    <3>1. calm' <= calm + 1 /\ calm' <= Settle + 1 /\ calm' \in Nat
      BY <1>3, <1>6 DEF Tick, Lesser
    <3>2. Settle + 1 <= Cap /\ Cap \in Nat
      BY <1>3, ScheduleTimes, ConstantsType
    <3>3. ASSUME NEW age \in Nat, Lesser(age + 1, Cap) < calm'
          PROVE  age < calm
      BY <1>3, <3>1, <3>2, <3>3 DEF Lesser
    <3>4. OlderReport(report).cycle # NoRow /\ OlderReport(report).cycle.real < calm' =>
            OlderReport(report).cycle.off = offset
      BY <2>1, <3>3, OlderReportType, ReportStamps
    <3>5. OlderReport(report).path # NoRow /\ OlderReport(report).path.at.real < calm' =>
            OlderReport(report).path.at.off = offset /\ OlderReport(report).path.ok = pathUp
      BY <2>1, <3>3, OlderReportType, ReportStamps
    <3>6. QED
      BY <3>4, <3>5
  <2>2. True(OlderReport(rows), calm', offset, pathUp) /\ True(OlderReport(batch), calm', offset, pathUp)
    BY <1>1, <1>3, <2>1
  <2>3. QED
    BY <1>6, <2>2 DEF Tick
<1>7. CASE StartCycle
  <2>1. True([cycle |-> Now, path |-> NoRow], calm, offset, pathUp)
    BY DEF Now
  <2>2. QED
    BY <1>1, <1>7, <2>1 DEF StartCycle
<1>8. CASE Probe
  <2>1. CASE batch' = batch /\ calm' = calm
    BY <1>1, <1>8, <2>1 DEF Probe
  <2>2. CASE batch' = [batch EXCEPT !.path = [at |-> Now, ok |-> pathUp]] /\ calm' = calm
    <3>1. batch'.cycle = batch.cycle /\ batch'.path = [at |-> Now, ok |-> pathUp]
      BY <1>3, <2>2 DEF Report
    <3>2. batch'.path.at.off = offset /\ batch'.path.ok = pathUp
      BY <3>1 DEF Now
    <3>3. QED
      BY <1>1, <1>8, <2>2, <3>1, <3>2 DEF Probe
  <2>3. QED
    BY <1>5, <1>8, <2>1, <2>2 DEF Probe
<1>9. CASE Retain
  <2>1. rows' = rows \/ rows' = Pruned(rows)
    BY <1>9 DEF Retain
  <2>2. True(rows', calm, offset, pathUp)
    BY <1>1, <1>3, <2>1, PrunedType
  <2>3. QED
    BY <1>1, <1>9, <2>2 DEF Retain
<1>10. CASE Record
  <2>1. True(rows', calm, offset, pathUp)
    BY <1>1, <1>10 DEF Record
  <2>2. QED
    BY <1>4, <1>10, <2>1 DEF Record, EndCycle
<1>11. CASE UNCHANGED vars
  BY <1>1, <1>11 DEF vars
<1>12. CASE \/ \E to \in Offsets : SetClock(to)
            \/ PathChange \/ RejectBatch \/ LoseBatch \/ Crash \/ Restart
  BY <1>5, <1>12 DEF SetClock, PathChange, RejectBatch, LoseBatch, Crash, Restart
<1>13. QED
  BY <1>6, <1>7, <1>8, <1>9, <1>10, <1>11, <1>12 DEF Next, Work

\* The times of the schedule are natural, and none is longer than it takes to settle.
LEMMA AttemptTimes ==
    ASSUME TypeOK
    PROVE  /\ sinceStart \in Nat /\ sinceStart <= Greater(Interval, MaxCycle)
           /\ LastAttempt \in Nat /\ LastAttempt <= sinceStart + ProbeEvery - 1
           /\ LastAttempt <= LastAttemptBefore
           /\ LastAttemptBefore \in Nat
           /\ LastAttemptBefore <= sinceStart + Greater(Interval, MaxCycle) + ProbeEvery - 1
  BY ScheduleTimes DEF TypeOK, LastAttempt, LastAttemptBefore

\* Every cycle that nothing goes wrong in leaves a row of its own, and every
\* attempt on the path another.
LEMMA StepScheduleKept ==
    Cadence /\ TypeOK /\ YoungRowsAreTrue /\ ScheduleKept /\ [Next]_vars => ScheduleKept'
<1> SUFFICES ASSUME Cadence, TypeOK, YoungRowsAreTrue, ScheduleKept, [Next]_vars
             PROVE  ScheduleKept'
  OBVIOUS
<1> DEFINE G == Greater(Interval, MaxCycle)
<1> DEFINE CSeen(report, good, time) ==
             good <= time \/ (report.cycle # NoRow /\ report.cycle.real <= time)
<1> DEFINE PSeen(report, good, time) ==
             good <= time \/ (report.path # NoRow /\ report.path.at.real <= time)
<1>1. /\ TypeOK' /\ rows \in Report /\ batch \in Report /\ rows' \in Report /\ batch' \in Report
      /\ calm \in Nat /\ calm' \in Nat /\ sinceProbe \in 0..ProbeEvery
      /\ sinceStart \in Nat /\ sinceStart <= G
      /\ LastAttempt \in Nat /\ LastAttemptBefore \in Nat
      /\ LastAttempt' \in Nat /\ LastAttemptBefore' \in Nat
      /\ G \in Nat \ {0} /\ MaxCycle <= G
  <2>1. TypeOK'
    BY StepTypeOK
  <2>2. /\ LastAttempt' \in Nat /\ LastAttemptBefore' \in Nat
    <3>1. sinceProbe' \in 0..ProbeEvery /\ sinceStart' \in Nat
      BY <2>1, ScheduleTimes DEF TypeOK
    <3>2. G \in Nat /\ ProbeEvery \in Nat \ {0}
      BY ScheduleTimes
    <3>3. \A time \in Nat : time + ProbeEvery - 1 \in Nat /\ time + G + ProbeEvery - 1 \in Nat
      BY <3>2
    <3>4. LastAttempt' = IF sinceProbe' < ProbeEvery THEN sinceProbe'
                         ELSE sinceStart' + ProbeEvery - 1
      BY DEF LastAttempt
    <3>5. LastAttemptBefore' = IF sinceProbe' < ProbeEvery THEN sinceProbe'
                               ELSE sinceStart' + G + ProbeEvery - 1
      BY DEF LastAttemptBefore
    <3>6. sinceProbe' \in Nat
      BY <3>1, <3>2
    <3>7. QED
      BY <3>1, <3>3, <3>4, <3>5, <3>6
  <2>3. calm \in Nat /\ calm' \in Nat
    BY <2>1, ScheduleTimes DEF TypeOK
  <2>4. QED
    BY <2>1, <2>2, <2>3, AttemptTimes, ScheduleTimes DEF TypeOK
<1>2. ASSUME NEW report \in Report, NEW good \in Nat, NEW time \in Nat, NEW later \in Nat, time <= later
      PROVE  /\ CSeen(report, good, time) => CSeen(report, good, later)
             /\ PSeen(report, good, time) => PSeen(report, good, later)
  BY <1>2, ReportStamps
<1>3. \A time \in Nat : \A report \in Report : CSeen(report, 0, time) /\ PSeen(report, 0, time)
  OBVIOUS
<1> HIDE DEF G
<1> USE DEF process, database, world, ghosts
<1>4. CASE Tick
  <2>1. ASSUME NEW report \in Report, NEW time \in Nat, NEW later \in Nat, time + 1 <= later
        PROVE  /\ CSeen(report, calm, time) => CSeen(OlderReport(report), calm', later)
               /\ PSeen(report, calm, time) => PSeen(OlderReport(report), calm', later)
    <3>1. calm' <= calm + 1
      BY <1>1, <1>4, ScheduleTimes DEF Tick, Lesser
    <3>2. \A age \in Nat : Lesser(age + 1, Cap) \in Int /\ Lesser(age + 1, Cap) <= age + 1
      BY ConstantsType DEF Lesser
    <3>3. CSeen(report, calm, time) => CSeen(OlderReport(report), calm', later)
      BY <1>1, <2>1, <3>1, <3>2, OlderReportType, ReportStamps
    <3>4. PSeen(report, calm, time) => PSeen(OlderReport(report), calm', later)
      BY <1>1, <2>1, <3>1, <3>2, OlderReportType, ReportStamps
    <3>5. QED
      BY <3>3, <3>4
  <2> HIDE DEF CSeen, PSeen
  <2>2. CASE pc = "down"
    BY <1>4, <2>2 DEF Tick, ScheduleKept
  <2>3. CASE pc # "down"
    <3>1. /\ sinceStart' = sinceStart + 1 /\ pc' = pc /\ rows' = OlderReport(rows)
          /\ batch' = OlderReport(batch)
      BY <1>4, <2>3 DEF Tick
    <3>2. LastAttempt + 1 <= LastAttempt' /\ LastAttemptBefore + 1 <= LastAttemptBefore'
      BY <1>1, <1>4, <3>1 DEF Tick, LastAttempt, LastAttemptBefore, Lesser, G
    <3>3. CASE pc = "wait"
      <4>1. CSeen(rows, calm, sinceStart) /\ PSeen(rows, calm, LastAttempt)
        BY <3>3 DEF ScheduleKept, CycleSeen, PathSeen, CSeen, PSeen
      <4>2. CSeen(rows', calm', sinceStart') /\ PSeen(rows', calm', LastAttempt')
        BY <1>1, <2>1, <3>1, <3>2, <4>1
      <4>3. QED
        BY <3>1, <3>3, <4>2 DEF ScheduleKept, CycleSeen, PathSeen, CSeen, PSeen
    <3>4. CASE pc \in {"probe", "retain", "record"}
      <4>1. /\ sinceStart' <= MaxCycle /\ batch.cycle # NoRow
        BY <1>1, <1>4, <3>1, <3>4 DEF Tick, TypeOK
      <4>2. batch'.cycle.real <= sinceStart'
        <5>1. batch.cycle.real <= sinceStart /\ batch.cycle.real \in Nat
          BY <1>1, <3>4, <4>1, ReportStamps DEF ScheduleKept
        <5>2. batch'.cycle.real = Lesser(batch.cycle.real + 1, Cap)
          BY <1>1, <3>1, <4>1, OlderReportType
        <5>3. QED
          BY <1>1, <3>1, <5>1, <5>2, ConstantsType DEF Lesser
      <4>3. CSeen(rows', calm', sinceStart' + G)
        <5>1. CSeen(rows, calm, sinceStart + G)
          BY <3>4 DEF ScheduleKept, CycleSeen, CSeen, G
        <5>2. QED
          BY <1>1, <2>1, <3>1, <5>1
      <4>4. CASE pc = "probe"
        <5>1. PSeen(rows, calm, LastAttemptBefore) /\ batch.path = NoRow
          BY <4>4 DEF ScheduleKept, PathSeen, PSeen
        <5>2. PSeen(rows', calm', LastAttemptBefore') /\ batch'.path = NoRow
          BY <1>1, <2>1, <3>1, <3>2, <5>1, OlderReportType
        <5>3. QED
          BY <3>1, <4>1, <4>2, <4>3, <4>4, <5>2 DEF ScheduleKept, CycleSeen, PathSeen, CSeen, PSeen, G
      <4>5. CASE pc # "probe" /\ batch.path = NoRow
        <5>1. PSeen(rows, calm, LastAttempt)
          BY <3>4, <4>5 DEF ScheduleKept, PathSeen, PSeen
        <5>2. PSeen(rows', calm', LastAttempt') /\ batch'.path = NoRow
          BY <1>1, <2>1, <3>1, <3>2, <4>5, <5>1, OlderReportType
        <5>3. QED
          BY <3>1, <3>4, <4>1, <4>2, <4>3, <4>5, <5>2
             DEF ScheduleKept, CycleSeen, PathSeen, CSeen, PSeen, G
      <4>6. CASE pc # "probe" /\ batch.path # NoRow
        <5>1. /\ PSeen(rows, calm, sinceStart + G + ProbeEvery - 1)
              /\ batch.path.at.real <= LastAttempt
          BY <3>4, <4>6 DEF ScheduleKept, PathSeen, PSeen, G
        <5>2. PSeen(rows', calm', sinceStart' + G + ProbeEvery - 1)
          BY <1>1, <2>1, <3>1, <5>1
        <5>3. batch'.path # NoRow /\ batch'.path.at.real <= LastAttempt'
          <6>1. /\ batch'.path # NoRow /\ batch.path.at.real \in Nat
                /\ batch'.path.at.real = Lesser(batch.path.at.real + 1, Cap)
            BY <1>1, <3>1, <4>6, OlderReportType, ReportStamps
          <6>2. QED
            BY <1>1, <3>2, <5>1, <6>1, ConstantsType DEF Lesser
        <5>4. QED
          BY <3>1, <3>4, <4>1, <4>2, <4>3, <4>6, <5>2, <5>3
             DEF ScheduleKept, CycleSeen, PathSeen, CSeen, PSeen, G
      <4>7. QED
        BY <4>4, <4>5, <4>6
    <3>5. QED
      BY <2>3, <3>3, <3>4 DEF TypeOK
  <2>4. QED
    BY <2>2, <2>3
<1>5. CASE (\E to \in Offsets : SetClock(to)) \/ PathChange
  <2>1. calm' = 0 /\ UNCHANGED <<pc, sinceStart, sinceProbe, batch, rows>>
    BY <1>5 DEF SetClock, PathChange
  <2>2. LastAttempt' = LastAttempt /\ LastAttemptBefore' = LastAttemptBefore
    BY <2>1 DEF LastAttempt, LastAttemptBefore
  <2>3. sinceStart + G \in Nat /\ sinceStart + G + ProbeEvery - 1 \in Nat
    BY <1>1
  <2>4. QED
    BY <1>1, <2>1, <2>2, <2>3 DEF ScheduleKept, CycleSeen, PathSeen, G
<1>6. CASE RejectBatch \/ LoseBatch \/ Crash \/ Restart
  <2>1. calm' = 0 /\ pc' \in {"wait", "down"} /\ sinceStart' \in Nat
    BY <1>1, <1>6 DEF RejectBatch, LoseBatch, Crash, Restart, EndCycle
  <2>2. QED
    BY <1>1, <2>1 DEF ScheduleKept, CycleSeen, PathSeen
<1>7. CASE StartCycle
  <2>1. /\ pc = "wait" /\ pc' = "probe" /\ sinceStart' = 0 /\ UNCHANGED <<rows, calm, sinceProbe>>
        /\ batch'.cycle = Now /\ batch'.path = NoRow
    BY <1>7 DEF StartCycle
  <2>2. batch'.cycle.real <= sinceStart' /\ sinceStart' <= MaxCycle
    BY <2>1 DEF Now
  <2>3. CSeen(rows, calm, sinceStart) /\ PSeen(rows, calm, LastAttempt)
    BY <2>1 DEF ScheduleKept, CycleSeen, PathSeen
  <2>4. sinceStart <= sinceStart' + G /\ LastAttempt <= LastAttemptBefore'
    BY <1>1, <2>1 DEF LastAttempt, LastAttemptBefore, G
  <2> HIDE DEF CSeen, PSeen
  <2>5. CSeen(rows', calm', sinceStart' + G) /\ PSeen(rows', calm', LastAttemptBefore')
    BY <1>1, <1>2, <2>1, <2>3, <2>4
  <2>6. QED
    BY <2>1, <2>2, <2>5 DEF ScheduleKept, CycleSeen, PathSeen, CSeen, PSeen, G
<1>8. CASE Probe
  <2>1. /\ pc = "probe" /\ pc' = "retain" /\ UNCHANGED <<rows, sinceStart>>
        /\ sinceStart' <= MaxCycle /\ batch.path = NoRow
        /\ batch.cycle.real <= sinceStart'
        /\ CSeen(rows, calm, sinceStart + G) /\ PSeen(rows, calm, LastAttemptBefore)
    BY <1>8 DEF Probe, ScheduleKept, CycleSeen, PathSeen, G
  <2>2. CASE sinceProbe < ProbeEvery /\ UNCHANGED <<sinceProbe, batch, calm>>
    <3>1. LastAttempt' = LastAttemptBefore
      BY <1>1, <2>2 DEF LastAttempt, LastAttemptBefore
    <3>2. QED
      BY <2>1, <2>2, <3>1 DEF ScheduleKept, CycleSeen, PathSeen, G
  <2>3. ASSUME sinceProbe = ProbeEvery, sinceProbe' = 0, NEW ok \in BOOLEAN,
               batch' = [batch EXCEPT !.path = [at |-> Now, ok |-> ok]], calm' \in {0, calm}
        PROVE  ScheduleKept'
    <3>1. batch'.cycle = batch.cycle /\ batch'.path = [at |-> Now, ok |-> ok]
      BY <1>1, <2>3 DEF Report
    <3>2. batch'.path.at.real = 0 /\ batch'.path # NoRow
      <4>1. [at |-> Now, ok |-> ok] \in [at : Stamp, ok : BOOLEAN]
        BY NowType DEF TypeOK
      <4>2. QED
        BY <3>1, <4>1, StampIsNoRow DEF Now
    <3>3. LastAttemptBefore = sinceStart + G + ProbeEvery - 1
      BY <2>3 DEF LastAttemptBefore, G
    <3>4. /\ CSeen(rows, calm', sinceStart + G)
          /\ PSeen(rows, calm', sinceStart + G + ProbeEvery - 1)
      BY <1>1, <2>1, <2>3, <3>3
    <3>5. QED
      BY <1>1, <2>1, <3>1, <3>2, <3>4 DEF ScheduleKept, CycleSeen, PathSeen, G
  <2>4. QED
    BY <1>1, <1>8, <2>2, <2>3 DEF Probe, TypeOK
<1>9. CASE Retain
  <2>1. ASSUME NEW time \in Nat, time <= Settle
        PROVE  /\ CSeen(rows, calm, time) => CSeen(rows', calm, time)
               /\ PSeen(rows, calm, time) => PSeen(rows', calm, time)
    <3>1. rows' = rows \/ rows' = Pruned(rows)
      BY <1>9 DEF Retain
    <3>2. offset \in Int /\ RawKeep \in Nat /\ Settle <= RawKeep /\ Settle \in Nat
      BY ScheduleTimes, ConstantsType DEF TypeOK
    <3>3. ASSUME CSeen(rows, calm, time), ~ (calm <= time)
          PROVE  CSeen(Pruned(rows), calm, time)
      <4>1. rows.cycle # NoRow /\ rows.cycle.real <= time /\ rows.cycle.real \in Nat
        BY <1>1, <3>3, ReportStamps
      <4>2. rows.cycle.real < calm
        BY <1>1, <3>3, <4>1
      <4>3. rows.cycle.off = offset
        BY <4>1, <4>2 DEF YoungRowsAreTrue
      <4>4. ~ (WallAge(rows.cycle) > RawKeep)
        BY <2>1, <3>2, <4>1, <4>3 DEF WallAge
      <4>5. QED
        BY <1>1, <4>1, <4>4, PrunedType
    <3>4. ASSUME PSeen(rows, calm, time), ~ (calm <= time)
          PROVE  PSeen(Pruned(rows), calm, time)
      <4>1. rows.path # NoRow /\ rows.path.at.real <= time /\ rows.path.at.real \in Nat
        BY <1>1, <3>4, ReportStamps
      <4>2. rows.path.at.real < calm
        BY <1>1, <3>4, <4>1
      <4>3. rows.path.at.off = offset
        BY <4>1, <4>2 DEF YoungRowsAreTrue
      <4>4. ~ (WallAge(rows.path.at) > RawKeep)
        BY <2>1, <3>2, <4>1, <4>3 DEF WallAge
      <4>5. QED
        BY <1>1, <4>1, <4>4, PrunedType
    <3>5. QED
      BY <3>1, <3>3, <3>4
  <2>2. /\ pc = "retain" /\ pc' = "record" /\ UNCHANGED <<sinceStart, sinceProbe, batch, calm>>
        /\ sinceStart <= MaxCycle
    BY <1>9 DEF Retain, ScheduleKept
  <2>3. LastAttempt' = LastAttempt
    BY <2>2 DEF LastAttempt
  <2>4. /\ sinceStart + G \in Nat /\ sinceStart + G <= Settle
        /\ sinceStart + G + ProbeEvery - 1 \in Nat /\ sinceStart + G + ProbeEvery - 1 <= Settle
        /\ LastAttempt <= Settle
    BY <1>1, <2>2, ScheduleTimes, AttemptTimes DEF G
  <2>5. /\ CSeen(rows, calm, sinceStart + G) => CSeen(rows', calm, sinceStart + G)
        /\ PSeen(rows, calm, LastAttempt) => PSeen(rows', calm, LastAttempt)
        /\ PSeen(rows, calm, sinceStart + G + ProbeEvery - 1) =>
              PSeen(rows', calm, sinceStart + G + ProbeEvery - 1)
    <3> HIDE DEF CSeen, PSeen
    <3>1. QED
      BY <1>1, <2>1, <2>4
  <2>6. QED
    BY <2>2, <2>3, <2>5 DEF ScheduleKept, CycleSeen, PathSeen, G
<1>10. CASE Record
  <2>1. /\ pc = "record" /\ pc' = "wait" /\ UNCHANGED <<sinceStart, sinceProbe, calm>>
        /\ rows'.cycle = batch.cycle
        /\ rows'.path = IF batch.path = NoRow THEN rows.path ELSE batch.path
    BY <1>10 DEF Record, EndCycle
  <2>2. LastAttempt' = LastAttempt
    BY <2>1 DEF LastAttempt
  <2>3. batch.cycle # NoRow
    BY <2>1 DEF TypeOK
  <2>4. QED
    BY <2>1, <2>2, <2>3 DEF ScheduleKept, CycleSeen, PathSeen
<1>11. CASE UNCHANGED vars
  <2>1. LastAttempt' = LastAttempt /\ LastAttemptBefore' = LastAttemptBefore
    BY <1>11 DEF vars, LastAttempt, LastAttemptBefore
  <2>2. QED
    BY <1>11, <2>1 DEF vars, ScheduleKept, CycleSeen, PathSeen
<1>12. QED
  BY <1>4, <1>5, <1>6, <1>7, <1>8, <1>9, <1>10, <1>11 DEF Next, Work

LEMMA InitCycleInv == Init => CycleInv
  BY InitTypeOK, InitSchedule DEF Init, CycleInv, VerdictsPredateDeath, NoReport

LEMMA StepCycleInv == CycleInv /\ [Next]_vars => CycleInv'
<1> SUFFICES ASSUME CycleInv, [Next]_vars
             PROVE  CycleInv'
  OBVIOUS
<1>1. TypeOK /\ TypeOK'
  BY StepTypeOK DEF CycleInv
<1>2. deadFor \in 0..Cap /\ rows \in Report /\ batch \in Report
  BY <1>1 DEF TypeOK
<1> DEFINE Predates(report, dead) ==
             report.path # NoRow /\ report.path.ok => report.path.at.real >= dead
<1>3. Predates(rows, deadFor) /\ Predates(batch, deadFor)
  BY DEF CycleInv, VerdictsPredateDeath
<1>4. Predates(NoReport, deadFor)
  BY DEF NoReport
<1>a. Cadence => YoungRowsAreTrue' /\ ScheduleKept'
  BY <1>1, StepYoungRowsAreTrue, StepScheduleKept DEF CycleInv
<1>5. SUFFICES (pathUp' => deadFor' = 0) /\ Predates(rows', deadFor') /\ Predates(batch', deadFor')
  BY <1>1, <1>a DEF CycleInv, VerdictsPredateDeath, Cadence
<1>6. ASSUME NEW report \in Report
      PROVE  report.path # NoRow => report.path.at.real \in Nat /\ report.path.at.real <= Cap
  <2> SUFFICES ASSUME report.path # NoRow
               PROVE  report.path.at.real \in Nat /\ report.path.at.real <= Cap
    OBVIOUS
  <2>1. report.path \in [at : Stamp, ok : BOOLEAN]
    BY DEF Report
  <2>2. report.path.at \in Stamp
    BY <2>1
  <2>3. report.path.at.real \in 0..Cap
    BY <2>2 DEF Stamp
  <2>4. QED
    BY <2>3, ConstantsType
<1> USE DEF process, database, world, ghosts
<1>7. CASE Tick
  <2>1. ASSUME NEW report \in Report, Predates(report, deadFor)
        PROVE  Predates(OlderReport(report), deadFor')
    <3>1. deadFor' = 0 \/ deadFor' = Lesser(deadFor + 1, Cap)
      BY <1>7 DEF Tick
    <3>2. CASE report.path = NoRow
      BY <3>2, OlderReportType
    <3>3. CASE report.path # NoRow /\ report.path.ok
      <4>1. report.path.at.real >= deadFor
        BY <2>1, <3>3
      <4>2. OlderReport(report).path.at.real = Lesser(report.path.at.real + 1, Cap)
        BY <3>3, OlderReportType
      <4>3. QED
        BY <1>2, <1>6, <3>1, <3>3, <4>1, <4>2, ConstantsType DEF Lesser
    <3>4. CASE report.path # NoRow /\ ~ report.path.ok
      BY <3>4, OlderReportType
    <3>5. QED
      BY <3>2, <3>3, <3>4
  <2>2. Predates(rows', deadFor') /\ Predates(batch', deadFor')
    BY <1>2, <1>3, <1>7, <2>1 DEF Tick
  <2>3. QED
    BY <1>7, <2>2 DEF Tick
<1>8. ASSUME NEW to \in Offsets, SetClock(to)
      PROVE  (pathUp' => deadFor' = 0) /\ Predates(rows', deadFor') /\ Predates(batch', deadFor')
  BY <1>3, <1>8 DEF SetClock, CycleInv
<1>9. CASE PathChange
  BY <1>2, <1>6, <1>9 DEF PathChange
<1>10. CASE StartCycle
  BY <1>3, <1>10 DEF StartCycle, CycleInv
<1>11. CASE Probe
  <2>1. Predates(batch', deadFor)
    <3>1. CASE batch' = batch
      BY <1>3, <3>1
    <3>2. CASE batch' = [batch EXCEPT !.path = [at |-> Now, ok |-> pathUp]]
      <4>1. batch'.path = [at |-> Now, ok |-> pathUp]
        BY <1>2, <3>2 DEF Report
      <4>2. pathUp => deadFor = 0
        BY DEF CycleInv
      <4>3. QED
        BY <4>1, <4>2 DEF Now
    <3>3. CASE batch' = [batch EXCEPT !.path = [at |-> Now, ok |-> FALSE]]
      BY <1>2, <3>3 DEF Report
    <3>4. QED
      BY <1>11, <3>1, <3>2, <3>3 DEF Probe
  <2>2. QED
    BY <1>3, <1>11, <2>1 DEF Probe, CycleInv
<1>12. CASE Retain
  <2>1. rows' = rows \/ rows' = Pruned(rows)
    BY <1>12 DEF Retain
  <2>2. Predates(rows', deadFor)
    BY <1>2, <1>3, <2>1, PrunedType
  <2>3. QED
    BY <1>3, <1>12, <2>2 DEF Retain, CycleInv
<1>13. CASE Record
  <2>1. Predates(rows', deadFor)
    BY <1>3, <1>13 DEF Record
  <2>2. QED
    BY <1>4, <1>13, <2>1 DEF Record, EndCycle, CycleInv
<1>14. CASE RejectBatch \/ LoseBatch
  BY <1>3, <1>4, <1>14 DEF RejectBatch, LoseBatch, EndCycle, CycleInv
<1>15. CASE Crash
  BY <1>3, <1>4, <1>15 DEF Crash, CycleInv
<1>16. CASE Restart
  BY <1>3, <1>16 DEF Restart, CycleInv
<1>17. CASE UNCHANGED vars
  BY <1>3, <1>17 DEF vars, CycleInv
<1>18. QED
  BY <1>7, <1>8, <1>9, <1>10, <1>11, <1>12, <1>13, <1>14, <1>15, <1>16, <1>17 DEF Next, Work

\* No verdict that the path works, recorded or about to be, is younger than
\* the time the path has been dead.
THEOREM VerdictsInvariant == Spec => []CycleInv
  BY InitCycleInv, StepCycleInv, PTL DEF Spec

LEMMA HealthyIsRecent == CycleInv => DeadPathNotHealthy
<1> SUFFICES ASSUME CycleInv, PathShown = "healthy"
             PROVE  ~ (deadFor > FreshFor + Spread)
  BY DEF DeadPathNotHealthy
<1>1. rows.path # NoRow /\ rows.path.ok /\ Fresh(rows.path.at)
  BY DEF PathShown
<1>2. deadFor <= rows.path.at.real /\ deadFor \in Nat
  BY <1>1, ConstantsType DEF CycleInv, VerdictsPredateDeath, TypeOK
<1>3. rows.path \in [at : Stamp, ok : BOOLEAN] /\ offset \in Offsets
  BY <1>1 DEF CycleInv, TypeOK, Report
<1>4. rows.path.at \in Stamp
  BY <1>3
<1>5. rows.path.at.real \in Nat /\ rows.path.at.off \in Offsets
  BY <1>4, ConstantsType DEF Stamp
<1>6. rows.path.at.real + offset - rows.path.at.off <= FreshFor
  BY <1>1 DEF Fresh, WallAge
<1>7. /\ rows.path.at.off - offset <= Spread
      /\ offset \in Int /\ rows.path.at.off \in Int
      /\ Spread \in Nat /\ FreshFor \in Nat
  BY <1>3, <1>5, ConstantsType
<1>8. QED
  BY <1>2, <1>5, <1>6, <1>7

\* A path that has been dead for longer than its verdicts are fresh is not
\* shown as healthy, whatever was lost, restarted, pruned or set meanwhile.
THEOREM DeadPathNotShownHealthy == Spec => []DeadPathNotHealthy
  BY VerdictsInvariant, HealthyIsRecent, PTL

LEMMA CalmIsTrue == CycleInv => ReportsTruth
<1> SUFFICES ASSUME CycleInv, Cadence, calm > Settle
             PROVE  Overall = Truth
  BY DEF ReportsTruth
<1> DEFINE G == Greater(Interval, MaxCycle)
<1>1. /\ TypeOK /\ YoungRowsAreTrue /\ ScheduleKept /\ rows \in Report /\ calm \in Nat
      /\ Settle \in Nat /\ G \in Nat \ {0} /\ MaxCycle <= G /\ pathUp \in BOOLEAN
      /\ Settle = ProbeEvery + G + MaxCycle
      /\ Settle <= FreshFor /\ G + MaxCycle <= StaleAfter /\ FreshFor \in Nat
      /\ offset \in Int /\ sinceStart \in Nat
  BY ScheduleTimes, ConstantsType, AttemptTimes DEF CycleInv, TypeOK
<1>2. LastAttempt \in Nat /\ LastAttemptBefore \in Nat /\ sinceStart <= G
  BY <1>1, AttemptTimes
<1>3. CycleSeen(G + MaxCycle) /\ PathSeen(Settle)
  <2>1. CASE pc = "down"
    BY <1>1, <2>1 DEF ScheduleKept
  <2>2. CASE pc = "wait"
    <3>1. LastAttempt <= Settle /\ sinceStart <= G + MaxCycle
      BY <1>1, <1>2, AttemptTimes
    <3>2. CycleSeen(sinceStart) /\ PathSeen(LastAttempt)
      BY <1>1, <2>2 DEF ScheduleKept
    <3>3. QED
      BY <1>1, <1>2, <3>1, <3>2, ReportStamps DEF CycleSeen, PathSeen
  <2>3. CASE pc \in {"probe", "retain", "record"}
    <3>1. CycleSeen(sinceStart + G) /\ sinceStart <= MaxCycle
      BY <1>1, <2>3 DEF ScheduleKept
    <3>2. /\ LastAttempt <= Settle /\ LastAttemptBefore <= Settle
          /\ sinceStart + G + ProbeEvery - 1 \in Nat /\ sinceStart + G + ProbeEvery - 1 <= Settle
      BY <1>1, <1>2, <3>1, AttemptTimes
    <3>3. \/ PathSeen(LastAttempt) \/ PathSeen(LastAttemptBefore)
          \/ PathSeen(sinceStart + G + ProbeEvery - 1)
      BY <1>1, <2>3 DEF ScheduleKept
    <3>4. PathSeen(Settle)
      BY <1>1, <1>2, <3>2, <3>3, ReportStamps DEF PathSeen
    <3>5. CycleSeen(G + MaxCycle)
      BY <1>1, <1>2, <3>1, ReportStamps DEF CycleSeen
    <3>6. QED
      BY <3>4, <3>5
  <2>4. QED
    BY <1>1, <2>1, <2>2, <2>3 DEF TypeOK
<1>4. rows.cycle # NoRow /\ WallAge(rows.cycle) <= StaleAfter /\ WallAge(rows.cycle) \in Int
  <2>1. /\ rows.cycle # NoRow /\ rows.cycle.real <= G + MaxCycle
        /\ rows.cycle.real \in Nat /\ rows.cycle.off \in Int
    BY <1>1, <1>3, ReportStamps DEF CycleSeen
  <2>2. rows.cycle.real < calm
    BY <1>1, <2>1
  <2>3. rows.cycle.off = offset
    BY <1>1, <2>1, <2>2 DEF YoungRowsAreTrue
  <2>4. QED
    BY <1>1, <2>1, <2>3 DEF WallAge
<1>5. rows.path # NoRow /\ Fresh(rows.path.at) /\ rows.path.ok = pathUp
  <2>1. /\ rows.path # NoRow /\ rows.path.at.real <= Settle
        /\ rows.path.at.real \in Nat /\ rows.path.at.off \in Int
    BY <1>1, <1>3, ReportStamps DEF PathSeen
  <2>2. rows.path.at.real < calm
    BY <1>1, <2>1
  <2>3. rows.path.at.off = offset /\ rows.path.ok = pathUp
    BY <1>1, <2>1, <2>2 DEF YoungRowsAreTrue
  <2>4. Fresh(rows.path.at)
    BY <1>1, <2>1, <2>3 DEF Fresh, WallAge
  <2>5. QED
    BY <2>1, <2>3, <2>4
<1>6. Stamps # {NoRow} /\ ~ Stale
  <2>1. rows.cycle \in Stamps \ {NoRow}
    BY <1>4 DEF Stamps
  <2>2. ~ (WallAge(rows.cycle) > StaleAfter)
    BY <1>4
  <2>3. QED
    BY <2>1, <2>2 DEF Stale
<1>7. PathShown = IF pathUp THEN "healthy" ELSE "unavailable"
  BY <1>5 DEF PathShown
<1>8. QED
  BY <1>6, <1>7 DEF Overall, Truth

\* If nothing went wrong for as long as it takes to probe and record again, the
\* dashboard says what is true, for any schedule that keeps its verdicts fresh.
THEOREM CalmReportsTruth == Spec => []ReportsTruth
  BY VerdictsInvariant, CalmIsTrue, PTL
=============================================================================
