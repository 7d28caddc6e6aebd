----------------------------- MODULE OverviewProofs -----------------------------
(***************************************************************************)
(* What the rows of the components look like, and what follows from it for *)
(* the two statuses and the alerts that are computed from them.            *)
(***************************************************************************)
EXTENDS Overview, FiniteSetTheorems, TLAPS

\* A report is a row of a component that may have the given state.
LEMMA ReportOK ==
    ASSUME NEW c \in Component, NEW state \in HealthState, NEW required \in BOOLEAN,
           required => c \in Paths /\ state # "disabled",
           c \in ListenerPaths => required
    PROVE  RowOK(c, Report(state, required))
  BY TimesAssumption DEF RowOK, Report, Row

\* The names of the components are of four kinds, which do not overlap.
LEMMA Kinds ==
    /\ Paths \subseteq Component
    /\ ListenerPaths \cap ProbePaths = {}
    /\ Reporters \cap Paths = {}
    /\ "network_exposure" \notin Paths /\ "retention" \notin Paths
    /\ Component = Reporters \cup ListenerPaths \cup ProbePaths
                     \cup {"network_exposure", "retention"}
  BY InputsAssumption DEF Paths, ListenerPaths, ListenerPath, ProbePaths, Component

\* Whatever is collected are rows as they should be.
LEMMA CollectedOK ==
    ASSUME TypeOK, NEW c \in Component, NEW raises \in BOOLEAN,
           Collected(raises)[c] # NoRow
    PROVE  RowOK(c, Collected(raises)[c])
  <1>1. CASE c \in Reporters
    <2>1. Collected(raises)[c] = ReporterRow(c)
      BY <1>1, Kinds, InputsAssumption DEF Collected, Paths
    <2>2. reports[c] \in HealthState
      BY <1>1 DEF TypeOK
    <2>. QED
      BY <1>1, <2>1, <2>2, Kinds, ReportOK DEF ReporterRow, HealthState, Paths
  <1>2. CASE c = "network_exposure"
    <2>1. Collected(raises)[c] = ExposureRow(Listeners)
      BY <1>2, Kinds, InputsAssumption DEF Collected, Paths
    <2>2. CASE ~ on["network"] \/ inventory \in {Fails, Raises}
      BY <1>2, <2>1, <2>2, Kinds, ReportOK DEF ExposureRow, HealthState, Paths
    <2>3. CASE on["network"] /\ inventory \notin {Fails, Raises}
      <3>. DEFINE state == ExposureState(Listeners)
                  unexpected == Unexpected(Listeners) # {}
      <3>1. state \in HealthState /\ (unexpected => state = "degraded")
        BY DEF ExposureState, HealthState
      <3>2. Collected(raises)[c] =
              [state |-> state, required |-> FALSE, unexpected |-> unexpected, age |-> 0]
        BY <2>1, <2>3 DEF ExposureRow, Report
      <3>. HIDE DEF state, unexpected
      <3>3. unexpected \in BOOLEAN
        BY DEF unexpected
      <3>. QED
        BY <1>2, <3>1, <3>2, <3>3, Kinds, TimesAssumption DEF RowOK, Row, Paths
    <2>. QED
      BY <2>2, <2>3
  <1>3. CASE c \in ListenerPaths
    <2>1. Collected(raises)[c] = ListenerRow(c, Listeners)
      BY <1>3, Kinds DEF Collected, Paths
    <2>2. ListenerPathState(c, Listeners) \in HealthState \ {"disabled"}
      BY DEF ListenerPathState, HealthState
    <2>. QED
      BY <1>3, <2>1, <2>2, ReportOK DEF ListenerRow, Paths
  <1>4. CASE c \in ProbePaths
    <2>1. Collected(raises)[c] = ProbeRow(c, raises)
      BY <1>4, Kinds DEF Collected, Paths
    <2>2. \A ok \in BOOLEAN : RowOK(c, Verdict(ok))
      BY <1>4, Kinds, ReportOK DEF Verdict, HealthState, Paths
    <2>3. RowOK(c, Report("unavailable", TRUE)) /\ RowOK(c, Report("disabled", FALSE))
      BY <1>4, Kinds, ReportOK DEF HealthState, Paths
    <2>4. DnsOk(answer) \in BOOLEAN /\ Upgraded \in BOOLEAN /\ WarpOk(trace) \in BOOLEAN
      BY DEF DnsOk, Upgraded, WarpOk
    <2>. QED
      BY <1>4, <2>1, <2>2, <2>3, <2>4 DEF ProbeRow, PathVerdict, ProbePaths
  <1>5. CASE c = "retention"
    <2>1. Collected(raises)[c] = RetentionRow
      BY <1>5, Kinds, InputsAssumption DEF Collected, Paths, ListenerPaths, ListenerPath, ProbePaths
    <2>. QED
      BY <1>5, <2>1, Kinds, ReportOK DEF RetentionRow, HealthState, Paths
  <1>. QED
    BY <1>1, <1>2, <1>3, <1>4, <1>5, Kinds

\* Growing older, pruning and recording keep rows as they should be.
LEMMA RecordingOK ==
    ASSUME TypeOK, NEW c \in Component
    PROVE  /\ Aged[c] # NoRow => RowOK(c, Aged[c])
           /\ Retained[c] # NoRow => RowOK(c, Retained[c])
           /\ \A raises \in BOOLEAN :
                 Recording(raises)[c] # NoRow => RowOK(c, Recording(raises)[c])
  <1>1. Aged[c] # NoRow => RowOK(c, Aged[c])
    <2>1. CASE rows[c] = NoRow
      BY <2>1 DEF Aged, Older
    <2>2. CASE rows[c] # NoRow
      <3>1. RowOK(c, rows[c])
        BY <2>2 DEF TypeOK
      <3>2. Aged[c] = [rows[c] EXCEPT !.age = IF @ < Cap THEN @ + 1 ELSE Cap]
        BY <2>2 DEF Aged, Older
      <3>. QED
        BY <3>1, <3>2, TimesAssumption DEF RowOK, Row
    <2>. QED
      BY <2>1, <2>2
  <1>2. Retained[c] # NoRow => RowOK(c, Retained[c])
    <2>1. Pruned(Aged)[c] \in {NoRow, Aged[c]}
      BY DEF Pruned
    <2>. QED
      BY <1>1, <2>1 DEF Retained
  <1>3. ASSUME NEW raises \in BOOLEAN, Recording(raises)[c] # NoRow
        PROVE  RowOK(c, Recording(raises)[c])
    BY <1>2, <1>3, CollectedOK DEF Recording
  <1>. QED
    BY <1>1, <1>2, <1>3

----------------------------------------------------------------------------

LEMMA InitOK == Init => TypeOK
  BY TimesAssumption DEF Init, TypeOK, HealthState, Linger, Settle

\* The rows change at most to what RecordingOK allows.
LEMMA RowsStep ==
    ASSUME TypeOK, [Next]_vars
    PROVE  /\ DOMAIN rows' = Component
           /\ \A c \in Component : rows'[c] # NoRow => RowOK(c, rows'[c])
  <1>1. CASE rows' = rows
    BY <1>1 DEF TypeOK
  <1>2. CASE rows' \in {Recording(TRUE), Recording(FALSE), Retained, Aged}
    <2>1. DOMAIN rows' = Component
      BY <1>2 DEF Recording, Retained, Aged, Pruned
    <2>. QED
      BY <1>2, <2>1, RecordingOK
  <1>. QED
    BY <1>1, <1>2 DEF Next, Cycle, CycleRaising, CycleLost, Down, Reconfigure, HostChange, vars

LEMMA StepOK == TypeOK /\ [Next]_vars => TypeOK'
  <1>. SUFFICES ASSUME TypeOK, [Next]_vars PROVE TypeOK'
    OBVIOUS
  <1>1. /\ on' \in [Switches -> BOOLEAN]
        /\ reports' \in [Reporters -> HealthState \ {"disabled"}]
        /\ inventory' \in Inventories \cup {Fails, Raises}
        /\ answer' \in Answers /\ reactions' \in Reactions /\ trace' \in {"on", "off"}
        /\ retainable' \in BOOLEAN
    BY DEF TypeOK, Next, Cycle, CycleRaising, CycleLost, Down, Reconfigure, HostChange,
           vars, host, HealthState
  <1>2. sinceProbe' \in 1..ProbeEvery /\ sincePrune' \in 1..PruneEvery
    <2>1. /\ sinceProbe' \in {sinceProbe, 1, Lesser(sinceProbe + 1, ProbeEvery), ProbeEvery}
          /\ \/ sincePrune' \in {sincePrune, 1, PruneEvery}
             \/ sincePrune # PruneEvery /\ sincePrune' = sincePrune + 1
      BY DEF Next, Cycle, CycleRaising, CycleLost, Down, Reconfigure, HostChange, vars, Scheduled
    <2>. QED
      BY <2>1, TimesAssumption DEF TypeOK, Lesser
  <1>3. calm' \in 0..Linger /\ changes' \in 0..Changes
    <2>1. /\ calm' \in {calm, 0, Lesser(calm + 1, Linger)}
          /\ \/ changes' = changes
             \/ changes < Changes /\ changes' = changes + 1
      BY DEF Next, Cycle, CycleRaising, CycleLost, Down, Reconfigure, HostChange, vars,
             Calmer, Disturbed
    <2>2. Linger \in Nat
      BY TimesAssumption DEF Linger, Settle
    <2>. QED
      BY <2>1, <2>2, TimesAssumption DEF TypeOK, Lesser
  <1>. QED
    BY <1>1, <1>2, <1>3, RowsStep DEF TypeOK

----------------------------------------------------------------------------
(* How the rows come to be what is true of the host. *)

\* What is reported is a row, and not NoRow.
LEMMA ReportIsRow ==
    ASSUME NEW state \in HealthState, NEW required \in BOOLEAN
    PROVE  Report(state, required) \in Row /\ Report(state, required) # NoRow
  <1>1. Report(state, required) \in Row
    BY TimesAssumption DEF Report, Row
  <1>. QED
    BY <1>1, NoRowAssumption

LEMMA ExposureIsRow == ExposureRow(Listeners) \in Row /\ ExposureRow(Listeners) # NoRow
  <1>1. CASE ~ on["network"] \/ inventory \in {Fails, Raises}
    BY <1>1, ReportIsRow DEF ExposureRow, HealthState
  <1>2. CASE on["network"] /\ inventory \notin {Fails, Raises}
    <2>. DEFINE state == ExposureState(Listeners)
                unexpected == Unexpected(Listeners) # {}
    <2>1. state \in HealthState
      BY DEF ExposureState, HealthState
    <2>2. ExposureRow(Listeners) =
            [state |-> state, required |-> FALSE, unexpected |-> unexpected, age |-> 0]
      BY <1>2 DEF ExposureRow, Report
    <2>3. unexpected \in BOOLEAN
      OBVIOUS
    <2>. HIDE DEF state, unexpected
    <2>4. ExposureRow(Listeners) \in Row
      BY <2>1, <2>2, <2>3, TimesAssumption DEF Row
    <2>. QED
      BY <2>4, NoRowAssumption
  <1>. QED
    BY <1>1, <1>2

LEMMA VerdictIsRow ==
    ASSUME NEW p \in ProbePaths
    PROVE  /\ PathVerdict(p) \in Row /\ PathVerdict(p).age = 0
           /\ PathVerdict(p).unexpected = FALSE
  <1>1. \E state \in HealthState, required \in BOOLEAN :
            PathVerdict(p) = Report(state, required)
    BY DEF PathVerdict, Verdict, ProbePaths, HealthState
  <1>. QED
    BY <1>1, ReportIsRow DEF Report

\* Arithmetic of the counters.
LEMMA AtLeast ==
    ASSUME NEW n \in Int, NEW k \in Int, k > 0
    PROVE  n >= k => n > 0
  OBVIOUS

LEMMA CalmBefore ==
    ASSUME NEW after \in Int, NEW before \in Int, NEW k \in Int,
           after <= before + 1
    PROVE  after >= k + 1 => before >= k
  OBVIOUS

LEMMA LingerType == Settle \in Nat /\ Linger \in Nat
  BY TimesAssumption DEF Linger, Settle

\* At the start nothing is calm.
LEMMA InitSeen == Init => CycleSeen /\ ProbesSeen /\ RetentionSeen /\ LeftoversAge
  BY TimesAssumption DEF Init, CycleSeen, ProbesSeen, RetentionSeen, LeftoversAge, Switches


\* Every cycle counts one more interval of calm, and leaves the host alone.
LEMMA CalmStep ==
    ASSUME TypeOK, [Next]_vars, calm' > 0
    PROVE  \/ UNCHANGED vars
           \/ Cycle /\ UNCHANGED host /\ calm' <= calm + 1
  <1>1. calm \in Int /\ Linger \in Int
    BY TimesAssumption DEF TypeOK, Linger, Settle
  <1>2. CASE Cycle
    BY <1>1, <1>2 DEF Cycle, Calmer, Lesser
  <1>3. CASE UNCHANGED vars
    BY <1>3
  <1>4. calm' # 0
    OBVIOUS
  <1>. QED
    BY <1>2, <1>3, <1>4 DEF Next, CycleRaising, CycleLost, Down, Reconfigure, HostChange, Disturbed

\* What a cycle records of the components that are not on a schedule.
LEMMA StepCycleSeen == OverviewInv /\ [Next]_vars => CycleSeen'
  <1>. SUFFICES ASSUME OverviewInv, [Next]_vars, calm' > 0
                PROVE  /\ \A r \in Reporters : rows'[r] = ReporterRow(r)'
                       /\ rows'["network_exposure"] = ExposureRow(Listeners)'
                       /\ on'["network"] /\ inventory' # Raises =>
                             \A p \in ListenerPaths : rows'[p] = ListenerRow(p, Listeners)'
                       /\ ~ on'["probes"] =>
                             \A p \in ProbePaths : rows'[p] = Report("disabled", FALSE)
    BY DEF CycleSeen
  <1>0. TypeOK /\ CycleSeen
    BY DEF OverviewInv
  <1>1. CASE UNCHANGED vars
    BY <1>0, <1>1 DEF CycleSeen, vars, host, ReporterRow, ExposureRow, Listeners, ListenerRow
  <1>2. CASE Cycle /\ UNCHANGED host
    <2>1. /\ \A r \in Reporters : ReporterRow(r)' = ReporterRow(r)
          /\ ExposureRow(Listeners)' = ExposureRow(Listeners)
          /\ \A p \in ListenerPaths : ListenerRow(p, Listeners)' = ListenerRow(p, Listeners)
          /\ on' = on /\ inventory' = inventory
      BY <1>2 DEF host, ReporterRow, ExposureRow, Listeners, ListenerRow
    <2>2. \A c \in Component :
             Collected(FALSE)[c] # NoRow => rows'[c] = Collected(FALSE)[c]
      BY <1>2 DEF Cycle, Recording
    <2>3. \A c \in Reporters :
             Collected(FALSE)[c] = ReporterRow(c) /\ ReporterRow(c) # NoRow
      <3>1. ASSUME NEW c \in Reporters
            PROVE  /\ Collected(FALSE)[c] = ReporterRow(c)
                   /\ reports[c] \in HealthState
        <4>1. Collected(FALSE)[c] = ReporterRow(c)
          BY <3>1, Kinds, InputsAssumption DEF Collected, Paths
        <4>. QED
          BY <1>0, <4>1 DEF TypeOK
      <3>. QED
        BY <3>1, ReportIsRow DEF ReporterRow, HealthState
    <2>4. /\ Collected(FALSE)["network_exposure"] = ExposureRow(Listeners)
          /\ ExposureRow(Listeners) # NoRow
      <3>1. Collected(FALSE)["network_exposure"] = ExposureRow(Listeners)
        BY Kinds, InputsAssumption DEF Collected, Paths
      <3>. QED
        BY <3>1, ExposureIsRow
    <2>5. on["network"] /\ inventory # Raises =>
            \A p \in ListenerPaths : /\ Collected(FALSE)[p] = ListenerRow(p, Listeners)
                                     /\ ListenerRow(p, Listeners) # NoRow
      BY Kinds, ReportIsRow DEF Collected, Paths, ListenerRow, ListenerPathState, HealthState
    <2>6. ~ on["probes"] =>
            \A p \in ProbePaths : /\ Collected(FALSE)[p] = Report("disabled", FALSE)
                                  /\ Report("disabled", FALSE) # NoRow
      BY Kinds, ReportIsRow DEF Collected, Paths, ProbeRow, HealthState
    <2>. QED
      BY <2>1, <2>2, <2>3, <2>4, <2>5, <2>6, Kinds DEF Paths
  <1>. QED
    BY <1>0, <1>1, <1>2, CalmStep

\* The probes' rows grow older from one attempt to the next, and are not so old
\* by then that retention deletes them.
LEMMA StepProbesSeen == OverviewInv /\ [Next]_vars => ProbesSeen'
  <1>. SUFFICES ASSUME OverviewInv, [Next]_vars, on'["probes"], calm' >= sinceProbe',
                       NEW p \in ProbePaths
                PROVE  rows'[p] = [PathVerdict(p)' EXCEPT !.age = sinceProbe' - 1]
    BY DEF ProbesSeen
  <1>0. /\ TypeOK /\ ProbesSeen
        /\ TypeOK'
    BY StepOK DEF OverviewInv
  <1>1. calm' > 0
    BY <1>0, TimesAssumption, AtLeast DEF TypeOK
  <1>2. CASE UNCHANGED vars
    BY <1>0, <1>2 DEF ProbesSeen, vars, host, PathVerdict, Verdict, Upgraded
  <1>3. CASE Cycle /\ UNCHANGED host /\ calm' <= calm + 1
    <2>1. /\ PathVerdict(p)' = PathVerdict(p) /\ on["probes"]
          /\ p \in Component
      BY <1>3, Kinds DEF host, PathVerdict, Upgraded, Paths
    <2>2. PathVerdict(p).age = 0 /\ PathVerdict(p) \in Row
      BY VerdictIsRow
    <2>3. Collected(FALSE)[p] = IF ProbeDue THEN PathVerdict(p) ELSE NoRow
      BY <2>1, Kinds DEF Collected, Paths, ProbeRow
    <2>4. CASE ProbeDue
      <3>1. rows'[p] = PathVerdict(p) /\ sinceProbe' = 1
        BY <1>3, <2>1, <2>2, <2>3, <2>4, NoRowAssumption DEF Cycle, Recording, Scheduled
      <3>2. PathVerdict(p) = [PathVerdict(p) EXCEPT !.age = 0]
        BY <2>2 DEF Row
      <3>. QED
        BY <2>1, <3>1, <3>2
    <2>5. CASE ~ ProbeDue
      <3>1. /\ sinceProbe \in 1..ProbeEvery /\ sinceProbe # ProbeEvery
            /\ sinceProbe' = sinceProbe + 1
        BY <1>0, <1>3, <2>1, <2>5, TimesAssumption
        DEF ProbeDue, Cycle, Scheduled, Lesser, TypeOK
      <3>2. calm >= sinceProbe
        BY <1>0, <1>3, <3>1, CalmBefore DEF TypeOK
      <3>3. rows[p] = [PathVerdict(p) EXCEPT !.age = sinceProbe - 1]
        BY <1>0, <2>1, <3>2 DEF ProbesSeen
      <3>4. /\ sinceProbe - 1 < Cap /\ sinceProbe - 1 + 1 = sinceProbe
            /\ sinceProbe <= RawKeep /\ sinceProbe \in 0..Cap
            /\ (sinceProbe + 1) - 1 = sinceProbe
        BY <3>1, TimesAssumption
      <3>5. rows[p] \in Row /\ rows[p] # NoRow /\ rows[p].age = sinceProbe - 1
        BY <2>2, <3>1, <3>3, <3>4, NoRowAssumption, TimesAssumption DEF Row
      <3>6. Aged[p] = [PathVerdict(p) EXCEPT !.age = sinceProbe]
        <4>1. Aged[p] = [rows[p] EXCEPT !.age = sinceProbe]
          BY <2>1, <3>4, <3>5 DEF Aged, Older
        <4>. QED
          BY <2>2, <3>3, <4>1 DEF Row
      <3>7. Aged[p].age = sinceProbe /\ Aged[p] \in Row
        BY <2>2, <3>4, <3>6 DEF Row
      <3>8. Retained[p] = Aged[p]
        <4>1. Pruned(Aged)[p] = Aged[p]
          BY <2>1, <3>1, <3>4, <3>7, TimesAssumption DEF Pruned
        <4>. QED
          BY <4>1 DEF Retained
      <3>9. rows'[p] = Retained[p]
        BY <1>3, <2>1, <2>3, <2>5 DEF Cycle, Recording
      <3>. QED
        BY <2>1, <3>1, <3>4, <3>6, <3>8, <3>9
    <2>. QED
      BY <2>4, <2>5
  <1>. QED
    BY <1>0, <1>1, <1>2, <1>3, CalmStep

\* Retention reports whenever it is due, whatever came of it.
LEMMA StepRetentionSeen == OverviewInv /\ [Next]_vars => RetentionSeen'
  <1>. SUFFICES ASSUME OverviewInv, [Next]_vars, calm' >= sincePrune'
                PROVE  /\ rows'["retention"] # NoRow
                       /\ rows'["retention"].state =
                             IF retainable' THEN "healthy" ELSE "unavailable"
    BY DEF RetentionSeen
  <1>0. /\ TypeOK /\ RetentionSeen
        /\ TypeOK'
    BY StepOK DEF OverviewInv
  <1>1. calm' > 0
    BY <1>0, TimesAssumption, AtLeast DEF TypeOK
  <1>2. CASE UNCHANGED vars
    BY <1>0, <1>2 DEF RetentionSeen, vars, host
  <1>3. CASE Cycle /\ UNCHANGED host /\ calm' <= calm + 1
    <2>1. retainable' = retainable /\ "retention" \in Component
      BY <1>3, Kinds DEF host
    <2>2. Collected(FALSE)["retention"] = RetentionRow
      BY Kinds, InputsAssumption DEF Collected, ListenerPaths, ListenerPath, ProbePaths
    <2>3. CASE sincePrune = PruneEvery
      <3>1. RetentionRow = Report(IF retainable THEN "healthy" ELSE "unavailable", FALSE)
        <4>1. ~ (sincePrune < PruneEvery)
          BY <2>3, TimesAssumption
        <4>. QED
          BY <4>1 DEF RetentionRow
      <3>2. RetentionRow # NoRow
        BY <3>1, ReportIsRow DEF HealthState
      <3>3. rows'["retention"] = RetentionRow
        BY <1>3, <2>1, <2>2, <3>2 DEF Cycle, Recording
      <3>. QED
        BY <2>1, <3>1, <3>2, <3>3 DEF Report
    <2>4. CASE sincePrune # PruneEvery
      <3>1. /\ sincePrune \in 1..PruneEvery /\ sincePrune' = sincePrune + 1
            /\ sincePrune < PruneEvery
        BY <1>0, <1>3, <2>4, TimesAssumption DEF Cycle, Scheduled, TypeOK
      <3>2. calm >= sincePrune
        BY <1>0, <1>3, <3>1, CalmBefore DEF TypeOK
      <3>3. rows'["retention"] = Aged["retention"]
        BY <1>3, <2>1, <2>2, <2>4, <3>1 DEF Cycle, Recording, RetentionRow, Retained
      <3>4. /\ rows["retention"] # NoRow
            /\ rows["retention"].state = IF retainable THEN "healthy" ELSE "unavailable"
        BY <1>0, <3>2 DEF RetentionSeen
      <3>5. Aged["retention"] = [rows["retention"] EXCEPT
                                    !.age = IF @ < Cap THEN @ + 1 ELSE Cap]
        BY <2>1, <3>4 DEF Aged, Older
      <3>6. rows["retention"] \in Row
        BY <1>0, <2>1, <3>4 DEF TypeOK, RowOK
      <3>7. /\ Aged["retention"] \in Row
            /\ Aged["retention"].state = rows["retention"].state
        BY <3>5, <3>6, TimesAssumption DEF Row
      <3>. QED
        BY <2>1, <3>3, <3>4, <3>7, NoRowAssumption
    <2>. QED
      BY <2>3, <2>4
  <1>. QED
    BY <1>0, <1>1, <1>2, <1>3, CalmStep

\* A row that no collector writes any more is as old as the calm, until a
\* retention that works finds it older than RawKeep.
LEMMA StepLeftoversAge == OverviewInv /\ [Next]_vars => LeftoversAge'
  <1>. SUFFICES ASSUME OverviewInv, [Next]_vars, ~ on'["network"], NEW p \in ListenerPaths,
                       rows'[p] # NoRow
                PROVE  /\ rows'[p].age >= Lesser(calm', Cap)
                       /\ retainable' /\ calm' >= sincePrune' =>
                             calm' <= RawKeep + sincePrune' - 1
    BY DEF LeftoversAge
  <1>0. /\ TypeOK /\ LeftoversAge
        /\ TypeOK'
        /\ p \in Component
    BY StepOK, Kinds DEF OverviewInv, Paths
  <1>1. CASE calm' = 0
    <2>1. rows'[p].age >= 0
      BY <1>0 DEF TypeOK, RowOK, Row
    <2>2. Lesser(calm', Cap) = 0 /\ ~ (calm' >= sincePrune')
      BY <1>0, <1>1, TimesAssumption, AtLeast DEF Lesser, TypeOK
    <2>. QED
      BY <2>1, <2>2
  <1>2. CASE UNCHANGED vars
    BY <1>0, <1>2 DEF LeftoversAge, vars, host
  <1>3. CASE Cycle /\ UNCHANGED host /\ calm' <= calm + 1
    <2>1. retainable' = retainable /\ on' = on
      BY <1>3 DEF host
    <2>2. Collected(FALSE)[p] = NoRow
      BY <1>0, <2>1, Kinds DEF Collected, Paths, ListenerRow
    <2>3. rows'[p] = Retained[p]
      BY <1>0, <1>3, <2>2 DEF Cycle, Recording
    <2>4. rows'[p] = Aged[p] /\ Aged[p] # NoRow
      BY <1>0, <2>3 DEF Retained, Pruned
    <2>5. /\ rows[p] # NoRow /\ rows[p] \in Row
          /\ Aged[p] = [rows[p] EXCEPT !.age = IF @ < Cap THEN @ + 1 ELSE Cap]
      BY <1>0, <2>4 DEF Aged, Older, TypeOK, RowOK
    <2>6. /\ rows[p].age \in 0..Cap
          /\ rows'[p].age = IF rows[p].age < Cap THEN rows[p].age + 1 ELSE Cap
      BY <2>4, <2>5 DEF Row
    <2>7. rows[p].age >= Lesser(calm, Cap)
      BY <1>0, <2>1, <2>5 DEF LeftoversAge
    <2>8. /\ calm \in Nat /\ calm' \in Nat /\ Cap \in Nat /\ RawKeep \in Nat /\ RawKeep < Cap
          /\ sincePrune \in 1..PruneEvery /\ PruneEvery \in Nat
      BY <1>0, TimesAssumption, LingerType DEF TypeOK
    <2>9. rows'[p].age >= Lesser(calm', Cap)
      BY <1>3, <2>6, <2>7, <2>8 DEF Lesser
    <2>10. ASSUME retainable, calm' >= sincePrune'
           PROVE  calm' <= RawKeep + sincePrune' - 1
      <3>1. CASE sincePrune = PruneEvery
        <4>1. sincePrune' = 1
          BY <1>3, <3>1 DEF Cycle, Scheduled
        <4>2. ~ (rows'[p].age > RawKeep)
          BY <1>0, <2>3, <2>4, <2>10, <3>1 DEF Retained, Pruned
        <4>. QED
          BY <2>6, <2>8, <2>9, <4>1, <4>2 DEF Lesser
      <3>2. CASE sincePrune # PruneEvery
        <4>1. sincePrune' = sincePrune + 1
          BY <1>3, <3>2 DEF Cycle, Scheduled
        <4>2. calm >= sincePrune
          BY <1>3, <2>8, <2>10, <4>1
        <4>3. calm <= RawKeep + sincePrune - 1
          BY <1>0, <2>1, <2>5, <2>10, <4>2 DEF LeftoversAge
        <4>. QED
          BY <1>3, <2>8, <4>1, <4>3
      <3>. QED
        BY <3>1, <3>2
    <2>. QED
      BY <2>1, <2>9, <2>10
  <1>4. calm' = 0 \/ calm' > 0
    BY <1>0, LingerType DEF TypeOK
  <1>. QED
    BY <1>0, <1>1, <1>2, <1>3, <1>4, CalmStep

(***************************************************************************)
(* Every row in health_samples is of its component's kind (collector.py,   *)
(* network.py, probes.py), after any failures and reconfigurations, and    *)
(* tells of the host as it is from the component's next report on.         *)
(***************************************************************************)
THEOREM RowsInvariant == Spec => []OverviewInv
  <1>1. Init => OverviewInv
    BY InitOK, InitSeen DEF OverviewInv
  <1>2. OverviewInv /\ [Next]_vars => OverviewInv'
    BY StepOK, StepCycleSeen, StepProbesSeen, StepRetentionSeen, StepLeftoversAge DEF OverviewInv
  <1>. QED
    BY <1>1, <1>2, PTL DEF Spec

----------------------------------------------------------------------------

\* Where the two loops over the rows differ, no row makes a difference.
LEMMA Alarms ==
    ASSUME TypeOK
    PROVE  /\ Alarming = {c \in Active : /\ EffectiveState(c) # "healthy"
                                         /\ ~ (c = "network_exposure" /\ Drifted)}
           /\ \A c \in Active : EffectiveState(c) \in {"healthy", "degraded", "unavailable"}
  <1>1. ASSUME NEW c \in Recorded
        PROVE  /\ RowOK(c, rows[c])
               /\ rows[c].state \in HealthState
               /\ EffectiveState(c) = IF Expired(c) THEN "unavailable" ELSE rows[c].state
               /\ Expired(c) => c \in Paths /\ rows[c].required
    BY Kinds DEF Recorded, TypeOK, RowOK, Row, EffectiveState, Expired, Paths
  <1>2. ASSUME NEW c \in Recorded
        PROVE  c \in Alarming <=> /\ c \in Active /\ EffectiveState(c) # "healthy"
                                 /\ ~ (c = "network_exposure" /\ Drifted)
    <2>1. CASE c \in Paths
      <3>1. rows[c].required => rows[c].state # "disabled" /\ EffectiveState(c) # "disabled"
        BY <1>1 DEF RowOK
      <3>. QED
        BY <2>1, <3>1, Kinds DEF Alarming, Active
    <2>2. CASE c \notin Paths
      <3>1. EffectiveState(c) = rows[c].state
        BY <1>1, <2>2
      <3>. QED
        BY <2>2, <3>1 DEF Alarming, Active
    <2>. QED
      BY <2>1, <2>2
  <1>3. Alarming \subseteq Recorded /\ Active \subseteq Recorded
    BY DEF Alarming, Active
  <1>. QED
    BY <1>1, <1>2, <1>3 DEF Active, HealthState

LEMMA Explained == TypeOK => StatusExplained
  <1>. SUFFICES ASSUME TypeOK, NEW faults \in BOOLEAN
                PROVE  /\ WebStatus(faults) = "critical" <=> "critical" \in Severities(faults)
                       /\ WebStatus(faults) = "degraded" <=>
                             /\ Active # {} /\ "warning" \in Severities(faults)
                             /\ "critical" \notin Severities(faults)
                       /\ WebStatus(faults) = "healthy" =>
                             \A c \in Recorded \cap Paths :
                                rows[c].required => PathShown(c) \in {"verified", "observed"}
    BY DEF StatusExplained
  <1>. DEFINE worst == \E c \in Active : EffectiveState(c) = "unavailable"
              bad == \E c \in Active : EffectiveState(c) = "degraded"
  <1>1. Drifted => "network_exposure" \in Active /\ EffectiveState("network_exposure") = "degraded"
    BY Kinds DEF Drifted, Active, Recorded, TypeOK, RowOK, EffectiveState, Expired
  <1>2. ~ Drifted => Alarming = {c \in Active : EffectiveState(c) # "healthy"}
    BY Alarms
  <1>3. Overall = IF Active = {} THEN "unknown" ELSE IF worst THEN "critical"
                  ELSE IF bad THEN "degraded" ELSE "healthy"
    BY DEF Overall
  <1>4. "critical" \in Severities(faults) <=> Stale \/ Drifted \/ worst
    <2>1. "critical" \in Severities(faults) <=>
             Stale \/ Drifted \/ \E c \in Alarming : EffectiveState(c) = "unavailable"
      BY DEF Severities
    <2>. QED
      BY <1>2, <2>1
  <1>5. "warning" \in Severities(faults) <=>
           Recorded = {} \/ faults \/ \E c \in Alarming : EffectiveState(c) # "unavailable"
    BY DEF Severities
  <1>6. Active # {} => Recorded # {}
    BY DEF Active
  <1>. HIDE DEF worst, bad
  <1>7. WebStatus(faults) = "critical" <=> "critical" \in Severities(faults)
    BY <1>1, <1>3, <1>4 DEF WebStatus, worst
  <1>8. WebStatus(faults) = "degraded" <=>
          /\ Active # {} /\ "warning" \in Severities(faults)
          /\ "critical" \notin Severities(faults)
    <2>1. CASE Stale \/ Drifted \/ worst
      BY <2>1, <1>4, <1>7 DEF WebStatus
    <2>2. CASE ~ (Stale \/ Drifted \/ worst)
      <3>1. (\E c \in Alarming : EffectiveState(c) # "unavailable") <=> bad
        BY <2>2, <1>2, Alarms DEF bad
      <3>. QED
        BY <2>2, <3>1, <1>3, <1>4, <1>5, <1>6 DEF WebStatus
    <2>. QED
      BY <2>1, <2>2
  <1>9. ASSUME WebStatus(faults) = "healthy", NEW c \in Recorded \cap Paths, rows[c].required
        PROVE  PathShown(c) \in {"verified", "observed"}
    <2>1. c \in Active
      BY <1>9 DEF Active, Recorded, TypeOK, RowOK
    <2>2. ~ worst /\ ~ bad
      BY <1>9, <1>3 DEF WebStatus
    <2>3. EffectiveState(c) = "healthy"
      BY <2>1, <2>2, Alarms DEF worst, bad
    <2>. QED
      BY <2>3 DEF PathShown, EffectiveState
  <1>. QED
    BY <1>7, <1>8, <1>9

(***************************************************************************)
(* The status of the page is the one its alerts explain, and no required   *)
(* path looks bad beside a healthy status (web.py), for any ports and      *)
(* intervals.                                                              *)
(***************************************************************************)
THEOREM StatusIsExplained == Spec => []StatusExplained
  <1>1. OverviewInv => StatusExplained
    BY Explained DEF OverviewInv
  <1>. QED
    BY <1>1, RowsInvariant, PTL

LEMMA Agreed == TypeOK => StoreAgrees
  <1>. SUFFICES ASSUME TypeOK, ~ Stale, NEW fault \in FaultAges
                PROVE  \/ WebStatus(WebFaults(fault)) = OnPage(StoreStatus(StoreFaults(fault)))
                       \/ /\ WebStatus(WebFaults(fault)) = "healthy"
                          /\ StoreStatus(StoreFaults(fault)) = "degraded"
                          /\ Day < fault /\ fault <= Day + StaleAfter
    BY DEF StoreAgrees
  <1>. DEFINE states == {EffectiveState(c) : c \in Active}
              judged == IF "unavailable" \in states THEN "critical"
                        ELSE IF \E state \in states : state # "healthy" THEN "degraded"
                        ELSE IF states # {} THEN "healthy"
                        ELSE IF Recorded # {} THEN "disabled" ELSE "none"
  <1>1. states \subseteq {"healthy", "degraded", "unavailable"}
    BY Alarms
  <1>2. Overall = IF states = {} THEN "unknown"
                  ELSE IF "unavailable" \in states THEN "critical"
                  ELSE IF "degraded" \in states THEN "degraded" ELSE "healthy"
    BY DEF Overall
  <1>3. Overall = OnPage(judged) /\ (judged = "healthy" => Recorded # {})
    <2>1. (\E state \in states : state # "healthy") /\ "unavailable" \notin states
            <=> "degraded" \in states /\ "unavailable" \notin states
      BY <1>1
    <2>2. states # {} => Recorded # {}
      BY DEF Active
    <2>3. judged = "healthy" => states # {}
      OBVIOUS
    <2>. HIDE DEF states
    <2>. QED
      BY <1>1, <1>2, <2>1, <2>2, <2>3 DEF OnPage
  <1>4. \A faults \in BOOLEAN :
          StoreStatus(faults) = IF Drifted THEN "critical"
                                ELSE IF faults /\ judged = "healthy" THEN "degraded" ELSE judged
    BY DEF StoreStatus
  <1>5. \A faults \in BOOLEAN :
          WebStatus(faults) = IF Drifted THEN "critical"
                              ELSE IF faults /\ Overall = "healthy" THEN "degraded" ELSE Overall
    BY DEF WebStatus
  <1>6. WebFaults(fault) \in BOOLEAN /\ StoreFaults(fault) \in BOOLEAN
    BY DEF WebFaults, StoreFaults
  <1>7. Recorded # {} =>
          \/ WebFaults(fault) = StoreFaults(fault)
          \/ /\ ~ WebFaults(fault) /\ StoreFaults(fault)
             /\ Day < fault /\ fault <= Day + StaleAfter
    <2>. SUFFICES ASSUME Recorded # {}, WebFaults(fault) # StoreFaults(fault)
                  PROVE  /\ ~ WebFaults(fault) /\ StoreFaults(fault)
                         /\ Day < fault /\ fault <= Day + StaleAfter
      OBVIOUS
    <2>1. \A c \in Recorded : rows[c].age \in Nat
      BY TimesAssumption DEF Recorded, TypeOK, RowOK, Row
    <2>2. Day \in Nat /\ StaleAfter \in Nat /\ fault \in Nat
      BY TimesAssumption DEF FaultAges
    <2>3. WebFaults(fault) => StoreFaults(fault)
      BY <2>1, <2>2 DEF WebFaults, StoreFaults
    <2>4. PICK c \in Recorded : ~ (rows[c].age > StaleAfter)
      BY DEF Stale
    <2>5. ~ WebFaults(fault) /\ StoreFaults(fault)
      BY <1>6, <2>3
    <2>. QED
      BY <2>1, <2>2, <2>4, <2>5 DEF WebFaults, StoreFaults
  <1>. HIDE DEF judged
  <1>8. CASE WebFaults(fault) = StoreFaults(fault) \/ Recorded = {}
    BY <1>3, <1>4, <1>5, <1>6, <1>8 DEF OnPage
  <1>9. CASE /\ ~ WebFaults(fault) /\ StoreFaults(fault)
             /\ Day < fault /\ fault <= Day + StaleAfter
    BY <1>3, <1>4, <1>5, <1>6, <1>9 DEF OnPage
  <1>. QED
    BY <1>7, <1>8, <1>9

(***************************************************************************)
(* The store's overview and the dashboard's say the same of the same rows  *)
(* (store.py, web.py), until these are stale, but for a fault that was a   *)
(* day ago and not longer than it takes rows to get stale.                 *)
(***************************************************************************)
THEOREM OverviewsAgree == Spec => []StoreAgrees
  <1>1. OverviewInv => StoreAgrees
    BY Agreed DEF OverviewInv
  <1>. QED
    BY <1>1, RowsInvariant, PTL

----------------------------------------------------------------------------
(* What is true of the host, and what the collectors make of it. *)

\* A listener is found exactly if a line of `ss` tells of it.
LEMMA BoundIsParsed ==
    ASSUME TypeOK, inventory \notin {Fails, Raises},
           NEW transport \in {"tcp", "udp"}, NEW port \in Ports, NEW exposure
    PROVE  Bound(transport, port, exposure) <=> Listener(transport, port, exposure) \in Listeners
  <1>1. inventory \in Seq(Line) /\ Len(inventory) <= MaxLines
    BY InputsAssumption DEF TypeOK
  <1>2. \A i \in DOMAIN inventory : i <= MaxLines
    BY <1>1, PolicyAssumption
  <1>3. Listeners = Parsed(inventory)
    BY DEF Listeners
  <1>4. ASSUME NEW i \in DOMAIN inventory,
               inventory[i].transport = transport, inventory[i].port = port,
               ExposureOf(inventory[i].address) = exposure
        PROVE  Listener(transport, port, exposure) \in Listeners
    BY <1>2, <1>3, <1>4 DEF Parsed
  <1>5. ASSUME Listener(transport, port, exposure) \in Listeners
        PROVE  \E i \in DOMAIN inventory :
                  /\ inventory[i].transport = transport /\ inventory[i].port = port
                  /\ ExposureOf(inventory[i].address) = exposure
    BY <1>3, <1>5 DEF Parsed, Listener
  <1>. QED
    BY <1>4, <1>5 DEF Bound

\* Every listener that is found is one that a line tells of.
LEMMA ParsedIsBound ==
    ASSUME TypeOK, inventory \notin {Fails, Raises}, NEW l \in Listeners
    PROVE  \E i \in DOMAIN inventory :
              /\ l = Listener(inventory[i].transport, inventory[i].port,
                              ExposureOf(inventory[i].address))
              /\ inventory[i].transport \in {"tcp", "udp"} /\ inventory[i].port \in Ports
              /\ inventory[i].address \in Address
  <1>1. \A i \in DOMAIN inventory : inventory[i].address \in Address
    <2>1. inventory \in Seq(Line)
      BY InputsAssumption DEF TypeOK
    <2>2. \A i \in DOMAIN inventory : inventory[i] \in Line
      BY <2>1
    <2>. QED
      BY <2>2 DEF Line
  <1>2. Listeners = Parsed(inventory)
    BY DEF Listeners
  <1>. QED
    BY <1>1, <1>2 DEF Parsed

LEMMA Exposures ==
    ASSUME NEW address \in Address
    PROVE  /\ ExposureOf(address) \in {"public", "loopback", "link_local"}
           /\ ExposureOf(address) = "public" <=> address \in {"wildcard", "other", "name"}
  BY DEF ExposureOf, Address

\* The policy's verdict on public ports.
LEMMA DriftIsUninvited ==
    ASSUME TypeOK, inventory \notin {Fails, Raises}
    PROVE  Unexpected(Listeners) # {} <=> Uninvited
  <1>1. ASSUME NEW l \in Unexpected(Listeners) PROVE Uninvited
    <2>1. l \in Listeners /\ l.exposure = "public"
      BY DEF Unexpected
    <2>2. PICK i \in DOMAIN inventory :
              /\ l = Listener(inventory[i].transport, inventory[i].port,
                              ExposureOf(inventory[i].address))
              /\ inventory[i].transport \in {"tcp", "udp"} /\ inventory[i].port \in Ports
              /\ inventory[i].address \in Address
      BY <2>1, ParsedIsBound
    <2>3. /\ l.transport = inventory[i].transport /\ l.port = inventory[i].port
          /\ l.exposure = ExposureOf(inventory[i].address)
      BY <2>2 DEF Listener
    <2>4. inventory[i].address \in {"wildcard", "other", "name"}
      BY <2>1, <2>2, <2>3, Exposures
    <2>5. \/ l.transport = "tcp" /\ l.port \notin PublicTcp
          \/ l.transport = "udp" /\ l.port \notin PublicUdp \cup {68, 546}
      BY DEF Unexpected, Exempt
    <2>. QED
      BY <2>2, <2>3, <2>4, <2>5 DEF Uninvited
  <1>2. ASSUME Uninvited PROVE Unexpected(Listeners) # {}
    <2>1. PICK i \in DOMAIN inventory :
              /\ inventory[i].address \in {"wildcard", "other", "name"}
              /\ inventory[i].port \in Ports
              /\ \/ inventory[i].transport = "tcp" /\ inventory[i].port \notin PublicTcp
                 \/ /\ inventory[i].transport = "udp"
                    /\ inventory[i].port \notin PublicUdp \cup {68, 546}
      BY <1>2 DEF Uninvited
    <2>. DEFINE l == Listener(inventory[i].transport, inventory[i].port, "public")
    <2>2. ExposureOf(inventory[i].address) = "public"
      BY <2>1, Exposures DEF Address
    <2>3. l \in Listeners
      BY <2>1, <2>2, BoundIsParsed DEF Bound
    <2>4. l \in Unexpected(Listeners)
      BY <2>1, <2>3 DEF Unexpected, Listener, Exempt
    <2>. QED
      BY <2>4
  <1>. QED
    BY <1>1, <1>2

\* What the policy and the paths ask for are sockets that a line can tell of.
LEMMA Asked ==
    ASSUME NEW l \in Expected \cup {ListenerPath[p] : p \in ListenerPaths}
    PROVE  /\ l.transport \in {"tcp", "udp"} /\ l.port \in Ports
           /\ l = Listener(l.transport, l.port, l.exposure)
  <1>1. CASE l \in Expected
    BY <1>1, PolicyAssumption DEF Expected, Listener
  <1>2. CASE l \in {ListenerPath[p] : p \in ListenerPaths}
    <2>1. l \in {Listener("tcp", 80, "public"), Listener("tcp", 1087, "loopback"),
                 Listener("tcp", 22, "public"), Listener("tcp", 10084, "loopback"),
                 Listener("tcp", 8787, "loopback")}
      <3>1. PICK p \in ListenerPaths : l = ListenerPath[p]
        BY <1>2
      <3>2. p \in {"path_xray_listener", "path_warp_proxy_listener", "path_ssh",
                   "path_stats_service", "path_private_dashboard"}
        BY DEF ListenerPath, ListenerPaths
      <3>. QED
        BY <3>1, <3>2 DEF ListenerPath
    <2>2. \A port \in {22, 80, 1087, 8787, 10084} : port \in Ports
      BY DEF Ports
    <2>. QED
      BY <2>1, <2>2 DEF Listener
  <1>. QED
    BY <1>1, <1>2

LEMMA ListenerExposures ==
    ASSUME NEW p \in ListenerPaths
    PROVE  ListenerPath[p].exposure \in {"public", "loopback", "link_local"}
  <1>1. p \in {"path_xray_listener", "path_warp_proxy_listener", "path_ssh",
               "path_stats_service", "path_private_dashboard"}
    BY DEF ListenerPath, ListenerPaths
  <1>. QED
    BY <1>1 DEF ListenerPath, Listener

LEMMA MissingIsUnbound ==
    ASSUME TypeOK, inventory \notin {Fails, Raises}
    PROVE  Missing(Listeners) # {} <=>
             \E l \in Expected : ~ Bound(l.transport, l.port, l.exposure)
  <1>1. \A l \in Expected : Bound(l.transport, l.port, l.exposure) <=> l \in Listeners
    BY Asked, BoundIsParsed
  <1>. QED
    BY <1>1 DEF Missing

LEMMA PathStateIsBound ==
    ASSUME TypeOK, inventory \notin {Fails, Raises}, NEW p \in ListenerPaths
    PROVE  LET l == ListenerPath[p]
           IN  ListenerPathState(p, Listeners) =
                 IF Bound(l.transport, l.port, l.exposure) THEN "healthy"
                 ELSE IF Anywhere(l.transport, l.port) THEN "degraded" ELSE "unavailable"
  <1>. DEFINE l == ListenerPath[p]
  <1>1. /\ l.transport \in {"tcp", "udp"} /\ l.port \in Ports
        /\ l = Listener(l.transport, l.port, l.exposure)
    BY Asked
  <1>. HIDE DEF l
  <1>2. Bound(l.transport, l.port, l.exposure) <=> l \in Listeners
    BY <1>1, BoundIsParsed
  <1>3. ASSUME NEW k \in Listeners, k.transport = l.transport, k.port = l.port
        PROVE  Anywhere(l.transport, l.port)
    <2>1. PICK i \in DOMAIN inventory :
              /\ k = Listener(inventory[i].transport, inventory[i].port,
                              ExposureOf(inventory[i].address))
              /\ inventory[i].address \in Address
      BY ParsedIsBound
    <2>2. inventory[i].transport = l.transport /\ inventory[i].port = l.port
      BY <1>3, <2>1 DEF Listener
    <2>. QED
      BY <2>1, <2>2, Exposures DEF Anywhere, Bound
  <1>4. ASSUME Anywhere(l.transport, l.port)
        PROVE  \E k \in Listeners : k.transport = l.transport /\ k.port = l.port
    <2>1. PICK exposure \in {"public", "loopback", "link_local"} :
              Bound(l.transport, l.port, exposure)
      BY <1>4 DEF Anywhere
    <2>2. Listener(l.transport, l.port, exposure) \in Listeners
      BY <1>1, <2>1, BoundIsParsed
    <2>. QED
      BY <2>2 DEF Listener
  <1>. QED
    BY <1>2, <1>3, <1>4 DEF ListenerPathState, l

----------------------------------------------------------------------------

\* DNS names at most four addresses, and each of them reacts somehow.
LEMMA GlobalsType ==
    ASSUME TypeOK
    PROVE  /\ Globals(answer) \in 0..MaxAddresses
           /\ \A i \in 1..Globals(answer) : reactions[i] \in Reaction
  <1>. DEFINE found == {i \in DOMAIN answer : answer[i] = "global"}
  <1>1. answer \in Seq(Entry) /\ reactions \in Seq(Reaction)
        /\ Globals(answer) <= Len(reactions)
    BY InputsAssumption DEF TypeOK
  <1>2. IsFiniteSet(DOMAIN answer)
    BY <1>1, FS_Interval
  <1>3. Cardinality(found) \in Nat
    BY <1>2, FS_Subset, FS_CardinalityType
  <1>4. Globals(answer) \in 0..MaxAddresses
    BY <1>3 DEF Globals, MaxAddresses
  <1>5. \A i \in 1..Globals(answer) : i \in 1..Len(reactions)
    BY <1>1, <1>4 DEF MaxAddresses
  <1>. QED
    BY <1>1, <1>4, <1>5

\* The loop over the addresses, turn by turn: there is such a function.
LEMMA Outcomes ==
    \E f : f = [n \in 0..MaxAddresses |->
                   IF n = 0 THEN "trying" ELSE Try(f[n - 1], reactions[n])]
  <1>. DEFINE first  == Try("trying", reactions[1])
              second == Try(first, reactions[2])
              third  == Try(second, reactions[3])
              fourth == Try(third, reactions[4])
              f == [n \in 0..MaxAddresses |->
                       IF n = 0 THEN "trying" ELSE IF n = 1 THEN first
                       ELSE IF n = 2 THEN second ELSE IF n = 3 THEN third ELSE fourth]
  <1>. HIDE DEF first, second, third, fourth
  <1>1. /\ f[0] = "trying" /\ f[1] = first /\ f[2] = second /\ f[3] = third /\ f[4] = fourth
    BY DEF MaxAddresses
  <1>. HIDE DEF f
  <1>2. ASSUME NEW n \in 0..MaxAddresses
        PROVE  f[n] = IF n = 0 THEN "trying" ELSE Try(f[n - 1], reactions[n])
    <2>1. n = 0 \/ n = 1 \/ n = 2 \/ n = 3 \/ n = 4
      BY DEF MaxAddresses
    <2>2. 1 - 1 = 0 /\ 2 - 1 = 1 /\ 3 - 1 = 2 /\ 4 - 1 = 3
      OBVIOUS
    <2>3. /\ f[1] = Try(f[0], reactions[1]) /\ f[2] = Try(f[1], reactions[2])
          /\ f[3] = Try(f[2], reactions[3]) /\ f[4] = Try(f[3], reactions[4])
      BY <1>1 DEF first, second, third, fourth
    <2>. QED
      BY <1>1, <2>1, <2>2, <2>3
  <1>3. f = [n \in 0..MaxAddresses |-> f[n]]
    BY DEF f
  <1>4. [n \in 0..MaxAddresses |-> f[n]] =
          [n \in 0..MaxAddresses |-> IF n = 0 THEN "trying" ELSE Try(f[n - 1], reactions[n])]
    BY <1>2
  <1>. QED
    BY <1>3, <1>4

\* The probe succeeds exactly if it comes to an address that takes the upgrade.
LEMMA UpgradedIsReachable == TypeOK => (Upgraded <=> Reachable)
  <1>. SUFFICES ASSUME TypeOK PROVE Upgraded <=> Reachable
    OBVIOUS
  <1>. DEFINE f == CHOOSE g : g = [n \in 0..MaxAddresses |->
                                     IF n = 0 THEN "trying" ELSE Try(g[n - 1], reactions[n])]
              given == Globals(answer)
              refused == {n \in 0..4 : \A j \in 1..n : reactions[j] = "refuses"}
              taken == {n \in 0..4 : \E i \in 1..n : /\ reactions[i] = "accepts"
                                                    /\ i - 1 \in refused}
              P(n) == /\ f[n] = "trying" <=> n \in refused
                      /\ f[n] = "accepted" <=> n \in taken
  <1>1. f = [n \in 0..MaxAddresses |-> IF n = 0 THEN "trying" ELSE Try(f[n - 1], reactions[n])]
    BY Outcomes
  <1>2. WebSocketOk(answer, reactions) <=> f[given] = "accepted"
    BY DEF WebSocketOk
  <1>. HIDE DEF f
  <1>3. given \in 0..4 /\ \A i \in 1..given : reactions[i] \in Reaction
    BY GlobalsType DEF MaxAddresses
  <1>. HIDE DEF given
  <1>4. P(0)
    <2>1. f[0] = "trying"
      BY <1>1 DEF MaxAddresses
    <2>. QED
      BY <2>1
  <1>5. ASSUME NEW n \in 0..3, n + 1 <= given, P(n)
        PROVE  P(n + 1)
    <2>1. f[n + 1] = Try(f[n], reactions[n + 1])
      <3>1. n + 1 \in 0..MaxAddresses /\ n + 1 # 0 /\ (n + 1) - 1 = n
        BY DEF MaxAddresses
      <3>. QED
        BY <1>1, <3>1
    <2>2. reactions[n + 1] \in Reaction
      BY <1>3, <1>5
    <2>3. n + 1 \in refused <=> n \in refused /\ reactions[n + 1] = "refuses"
      <3>1. 1..(n + 1) = 1..n \cup {n + 1} /\ n + 1 \in 0..4 /\ n \in 0..4
        BY <1>5
      <3>. QED
        BY <3>1
    <2>4. n + 1 \in taken <=>
            (n \in taken \/ (reactions[n + 1] = "accepts" /\ n \in refused))
      <3>1. /\ 1..(n + 1) = 1..n \cup {n + 1} /\ (n + 1) - 1 = n
            /\ n + 1 \in 0..4 /\ n \in 0..4
        BY <1>5
      <3>. HIDE DEF refused
      <3>. QED
        BY <3>1
    <2>5. n \in refused => n \notin taken
      <3>1. ASSUME n \in refused, NEW i \in 1..n PROVE reactions[i] # "accepts"
        BY <3>1
      <3>. HIDE DEF refused
      <3>. QED
        BY <3>1
    <2>. HIDE DEF refused, taken
    <2>6. CASE f[n] = "trying"
      <3>1. n \in refused /\ n \notin taken
        BY <1>5, <2>5, <2>6
      <3>2. /\ f[n + 1] = "trying" <=> reactions[n + 1] = "refuses"
            /\ f[n + 1] = "accepted" <=> reactions[n + 1] = "accepts"
        BY <2>1, <2>2, <2>6 DEF Try, Reaction
      <3>. QED
        BY <2>3, <2>4, <3>1, <3>2
    <2>7. CASE f[n] # "trying"
      <3>1. f[n + 1] = f[n]
        BY <2>1, <2>7 DEF Try
      <3>2. n \notin refused /\ (f[n] = "accepted" <=> n \in taken)
        BY <1>5, <2>7
      <3>. QED
        BY <2>3, <2>4, <2>7, <3>1, <3>2
    <2>. QED
      BY <2>6, <2>7
  <1>. HIDE DEF P
  <1>6. P(given)
    <2>1. given >= 1 => P(1)
      BY <1>3, <1>4, <1>5
    <2>2. given >= 2 => P(2)
      BY <1>3, <1>5, <2>1
    <2>3. given >= 3 => P(3)
      BY <1>3, <1>5, <2>2
    <2>4. given >= 4 => P(4)
      BY <1>3, <1>5, <2>3
    <2>. QED
      BY <1>3, <1>4, <2>1, <2>2, <2>3, <2>4
  <1>7. f[given] = "accepted" <=> given \in taken
    BY <1>6 DEF P
  <1>8. given \in taken <=> Reachable
    <2>1. \A i \in 1..given : i - 1 \in 0..4
      BY <1>3
    <2>2. given \in taken <=> \E i \in 1..given : reactions[i] = "accepts" /\ i - 1 \in refused
      BY <1>3
    <2>3. \A i \in 1..given :
             i - 1 \in refused <=> \A k \in 1..(i - 1) : reactions[k] = "refuses"
      BY <2>1
    <2>. HIDE DEF refused, taken
    <2>. QED
      BY <2>2, <2>3 DEF Reachable, given
  <1>9. given \in taken => given > 0
    BY <1>3
  <1>. QED
    BY <1>2, <1>7, <1>8, <1>9 DEF Upgraded, DnsOk, given

----------------------------------------------------------------------------
(* Once it has been calm for long enough. *)

LEMMA Settled ==
    ASSUME TypeOK, calm >= Settle
    PROVE  calm > 0 /\ calm >= sinceProbe /\ calm >= sincePrune
  <1>1. calm \in Nat /\ sinceProbe \in 1..ProbeEvery /\ sincePrune \in 1..PruneEvery
    BY LingerType DEF TypeOK
  <1>2. Settle >= ProbeEvery /\ Settle >= PruneEvery /\ Settle \in Nat
    BY TimesAssumption DEF Settle
  <1>. QED
    BY <1>1, <1>2, TimesAssumption

\* How the two overviews judge the row of each component, then.
LEMMA ReportersJudged ==
    ASSUME OverviewInv, calm >= Settle
    PROVE  /\ \A r \in Reporters : /\ r \in Active <=> on[r]
                                   /\ on[r] => EffectiveState(r) = reports[r]
           /\ "retention" \in Active
           /\ EffectiveState("retention") = IF retainable THEN "healthy" ELSE "unavailable"
  <1>1. TypeOK /\ calm > 0 /\ calm >= sincePrune /\ CycleSeen /\ RetentionSeen
    BY Settled DEF OverviewInv
  <1>2. ASSUME NEW r \in Reporters
        PROVE  /\ r \in Active <=> on[r]
               /\ on[r] => EffectiveState(r) = reports[r]
    <2>1. r \notin Paths /\ r \in Component /\ r \notin ProbePaths
      BY Kinds DEF Paths
    <2>2. reports[r] \in HealthState \ {"disabled"}
      BY <1>1 DEF TypeOK
    <2>3. rows[r] = Report(IF on[r] THEN reports[r] ELSE "disabled", FALSE)
      BY <1>1 DEF CycleSeen, ReporterRow
    <2>4. rows[r] # NoRow /\ rows[r].state = IF on[r] THEN reports[r] ELSE "disabled"
      <3>1. rows[r] # NoRow
        BY <2>2, <2>3, ReportIsRow DEF HealthState
      <3>. QED
        BY <2>3, <3>1 DEF Report
    <2>5. r \in Recorded /\ EffectiveState(r) = rows[r].state
      BY <2>1, <2>4 DEF Recorded, EffectiveState, Expired
    <2>. QED
      BY <2>1, <2>2, <2>4, <2>5 DEF Active
  <1>3. /\ "retention" \in Active
        /\ EffectiveState("retention") = IF retainable THEN "healthy" ELSE "unavailable"
    <2>1. /\ "retention" \notin Paths /\ "retention" \in Component
          /\ "retention" \notin ProbePaths
      BY Kinds DEF Paths
    <2>2. /\ rows["retention"] # NoRow
          /\ rows["retention"].state = IF retainable THEN "healthy" ELSE "unavailable"
      BY <1>1 DEF RetentionSeen
    <2>3. /\ "retention" \in Recorded
          /\ EffectiveState("retention") = rows["retention"].state
      BY <2>1, <2>2 DEF Recorded, EffectiveState, Expired
    <2>. QED
      BY <2>1, <2>2, <2>3 DEF Active
  <1>. QED
    BY <1>2, <1>3

LEMMA NetworkJudged ==
    ASSUME OverviewInv, calm >= Settle
    PROVE  /\ ~ Stale
           /\ "network_exposure" \in Active <=> on["network"]
           /\ on["network"] /\ inventory \in {Fails, Raises} =>
                 EffectiveState("network_exposure") = "unavailable"
           /\ on["network"] /\ inventory \notin {Fails, Raises} =>
                 EffectiveState("network_exposure") = ExposureState(Listeners)
           /\ Drifted <=> /\ on["network"] /\ inventory \notin {Fails, Raises}
                          /\ Unexpected(Listeners) # {}
  <1>. DEFINE row == rows["network_exposure"]
  <1>1. TypeOK /\ calm > 0 /\ row = ExposureRow(Listeners)
    BY Settled DEF OverviewInv, CycleSeen
  <1>2. /\ "network_exposure" \notin Paths /\ "network_exposure" \in Component
        /\ "network_exposure" \notin ProbePaths
    BY Kinds DEF Paths
  <1>3. row # NoRow
    BY <1>1, ExposureIsRow
  <1>4. /\ "network_exposure" \in Recorded
        /\ EffectiveState("network_exposure") = row.state
        /\ "network_exposure" \in Active <=> row.state # "disabled"
        /\ Drifted <=> row.unexpected
    BY <1>2, <1>3 DEF Recorded, EffectiveState, Expired, Active, Drifted
  <1>5. CASE ~ on["network"]
    <2>1. row = [state |-> "disabled", required |-> FALSE, unexpected |-> FALSE, age |-> 0]
      BY <1>1, <1>5 DEF ExposureRow, Report
    <2>2. row.age = 0 /\ row.state = "disabled" /\ row.unexpected = FALSE
      BY <2>1
    <2>3. ~ Stale
      BY <1>4, <2>2, TimesAssumption DEF Stale
    <2>. QED
      BY <1>4, <1>5, <2>2, <2>3
  <1>6. CASE on["network"] /\ inventory \in {Fails, Raises}
    <2>1. row = [state |-> "unavailable", required |-> FALSE, unexpected |-> FALSE, age |-> 0]
      BY <1>1, <1>6 DEF ExposureRow, Report
    <2>2. row.age = 0 /\ row.state = "unavailable" /\ row.unexpected = FALSE
      BY <2>1
    <2>3. ~ Stale
      BY <1>4, <2>2, TimesAssumption DEF Stale
    <2>. QED
      BY <1>4, <1>6, <2>2, <2>3
  <1>7. CASE on["network"] /\ inventory \notin {Fails, Raises}
    <2>. DEFINE unexpected == Unexpected(Listeners) # {}
    <2>1. row = [state |-> ExposureState(Listeners), required |-> FALSE,
                 unexpected |-> unexpected, age |-> 0]
      BY <1>1, <1>7 DEF ExposureRow, Report
    <2>. HIDE DEF unexpected
    <2>2. /\ row.age = 0 /\ row.state = ExposureState(Listeners)
          /\ row.unexpected = unexpected
      BY <2>1
    <2>3. ~ Stale
      BY <1>4, <2>2, TimesAssumption DEF Stale
    <2>4. ExposureState(Listeners) # "disabled"
      BY DEF ExposureState
    <2>. QED
      BY <1>4, <1>7, <2>2, <2>3, <2>4 DEF unexpected
  <1>. QED
    BY <1>5, <1>6, <1>7

LEMMA ListenersJudged ==
    ASSUME OverviewInv, calm >= Settle, ~ Leftover, NEW p \in ListenerPaths
    PROVE  /\ p \in Active => on["network"]
           /\ on["network"] /\ inventory \notin {Fails, Raises} =>
                 p \in Active /\ EffectiveState(p) = ListenerPathState(p, Listeners)
  <1>1. TypeOK /\ calm > 0 /\ CycleSeen
    BY Settled DEF OverviewInv
  <1>2. p \in Paths /\ p \in Component /\ p \notin ProbePaths
    BY Kinds DEF Paths
  <1>3. p \in Active => on["network"]
    BY DEF Leftover, Active, Recorded
  <1>4. ASSUME on["network"], inventory \notin {Fails, Raises}
        PROVE  p \in Active /\ EffectiveState(p) = ListenerPathState(p, Listeners)
    <2>1. rows[p] = Report(ListenerPathState(p, Listeners), TRUE)
      BY <1>1, <1>4 DEF CycleSeen, ListenerRow
    <2>2. ListenerPathState(p, Listeners) \in HealthState \ {"disabled"}
      BY DEF ListenerPathState, HealthState
    <2>3. rows[p] # NoRow
      BY <2>1, <2>2, ReportIsRow
    <2>4. rows[p].state = ListenerPathState(p, Listeners) /\ rows[p].required = TRUE
      BY <2>1 DEF Report
    <2>. QED
      BY <1>2, <2>2, <2>3, <2>4 DEF Active, Recorded, EffectiveState, Expired
  <1>. QED
    BY <1>3, <1>4

LEMMA ProbesJudged ==
    ASSUME OverviewInv, calm >= Settle, NEW p \in ProbePaths
    PROVE  /\ p \in Active <=> on["probes"] /\ PathVerdict(p).state # "disabled"
           /\ p \in Active => EffectiveState(p) = PathVerdict(p).state
  <1>1. TypeOK /\ calm > 0 /\ calm >= sinceProbe /\ CycleSeen /\ ProbesSeen
    BY Settled DEF OverviewInv
  <1>2. p \in Paths /\ p \in Component
    BY Kinds DEF Paths
  <1>3. CASE ~ on["probes"]
    <2>1. rows[p] = Report("disabled", FALSE)
      BY <1>1, <1>3 DEF CycleSeen
    <2>2. rows[p].state = "disabled"
      BY <2>1 DEF Report
    <2>. QED
      BY <1>3, <2>2 DEF Active
  <1>4. CASE on["probes"]
    <2>1. rows[p] = [PathVerdict(p) EXCEPT !.age = sinceProbe - 1]
      BY <1>1, <1>4 DEF ProbesSeen
    <2>2. PathVerdict(p) \in Row
      BY VerdictIsRow
    <2>3. /\ rows[p].state = PathVerdict(p).state
          /\ rows[p].required = PathVerdict(p).required
          /\ rows[p].age = sinceProbe - 1
      BY <2>1, <2>2 DEF Row
    <2>4. sinceProbe - 1 \in 0..Cap /\ ~ (sinceProbe - 1 > FreshFor)
      BY <1>1, TimesAssumption DEF TypeOK
    <2>5. rows[p] \in Row
      BY <2>1, <2>2, <2>4 DEF Row
    <2>6. p \in Recorded
      BY <1>2, <2>5, NoRowAssumption DEF Recorded
    <2>7. EffectiveState(p) = PathVerdict(p).state
      BY <2>3, <2>4 DEF EffectiveState, Expired
    <2>8. PathVerdict(p).state # "disabled" => PathVerdict(p).required
      BY DEF PathVerdict, Verdict, Report, ProbePaths
    <2>. QED
      BY <1>2, <1>4, <2>3, <2>6, <2>7, <2>8 DEF Active
  <1>. QED
    BY <1>3, <1>4

\* What each probe finds.
LEMMA VerdictStates ==
    /\ PathVerdict("path_public_dns").state = IF DnsOk(answer) THEN "healthy" ELSE "unavailable"
    /\ PathVerdict("path_cloudflare_xray").state = IF Upgraded THEN "healthy" ELSE "unavailable"
    /\ PathVerdict("path_xray_egress").state =
          IF ~ on["warp"] THEN "disabled" ELSE IF trace = "on" THEN "healthy" ELSE "unavailable"
  <1>1. PathVerdict("path_public_dns").state = IF DnsOk(answer) THEN "healthy" ELSE "unavailable"
    BY DEF PathVerdict, Verdict, Report
  <1>2. PathVerdict("path_cloudflare_xray").state = IF Upgraded THEN "healthy" ELSE "unavailable"
    BY DEF PathVerdict, Verdict, Report
  <1>3. PathVerdict("path_xray_egress").state =
          IF ~ on["warp"] THEN "disabled" ELSE IF trace = "on" THEN "healthy" ELSE "unavailable"
    BY DEF PathVerdict, Verdict, Report, WarpOk
  <1>. QED
    BY <1>1, <1>2, <1>3

\* What is critical on the page is what is broken.
LEMMA CriticalIsBroken ==
    ASSUME OverviewInv, calm >= Settle, ~ Leftover
    PROVE  Drifted \/ (\E c \in Active : EffectiveState(c) = "unavailable") <=> Broken
  <1>0. TypeOK
    BY DEF OverviewInv
  <1>1. Drifted => Broken
    BY <1>0, NetworkJudged, DriftIsUninvited DEF Broken
  <1>2. ASSUME NEW c \in Active, EffectiveState(c) = "unavailable"
        PROVE  Broken
    <2>1. CASE c \in Reporters
      BY <1>2, <2>1, ReportersJudged DEF Broken
    <2>2. CASE c = "network_exposure"
      BY <1>2, <2>2, NetworkJudged DEF Broken, ExposureState
    <2>3. CASE c \in ListenerPaths
      <3>1. on["network"]
        BY <2>3, ListenersJudged
      <3>2. CASE inventory \in {Fails, Raises}
        BY <3>1, <3>2 DEF Broken
      <3>3. CASE inventory \notin {Fails, Raises}
        <4>1. ListenerPathState(c, Listeners) = "unavailable"
          BY <1>2, <2>3, <3>1, <3>3, ListenersJudged
        <4>2. ~ Anywhere(ListenerPath[c].transport, ListenerPath[c].port)
          BY <1>0, <2>3, <3>3, <4>1, PathStateIsBound
        <4>. QED
          BY <2>3, <3>1, <4>2 DEF Broken
      <3>. QED
        BY <3>2, <3>3
    <2>4. CASE c \in ProbePaths
      <3>1. on["probes"] /\ PathVerdict(c).state = "unavailable"
        BY <1>2, <2>4, ProbesJudged
      <3>2. ~ Reachable \/ (on["warp"] /\ trace # "on")
        BY <1>0, <2>4, <3>1, VerdictStates, UpgradedIsReachable DEF ProbePaths, Upgraded
      <3>. QED
        BY <3>1, <3>2 DEF Broken
    <2>5. CASE c = "retention"
      BY <1>2, <2>5, ReportersJudged DEF Broken
    <2>6. c \in Component
      BY DEF Active, Recorded
    <2>. QED
      BY <2>1, <2>2, <2>3, <2>4, <2>5, <2>6, Kinds
  <1>3. ASSUME NEW r \in Reporters, on[r], reports[r] = "unavailable"
        PROVE  \E c \in Active : EffectiveState(c) = "unavailable"
    BY <1>3, ReportersJudged
  <1>4. ASSUME on["network"], inventory \in {Fails, Raises}
        PROVE  \E c \in Active : EffectiveState(c) = "unavailable"
    BY <1>4, NetworkJudged
  <1>5. ASSUME on["network"], inventory \notin {Fails, Raises}, Uninvited
        PROVE  Drifted
    BY <1>0, <1>5, NetworkJudged, DriftIsUninvited
  <1>6. ASSUME on["network"], inventory \notin {Fails, Raises}, NEW p \in ListenerPaths,
               ~ Anywhere(ListenerPath[p].transport, ListenerPath[p].port)
        PROVE  \E c \in Active : EffectiveState(c) = "unavailable"
    <2>1. ~ Bound(ListenerPath[p].transport, ListenerPath[p].port, ListenerPath[p].exposure)
      <3>1. ListenerPath[p].exposure \in {"public", "loopback", "link_local"}
        BY ListenerExposures
      <3>. QED
        BY <1>6, <3>1 DEF Anywhere
    <2>2. ListenerPathState(p, Listeners) = "unavailable"
      BY <1>0, <1>6, <2>1, PathStateIsBound
    <2>. QED
      BY <1>6, <2>2, ListenersJudged
  <1>7. ASSUME on["probes"], ~ Reachable
        PROVE  \E c \in Active : EffectiveState(c) = "unavailable"
    <2>1. PathVerdict("path_cloudflare_xray").state = "unavailable"
      BY <1>0, <1>7, VerdictStates, UpgradedIsReachable
    <2>. QED
      BY <1>7, <2>1, ProbesJudged DEF ProbePaths
  <1>8. ASSUME on["probes"], on["warp"], trace # "on"
        PROVE  \E c \in Active : EffectiveState(c) = "unavailable"
    <2>1. PathVerdict("path_xray_egress").state = "unavailable"
      BY <1>8, VerdictStates
    <2>. QED
      BY <1>8, <2>1, ProbesJudged DEF ProbePaths
  <1>9. ASSUME ~ retainable
        PROVE  \E c \in Active : EffectiveState(c) = "unavailable"
    BY <1>9, ReportersJudged
  <1>10. Broken => Drifted \/ \E c \in Active : EffectiveState(c) = "unavailable"
    BY <1>3, <1>4, <1>5, <1>6, <1>7, <1>8, <1>9 DEF Broken
  <1>. QED
    BY <1>1, <1>2, <1>10

\* And what is degraded is what is impaired.
LEMMA DegradedIsImpaired ==
    ASSUME OverviewInv, calm >= Settle, ~ Leftover, ~ Broken
    PROVE  (\E c \in Active : EffectiveState(c) = "degraded") <=> Impaired
  <1>0. TypeOK /\ (on["network"] => inventory \notin {Fails, Raises} /\ ~ Uninvited)
    BY DEF OverviewInv, Broken
  <1>1. on["network"] => (ExposureState(Listeners) = "degraded" <=>
                            \E l \in Expected : ~ Bound(l.transport, l.port, l.exposure))
    BY <1>0, DriftIsUninvited, MissingIsUnbound DEF ExposureState
  <1>2. ASSUME on["network"], NEW p \in ListenerPaths
        PROVE  ListenerPathState(p, Listeners) = "degraded" <=>
                 ~ Bound(ListenerPath[p].transport, ListenerPath[p].port,
                         ListenerPath[p].exposure)
    <2>1. Anywhere(ListenerPath[p].transport, ListenerPath[p].port)
      BY <1>2 DEF Broken
    <2>. QED
      BY <1>0, <1>2, <2>1, PathStateIsBound
  <1>3. ASSUME NEW c \in Active, EffectiveState(c) = "degraded"
        PROVE  Impaired
    <2>1. CASE c \in Reporters
      BY <1>3, <2>1, ReportersJudged DEF Impaired
    <2>2. CASE c = "network_exposure"
      BY <1>0, <1>1, <1>3, <2>2, NetworkJudged DEF Impaired
    <2>3. CASE c \in ListenerPaths
      BY <1>0, <1>2, <1>3, <2>3, ListenersJudged DEF Impaired
    <2>4. CASE c \in ProbePaths
      <3>1. PathVerdict(c).state = "degraded"
        BY <1>3, <2>4, ProbesJudged
      <3>. QED
        BY <2>4, <3>1, VerdictStates DEF ProbePaths
    <2>5. CASE c = "retention"
      BY <1>3, <2>5, ReportersJudged
    <2>6. c \in Component
      BY DEF Active, Recorded
    <2>. QED
      BY <2>1, <2>2, <2>3, <2>4, <2>5, <2>6, Kinds
  <1>4. ASSUME NEW r \in Reporters, on[r], reports[r] = "degraded"
        PROVE  \E c \in Active : EffectiveState(c) = "degraded"
    BY <1>4, ReportersJudged
  <1>5. ASSUME on["network"], NEW l \in Expected, ~ Bound(l.transport, l.port, l.exposure)
        PROVE  \E c \in Active : EffectiveState(c) = "degraded"
    BY <1>0, <1>1, <1>5, NetworkJudged
  <1>6. ASSUME on["network"], NEW p \in ListenerPaths,
               ~ Bound(ListenerPath[p].transport, ListenerPath[p].port,
                       ListenerPath[p].exposure)
        PROVE  \E c \in Active : EffectiveState(c) = "degraded"
    BY <1>0, <1>2, <1>6, ListenersJudged
  <1>7. Impaired => \E c \in Active : EffectiveState(c) = "degraded"
    BY <1>4, <1>5, <1>6 DEF Impaired
  <1>. QED
    BY <1>3, <1>7

LEMMA StatusIsTruth ==
    ASSUME OverviewInv, calm >= Settle, ~ Leftover
    PROVE  WebStatus(FALSE) = Truth
  <1>1. /\ ~ Stale /\ Active # {}
        /\ \A c \in Active : EffectiveState(c) \in {"healthy", "degraded", "unavailable"}
    BY NetworkJudged, ReportersJudged, Alarms DEF OverviewInv
  <1>. DEFINE worst == \E c \in Active : EffectiveState(c) = "unavailable"
              bad == \E c \in Active : EffectiveState(c) = "degraded"
  <1>2. Overall = IF worst THEN "critical" ELSE IF bad THEN "degraded" ELSE "healthy"
    BY <1>1 DEF Overall
  <1>3. Drifted \/ worst <=> Broken
    BY CriticalIsBroken
  <1>4. ~ Broken => (bad <=> Impaired)
    BY DegradedIsImpaired
  <1>. HIDE DEF worst, bad
  <1>. QED
    BY <1>1, <1>2, <1>3, <1>4 DEF WebStatus, Truth

\* No row of a path that is not watched any more outlives Linger.
LEMMA LeftoversGo ==
    ASSUME OverviewInv, calm >= Linger, retainable
    PROVE  ~ Leftover
  <1>1. /\ TypeOK /\ LeftoversAge /\ calm \in Nat
        /\ sincePrune \in 1..PruneEvery /\ RawKeep \in Nat /\ PruneEvery \in Nat
    BY LingerType, TimesAssumption DEF OverviewInv, TypeOK
  <1>2. Linger = Settle + RawKeep /\ Settle >= PruneEvery /\ Settle \in Nat
    BY TimesAssumption DEF Linger, Settle
  <1>3. calm >= sincePrune /\ ~ (calm <= RawKeep + sincePrune - 1)
    BY <1>1, <1>2
  <1>. QED
    BY <1>1, <1>3 DEF LeftoversAge, Leftover

(***************************************************************************)
(* Whatever came before, once nothing has happened for long enough the     *)
(* status of the page is what is true of the host and its configuration    *)
(* (collector.py, network.py, probes.py, web.py), for any policy of ports, *)
(* any answers of DNS and reactions of addresses, and any schedule; and    *)
(* the paths of a collector that was switched off stop counting.           *)
(***************************************************************************)
THEOREM StatusBecomesTrue == Spec => []StatusTrue
  <1>1. OverviewInv => StatusTrue
    BY StatusIsTruth, LeftoversGo DEF StatusTrue
  <1>. QED
    BY <1>1, RowsInvariant, PTL
=============================================================================
