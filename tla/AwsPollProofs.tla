--------------------------- MODULE AwsPollProofs ---------------------------
(***************************************************************************)
(* Theorems about AlarmPages and AwsPoll, for any limits and whatever the  *)
(* service answers.                                                        *)
(***************************************************************************)
EXTENDS AwsPoll, FiniteSetTheorems, TLAPS

\* Alarms of a kind can be counted, and the count is zero only of none.
LEMMA AmongCounts ==
    ASSUME NEW alarms \in Seq(AlarmState), NEW kind
    PROVE  /\ Among(alarms, kind) \in Nat
           /\ Among(alarms, kind) = 0 => \A i \in DOMAIN alarms : alarms[i] # kind
<1> DEFINE found == {i \in DOMAIN alarms : alarms[i] = kind}
<1>1. IsFiniteSet(1..Len(alarms))
  BY FS_Interval
<1>2. DOMAIN alarms = 1..Len(alarms)
  OBVIOUS
<1>3. IsFiniteSet(found)
  BY <1>1, <1>2, FS_Subset
<1>4. Cardinality(found) \in Nat /\ (Cardinality(found) = 0 <=> found = {})
  BY <1>3, FS_CardinalityType, FS_EmptySet
<1>5. QED BY <1>4 DEF Among

LEMMA EvaluateType ==
    ASSUME NEW alarms \in Seq(AlarmState), NEW truncated \in BOOLEAN
    PROVE  Evaluate(alarms, truncated) \in Outcome
BY AmongCounts DEF Evaluate, Outcome

\* A page of the service is a sequence.
LEMMA PagesAreSequences == ASSUME NEW alarms \in Pages PROVE alarms \in Seq(AlarmState)
BY DEF Pages

\* What is kept of a page fits, and is all of it if nothing is over.
LEMMA FittingFits ==
    ASSUME states \in Seq(AlarmState), Len(states) <= MaxAlarms,
           NEW alarms \in Seq(AlarmState)
    PROVE  /\ states \o Fitting(alarms) \in Seq(AlarmState)
           /\ Len(states \o Fitting(alarms)) <= MaxAlarms
           /\ ~ Overfull(alarms) => Fitting(alarms) = alarms
<1>1. Fitting(alarms) \in Seq(AlarmState) /\ Len(Fitting(alarms)) <= MaxAlarms - Len(states)
  BY PagesAssumption DEF Fitting
<1>2. QED BY <1>1, PagesAssumption DEF Fitting, Overfull

\* A result that counts what was kept, and says so if that is not all.
LEMMA EvaluateCounts ==
    ASSUME NEW truncated \in BOOLEAN, states' \in Seq(AlarmState),
           result' = Evaluate(states', truncated),
           ~ truncated => states' = sent' /\ Ended'
    PROVE  /\ result' \in Outcome /\ result' # NoResult
           /\ Counted'
<1>1. result' \in Outcome /\ result' # NoResult
  BY EvaluateType, ResultAssumption
<1>2. /\ result'.active = Among(states, "alarm")'
      /\ result'.indeterminate = Among(states, "other")'
  BY DEF Evaluate, Among
<1>3. result'.truncated = truncated
  BY DEF Evaluate
<1>4. QED BY <1>1, <1>2, <1>3 DEF Counted

LEMMA PageKeepsInv ==
    ASSUME AlarmInv, NEW alarms \in Pages, NEW next \in Tokens \cup {NoToken, BadToken},
           ReadPage(alarms, next)
    PROVE  AlarmInv'
<1> DEFINE kept == states \o Fitting(alarms)
<1>1. alarms \in Seq(AlarmState)
  BY PagesAreSequences
<1>2. /\ kept \in Seq(AlarmState) /\ Len(kept) <= MaxAlarms
      /\ ~ Overfull(alarms) => kept = states \o alarms
  BY <1>1, FittingFits DEF AlarmInv, AlarmTypeOK
<1>3. states = sent /\ page \in 0..MaxPages /\ page < MaxPages
  BY DEF ReadPage, AlarmInv, AlarmTypeOK
<1>4. /\ states' = kept /\ sent' = states \o alarms
      /\ sent' \in Seq(AlarmState)
  BY <1>1, <1>3 DEF ReadPage, AlarmInv, AlarmTypeOK
<1>5. page' = page + 1 /\ page' \in 1..MaxPages /\ last' = next
  BY <1>3, PagesAssumption DEF ReadPage
<1>6. Overfull(alarms) \in BOOLEAN
  BY DEF Overfull
<1>7. asking \in Tokens \cup {NoToken} /\ seen \subseteq Tokens
  BY DEF AlarmInv, AlarmTypeOK
<1> HIDE DEF kept
<1>8. ASSUME NEW truncated \in BOOLEAN, result' = Evaluate(kept, truncated),
             truncated \/ (NoMore(next) /\ ~ Overfull(alarms)),
             asking' \in Tokens \cup {NoToken}, seen' \subseteq Tokens
      PROVE  AlarmInv'
  <2>1. ~ truncated => states' = sent' /\ Ended'
    BY <1>2, <1>4, <1>5, <1>8 DEF Ended, NoMore
  <2>2. result' \in Outcome /\ result' # NoResult /\ Counted'
    BY <2>1, <1>2, <1>4, <1>8, EvaluateCounts
  <2>3. AlarmTypeOK'
    BY <2>2, <1>2, <1>4, <1>5, <1>8 DEF AlarmTypeOK
  <2>4. QED BY <2>2, <2>3 DEF AlarmInv
<1>9. CASE NoMore(next) /\ result' = Evaluate(kept, Overfull(alarms)) /\ UNCHANGED <<asking, seen>>
  BY <1>6, <1>7, <1>8, <1>9
<1>10. CASE ~ NoMore(next) /\ result' = Evaluate(kept, TRUE) /\ UNCHANGED <<asking, seen>>
  BY <1>7, <1>8, <1>10
<1>11. CASE /\ ~ NoMore(next)
            /\ next # BadToken /\ ~ Overfull(alarms)
            /\ asking' = next /\ seen' = seen \cup {next}
            /\ result' = IF page' = MaxPages THEN Evaluate(kept, TRUE) ELSE NoResult
  <2>1. next \in Tokens /\ asking' \in Tokens /\ asking' # NoToken /\ seen' \subseteq Tokens
    BY <1>7, <1>11, PagesAssumption DEF NoMore
  <2>2. CASE page' = MaxPages
    BY <2>1, <2>2, <1>8, <1>11
  <2>3. CASE page' # MaxPages
    <3>1. result' = NoResult /\ result' \notin Outcome
      BY <2>3, <1>11, ResultAssumption
    <3>2. page' < MaxPages /\ page' # 0
      BY <2>3, <1>5, PagesAssumption
    <3>3. states' = sent' /\ ~ Ended'
      BY <1>2, <1>4, <1>5, <1>11 DEF Ended, NoMore
    <3>4. AlarmTypeOK'
      BY <3>1, <2>1, <1>2, <1>4, <1>5 DEF AlarmTypeOK
    <3>5. Counted'
      BY <3>1 DEF Counted
    <3>6. QED BY <3>1, <3>2, <3>3, <3>4, <3>5, <2>1 DEF AlarmInv
  <2>4. QED BY <2>2, <2>3
<1>12. QED BY <1>4, <1>9, <1>10, <1>11 DEF ReadPage

LEMMA AlarmStep == ASSUME AlarmInv, [AlarmNext]_alarmVars PROVE AlarmInv'
<1>1. CASE UNCHANGED alarmVars
  BY <1>1 DEF alarmVars, AlarmInv, AlarmTypeOK, Counted, Ended
<1>2. ASSUME NEW alarms \in Pages, NEW next \in Tokens \cup {NoToken, BadToken},
             ReadPage(alarms, next)
      PROVE  AlarmInv'
  BY <1>2, PageKeepsInv
<1>3. CASE ReadMalformed
  <2>1. result' \in Outcome
    BY <1>3, EvaluateType DEF ReadMalformed, AlarmInv, AlarmTypeOK, Counted, Ended, Unread, Outcome
  <2>2. QED
    BY <1>3, <2>1, ResultAssumption DEF ReadMalformed, AlarmInv, AlarmTypeOK, Counted, Ended, Unread, Evaluate
<1>4. CASE ReadFails
  BY <1>4, ResultAssumption DEF ReadFails, AlarmInv, AlarmTypeOK, Counted, Ended
<1>5. CASE NextPoll
  BY <1>5, ResultAssumption, PagesAssumption DEF NextPoll, AlarmInv, AlarmTypeOK, Counted, Ended
<1>6. QED BY <1>1, <1>2, <1>3, <1>4, <1>5 DEF AlarmNext, ReadAlarms

LEMMA AlarmInitOK == AlarmInit => AlarmInv
<1> SUFFICES ASSUME AlarmInit PROVE AlarmInv
  OBVIOUS
<1>1. AlarmTypeOK
  BY PagesAssumption DEF AlarmInit, AlarmTypeOK
<1>2. result \notin Outcome
  BY ResultAssumption DEF AlarmInit
<1>3. 0 < MaxPages /\ states = sent /\ ~ Ended /\ page = 0 /\ asking = NoToken
  BY PagesAssumption, ResultAssumption DEF AlarmInit, Ended
<1>4. QED BY <1>1, <1>2, <1>3 DEF AlarmInv, Counted

LEMMA Quiet == AlarmInv => QuietMeansQuiet
<1> SUFFICES ASSUME AlarmInv, Unremarkable
             PROVE  Ended /\ \A i \in DOMAIN sent : sent[i] = "ok"
  BY DEF QuietMeansQuiet
<1>1. /\ states = sent /\ Ended /\ sent \in Seq(AlarmState)
      /\ Among(sent, "alarm") = 0 /\ Among(sent, "other") = 0
  BY DEF AlarmInv, AlarmTypeOK, Counted, Ended, Unremarkable
<1>2. \A i \in DOMAIN sent : sent[i] # "alarm" /\ sent[i] # "other"
  BY <1>1, AmongCounts
<1>3. QED BY <1>1, <1>2 DEF AlarmState

(***************************************************************************)
(* On their own, the alarm pages (_collect_alarm_pages) lose nothing       *)
(* before there is a result, nor from one not marked as truncated.         *)
(***************************************************************************)
THEOREM AlarmInvariant == AlarmSpec => []AlarmInv
  BY AlarmInitOK, AlarmStep, PTL DEF AlarmSpec

----------------------------------------------------------------------------

\* What _safe_firewall finds neither invalid nor unsafe is well.
LEMMA FirewallSeen ==
    ASSUME NEW rules, ~ InvalidRules(rules), ~ UnsafeRules(rules)
    PROVE  FirewallWell(rules)
<1> SUFFICES ASSUME NEW rule \in Range(rules), rule # Garbled, rule.state # "closed"
             PROVE  /\ rule.state \in {"open", ""} /\ ValidShape(rule) /\ ~ BadScopes(rule)
                    /\ \A transport \in {"tcp", "udp"}, port \in 0..MaxPort :
                          Opens(rule, transport, port) =>
                             transport = "tcp" /\ port \in ExpectedPorts
  BY DEF FirewallWell, InvalidRules
<1>1. rule \in Opening(rules)
  BY DEF InvalidRules, Opening
<1>2. ValidShape(rule) /\ ~ BadScopes(rule)
  BY <1>1 DEF InvalidRules
<1>3. ASSUME NEW transport \in {"tcp", "udp"}, NEW port \in 0..MaxPort,
             Opens(rule, transport, port)
      PROVE  transport = "tcp" /\ port \in ExpectedPorts
  <2>1. ExpectedRule(rule)
    BY <1>1, <1>3 DEF UnsafeRules, Opens, Scopes
  <2>2. First(rule) \in Int /\ First(rule) = Last(rule)
    <3>1. ExpectedPorts \subseteq Int
      BY PollAssumption
    <3>. QED BY <2>1, <3>1 DEF ExpectedRule
  <2>3. rule.protocol = "tcp"
    BY <2>1 DEF ExpectedRule
  <2>4. transport = "tcp" /\ First(rule) <= port /\ port <= Last(rule)
    BY <1>3, <2>3 DEF Opens
  <2>. QED
    BY <2>1, <2>2, <2>4 DEF ExpectedRule
<1>4. QED BY <1>1, <1>2, <1>3 DEF Opening

LEMMA SevenCalls == Len(Calls) = 7
  BY DEF Calls

LEMMA PollInitOK == Init => PollInv
<1> SUFFICES ASSUME Init PROVE PollInv
  OBVIOUS
<1>1. AlarmInv /\ page = 0 /\ result = NoResult
  BY AlarmInitOK DEF Init, AlarmInit
<1>2. asked \in 0..Len(Calls) /\ ~ (page > 0)
  BY <1>1, SevenCalls DEF Init
<1>3. QED BY <1>1, <1>2, Zenon DEF Init, PollInv

\* A call that is answered leaves a mark if its answer is not well.
LEMMA AnsweredOK ==
    ASSUME PollInv, NEW call, NEW lacking \in BOOLEAN, NEW risky \in BOOLEAN, NEW well \in BOOLEAN,
           Answered(call, lacking, risky, well),
           instance' \in {"running", "stopped", "unknown"},
           well \/ lacking \/ risky \/ instance' = "stopped",
           asked # 0 => instance' = instance
    PROVE  PollInv'
<1>1. AlarmInv'
  BY AlarmStep DEF Answered, PollInv
<1>2. /\ asked' \in 1..Len(Calls)
      /\ answered' \in BOOLEAN /\ failures' \in BOOLEAN /\ missing' \in BOOLEAN
      /\ risks' \in BOOLEAN /\ told' \in BOOLEAN
      /\ page' = 0 /\ result' = NoResult
  BY DEF Answered, PollInv, Calls, alarmVars, AlarmInv, AlarmTypeOK
<1>3. told' \/ failures' \/ missing' \/ risks' \/ instance' = "stopped"
  BY DEF Answered, PollInv
<1>4. QED BY <1>1, <1>2, <1>3 DEF PollInv

LEMMA PollStep == PollInv /\ [Next]_vars => PollInv'
<1> SUFFICES ASSUME PollInv, [Next]_vars PROVE PollInv'
  OBVIOUS
<1>1. ASSUME NEW state \in {"running", "stopped", "unknown"},
             NEW staticIp \in {TRUE, FALSE, Absent}, NEW allocated \in BOOLEAN,
             GetInstance(state, staticIp, allocated)
      PROVE  PollInv'
  <2> DEFINE lacking == state = "unknown" \/ staticIp = Absent \/ ~ (Operator \/ allocated)
             risky == staticIp = FALSE
             well == state = "running" /\ staticIp = TRUE /\ (Operator \/ allocated)
  <2>1. Answered("get_instance", lacking, risky, well) /\ instance' = state
    BY <1>1 DEF GetInstance
  <2>2. asked = 0
    BY <2>1 DEF Answered, Calls, PollInv
  <2>3. well \/ lacking \/ risky \/ instance' = "stopped"
    BY <2>1
  <2>4. lacking \in BOOLEAN /\ risky \in BOOLEAN /\ well \in BOOLEAN
    OBVIOUS
  <2> HIDE DEF lacking, risky, well
  <2>. QED BY <2>1, <2>2, <2>3, <2>4, AnsweredOK
<1>2. ASSUME NEW rules \in Firewalls \cup {Garbled}, GetPortStates(rules)
      PROVE  PollInv'
  <2>1. instance' = instance
    BY <1>2 DEF GetPortStates
  <2>2. CASE rules = Garbled
    BY <1>2, <2>1, <2>2, AnsweredOK DEF GetPortStates, PollInv
  <2>3. CASE rules # Garbled
    <3>1. Answered("get_instance_port_states", InvalidRules(rules), UnsafeRules(rules),
                   FirewallWell(rules))
      BY <1>2, <2>3 DEF GetPortStates
    <3>2. /\ InvalidRules(rules) \in BOOLEAN /\ UnsafeRules(rules) \in BOOLEAN
          /\ FirewallWell(rules) \in BOOLEAN
      BY DEF InvalidRules, UnsafeRules, FirewallWell
    <3>. QED
      BY <2>1, <3>1, <3>2, AnsweredOK, FirewallSeen DEF PollInv
  <2>. QED BY <2>2, <2>3
<1>3. ASSUME NEW call \in Metrics, NEW points \in Figures, GetMetric(call, points)
      PROVE  PollInv'
  <2> DEFINE values == Values(points)
  <2>1. instance' = instance /\ instance \in {"running", "stopped", "unknown"}
    BY <1>3 DEF GetMetric, PollInv
  <2>2. values \subseteq Nat
    BY PollAssumption DEF Values
  <2>3. \E risky, well \in BOOLEAN :
          /\ Answered(call, values = {}, risky, well)
          /\ well \/ values = {} \/ risky
    <3>1. CASE call \in {"network_in", "network_out"}
      <4>1. Answered(call, values = {}, FALSE, values # {})
        BY <1>3, <3>1 DEF GetMetric
      <4>. QED BY <4>1
    <3>2. CASE call = "cpu_utilization"
      <4>1. Answered(call, values = {}, \E v \in values : v >= CpuHigh,
                     values # {} /\ \A v \in values : v < CpuHigh)
        BY <1>3, <3>2 DEF GetMetric
      <4>2. (\A v \in values : v < CpuHigh) \/ (\E v \in values : v >= CpuHigh)
        BY <2>2, PollAssumption
      <4> HIDE DEF values
      <4>. QED BY <4>1, <4>2
    <3>3. CASE call = "burst_capacity"
      <4>1. Answered(call, values = {}, \E v \in values : v <= BurstLow,
                     values # {} /\ \A v \in values : v > BurstLow)
        BY <1>3, <3>3 DEF GetMetric
      <4>2. (\A v \in values : v > BurstLow) \/ (\E v \in values : v <= BurstLow)
        BY <2>2, PollAssumption
      <4> HIDE DEF values
      <4>. QED BY <4>1, <4>2
    <3>4. CASE call = "status_check_failed"
      <4>1. Answered(call, values = {}, \E v \in values : v > 0, values = {0})
        BY <1>3, <3>4 DEF GetMetric
      <4>2. values = {0} \/ values = {} \/ (\E v \in values : v > 0)
        BY <2>2
      <4> HIDE DEF values
      <4>. QED BY <4>1, <4>2
    <3>. QED BY <3>1, <3>2, <3>3, <3>4 DEF Metrics, Calls, Range
  <2>4. (values = {}) \in BOOLEAN
    OBVIOUS
  <2> HIDE DEF values
  <2>. QED BY <2>1, <2>3, <2>4, AnsweredOK
<1>4. CASE CallFails
  <2>1. AlarmInv'
    BY <1>4, AlarmStep DEF CallFails, PollInv
  <2>2. asked' \in 0..Len(Calls) /\ asked' # 0
    BY <1>4, SevenCalls DEF CallFails, PollInv
  <2>3. ~ (page' > 0 \/ result' # NoResult)
    BY <1>4, SevenCalls DEF CallFails, PollInv, alarmVars
  <2>. QED BY <1>4, <2>1, <2>2, <2>3 DEF CallFails, PollInv
<1>5. CASE NoClient
  <2>1. AlarmInv'
    BY <1>5, AlarmStep DEF NoClient, PollInv, AlarmNext, ReadAlarms
  <2>2. asked' = Len(Calls) /\ asked' \in 0..Len(Calls) /\ asked' # 0
    BY <1>5, SevenCalls DEF NoClient
  <2>. QED BY <1>5, <2>1, <2>2, Zenon DEF NoClient, PollInv
<1>6. CASE GetAlarms
  <2>1. AlarmInv'
    BY <1>6, AlarmStep DEF GetAlarms, PollInv, AlarmNext
  <2>. QED BY <1>6, <2>1 DEF GetAlarms, PollInv, pollVars
<1>7. CASE NewPoll
  <2>1. AlarmInv'
    BY <1>7, AlarmStep DEF NewPoll, PollInv, AlarmNext
  <2>2. asked' \in 0..Len(Calls) /\ ~ (page' > 0) /\ result' = NoResult
    BY <1>7, SevenCalls DEF NewPoll, NextPoll
  <2>. QED BY <1>7, <2>1, <2>2, Zenon DEF NewPoll, PollInv
<1>8. CASE UNCHANGED vars
  <2>1. AlarmInv'
    BY <1>8, AlarmStep DEF vars, PollInv
  <2>. QED BY <1>8, <2>1 DEF vars, pollVars, alarmVars, PollInv
<1>. QED BY <1>1, <1>2, <1>3, <1>4, <1>5, <1>6, <1>7, <1>8 DEF Next

(***************************************************************************)
(* In a poll (LightsailCollector.collect) nothing that is incomplete or    *)
(* not well goes without a mark, in the alarms or before them.             *)
(***************************************************************************)
THEOREM PollInvariant == Spec => []PollInv
  BY PollInitOK, PollStep, PTL DEF Spec

(***************************************************************************)
(* Alarms that give no cause to call the instance degraded (_safe_alarms)  *)
(* are all there are, and all OK.                                          *)
(***************************************************************************)
THEOREM QuietIsQuiet == Spec => []QuietMeansQuiet
<1>1. PollInv => QuietMeansQuiet
  BY Quiet DEF PollInv
<1>2. QED BY <1>1, PollInvariant, PTL

(***************************************************************************)
(* A healthy row of the AWS collector vouches for all that Lightsail can   *)
(* tell: nothing missing, no open port that is not expected, no alarm.     *)
(***************************************************************************)
THEOREM HealthyIsWell == Spec => []HealthyMeansWell
<1>1. PollInv => HealthyMeansWell
  <2> SUFFICES ASSUME PollInv, result # NoResult, State = "healthy"
               PROVE  told /\ Ended /\ \A i \in DOMAIN sent : sent[i] = "ok"
    BY DEF HealthyMeansWell
  <2>1. /\ instance # "stopped" /\ ~ failures /\ ~ missing /\ ~ risks /\ Unremarkable
    BY DEF State
  <2>2. QED BY <2>1, Quiet DEF PollInv, QuietMeansQuiet
<1>2. QED BY <1>1, PollInvariant, PTL
=============================================================================
