------------------------------ MODULE AwsProofs ------------------------------
(***************************************************************************)
(* Theorems about AwsSnapshot and DashboardAws: what is recorded and held  *)
(* of each poll (AwsInv, PageInv), and from it that a page mixes no polls  *)
(* and shows no figure that is older than a reading is fresh.              *)
(***************************************************************************)
EXTENDS DashboardAws, TLAPS

USE DEF Offsets

LEMMA Times ==
    /\ FreshFor \in Nat /\ Settle \in Nat
    /\ Greater(Interval, MaxCycle) \in Nat /\ Interval <= Greater(Interval, MaxCycle)
    /\ MaxCycle <= Greater(Interval, MaxCycle)
BY AwsScheduleAssumption
   DEF FreshFor, Settle, CycleTime, Greater, Lesser

\* What a poll brings home is a snapshot of this moment.
LEMMA AnswersAreSnapshots ==
    ASSUME AwsTypeOK, NEW answer \in Answers
    PROVE  /\ answer \in Snapshot
           /\ answer.real = time /\ answer.wall = time + offset
<1>1. PICK o \in Outcomes :
        answer = [wall |-> Wall, real |-> time, vouches |-> o.vouches,
                  provenance |-> Provenance(o),
                  gauges |-> o.read \cup (IF o.read = {"in", "out"} THEN {"used"} ELSE {})
                             \cup (IF Provenance(o) = "none" THEN {} ELSE {"plan"})]
  BY DEF Answers, Polled
<1>2. o.read \subseteq Names /\ o.vouches \in BOOLEAN
  <2>1. o \in [read : SUBSET {"in", "out"}, vouches : BOOLEAN, allocated : BOOLEAN]
    BY AwsOutcomeAssumption
  <2>2. o.read \in SUBSET {"in", "out"} /\ o.vouches \in BOOLEAN
    BY <2>1
  <2>3. QED BY <2>2 DEF Names
<1>3. Provenance(o) \in {"none", "aws", "operator"}
  BY DEF Provenance
<1>4. answer.gauges \subseteq Names
  BY <1>1, <1>2 DEF Names
<1>5. Wall \in Int /\ time \in Nat /\ Wall = time + offset
  BY AwsClockAssumption DEF AwsTypeOK, Wall
<1>6. answer.gauges \in SUBSET Names
  BY <1>4
<1>7. QED BY <1>1, <1>2, <1>3, <1>5, <1>6 DEF Snapshot

\* The newest row is one of the rows.
LEMMA LatestIsRow ==
    ASSUME NEW rows
    PROVE  Latest(rows) = NoRow \/ Latest(rows) \in rows
BY DEF Latest

\* A step of the collector leaves no rows but those it had, and its snapshot.
LEMMA NoOtherRows ==
    ASSUME AwsTypeOK, AwsNext
    PROVE  samples' \subseteq samples \cup ({cached} \ {NoRow})
BY DEF AwsNext, AwsTypeOK, Tick, SetClock, ApiChange, StartCycle, CollectCached, Poll,
       Retain, Kept, Record, Findable, LoseBatch, Crash, Restart, world, process

(***************************************************************************)
(* Type correctness of the collector's side.                               *)
(***************************************************************************)
LEMMA AwsTypeStep ==
    ASSUME AwsTypeOK, [AwsNext]_awsVars
    PROVE  AwsTypeOK'
<1> USE Times, AwsScheduleAssumption, AwsClockAssumption DEF AwsTypeOK
<1>0. CASE UNCHANGED awsVars
  BY <1>0 DEF awsVars, process, world
<1>1. CASE Tick
  BY <1>1 DEF Tick, Lesser
<1>2. ASSUME NEW jump \in Jumps, SetClock(jump) PROVE AwsTypeOK'
  BY <1>2 DEF SetClock, process
<1>3. CASE ApiChange
  BY <1>3 DEF ApiChange, process
<1>4. CASE StartCycle
  BY <1>4 DEF StartCycle, world
<1>5. CASE CollectCached
  BY <1>5 DEF CollectCached, world
<1>6. CASE Poll
  <2>1. cached' \in Snapshot
    BY <1>6, AnswersAreSnapshots DEF Poll
  <2>2. cached' # NoRow
    BY <2>1, AwsNoRowAssumption
  <2>3. QED BY <1>6, <2>1, <2>2 DEF Poll, world
<1>7. CASE Retain
  BY <1>7 DEF Retain, Kept, world
<1>8. CASE Record
  BY <1>8 DEF Record, Findable, world
<1>9. CASE LoseBatch
  BY <1>9 DEF LoseBatch, Lesser, world
<1>10. CASE Crash
  BY <1>10 DEF Crash, world
<1>11. CASE Restart
  BY <1>11, AwsOutcomeAssumption DEF Restart, world
<1>12. QED
  BY <1>0, <1>1, <1>2, <1>3, <1>4, <1>5, <1>6, <1>7, <1>8, <1>9, <1>10, <1>11 DEF AwsNext

(***************************************************************************)
(* A new poll comes after all rows that are known, and a step that does    *)
(* not poll keeps the order: whatever rows are known stay known.           *)
(***************************************************************************)
LEMMA RowsStayKnown ==
    ASSUME AwsInv, AwsNext,
           NEW before, before \subseteq Snapshot, Known(before),
           NEW after, after \subseteq before \cup ({cached} \ {NoRow})
    PROVE  Known(after)'
<1> DEFINE cache == {cached} \ {NoRow}
<1> USE AwsScheduleAssumption, AwsNoRowAssumption
<1>t. AwsTypeOK /\ AwsTypeOK'
  BY AwsTypeStep DEF AwsInv
<1>r. /\ \A s \in after : s.real \in Nat /\ s.wall \in Int /\ s.wall - s.real \in Offsets
      /\ time \in Nat /\ time' \in Nat
  BY <1>t DEF AwsInv, AwsTypeOK, Known, Snapshot
<1>1. CASE Tick
  BY <1>1, <1>t, <1>r DEF Tick, Known, Distinct, InOrder, AwsTypeOK, Snapshot
<1>2. ASSUME NEW jump \in Jumps, SetClock(jump) PROVE Known(after)'
  BY <1>2, <1>t, <1>r DEF SetClock, process, Known, Distinct, InOrder
<1>3. CASE ApiChange
  BY <1>3, <1>t, <1>r DEF ApiChange, process, Known, Distinct, InOrder
<1>4. CASE StartCycle
  BY <1>4, <1>t, <1>r DEF StartCycle, world, Known, Distinct, InOrder
<1>5. CASE CollectCached
  BY <1>5, <1>t, <1>r DEF CollectCached, world, Known, Distinct, InOrder
<1>6. CASE Poll
  \* All that was known is from before this moment, that of the new snapshot.
  <2>1. cached' \in Snapshot /\ cached'.real = time
    BY <1>6, <1>t, AnswersAreSnapshots DEF Poll
  <2>2. \A s \in before \cup cache : s.real < time
    <3>1. CASE cached = NoRow
      BY <3>1, <1>6, <1>t DEF Poll, Known, InOrder
    <3>2. CASE cached # NoRow
      <4>1. cached.real < time
        BY <3>2, <1>6, <1>t DEF Poll, AwsInv, AwsTypeOK, Snapshot
      <4>2. QED BY <3>2, <4>1, <1>t DEF Known, InOrder, AwsTypeOK, Snapshot
    <3>3. QED BY <3>1, <3>2
  <2>3. after \subseteq before \cup cache /\ time' = time /\ pc' = "retain"
    BY <1>6 DEF Poll, world
  <2>4. Distinct(after)'
    BY <2>1, <2>2, <2>3, <1>t, <1>r DEF Known, Distinct
  <2>5. InOrder(after)'
    BY <2>1, <2>2, <2>3, <1>t, <1>r DEF InOrder
  <2>6. QED BY <2>4, <2>5, <1>r, <1>6 DEF Known
<1>7. CASE Retain
  BY <1>7, <1>t, <1>r DEF Retain, world, Known, Distinct, InOrder
<1>8. CASE Record
  BY <1>8, <1>t, <1>r DEF Record, world, Known, Distinct, InOrder
<1>9. CASE LoseBatch
  BY <1>9, <1>t, <1>r DEF LoseBatch, world, Known, Distinct, InOrder
<1>10. CASE Crash
  \* The newest snapshot may be of this very moment, but the process is down.
  <2>1. \A s \in before \cup cache : s.real <= time
    BY <1>t DEF AwsInv, AwsTypeOK, Known, InOrder, Snapshot
  <2>2. QED BY <1>10, <2>1, <1>t, <1>r DEF Crash, world, Known, Distinct, InOrder
<1>11. CASE Restart
  BY <1>11, <1>t, <1>r DEF Restart, world, Known, Distinct, InOrder, AwsTypeOK, AwsInv
<1>12. QED
  BY <1>1, <1>2, <1>3, <1>4, <1>5, <1>6, <1>7, <1>8, <1>9, <1>10, <1>11 DEF AwsNext

\* The rows and the cached snapshot are from no later than now.
LEMMA RowsArePast ==
    ASSUME AwsInv
    PROVE  \A s \in samples \cup ({cached} \ {NoRow}) :
              s \in Snapshot /\ s.real \in Nat /\ s.wall \in Int /\ s.real <= time
<1>1. \A s \in samples \cup ({cached} \ {NoRow}) : s \in Snapshot
  BY DEF AwsInv, AwsTypeOK
<1>2. \A s \in samples \cup ({cached} \ {NoRow}) : s.real \in Nat /\ s.wall \in Int
  BY <1>1 DEF Snapshot
<1>3. cached # NoRow => cached.real <= time
  BY <1>2, AwsScheduleAssumption, AwsClockAssumption DEF AwsInv, AwsTypeOK
<1>4. \A s \in samples : s.real <= time
  <2>1. CASE cached = NoRow
    BY <2>1, <1>2 DEF AwsInv, AwsTypeOK, Known, InOrder
  <2>2. CASE cached # NoRow
    BY <2>2, <1>2, <1>3, AwsClockAssumption DEF AwsInv, AwsTypeOK, Known, InOrder
  <2>3. QED BY <2>1, <2>2
<1>5. QED BY <1>1, <1>2, <1>3, <1>4

\* A snapshot that is true stays true until something goes wrong.
LEMMA YoungPollsStep ==
    ASSUME AwsInv, YoungPollsAreTrue, AwsNext
    PROVE  YoungPollsAreTrue'
<1> DEFINE All == samples \cup ({cached} \ {NoRow})
<1> DEFINE True(s, now, good, off, up) ==
             now - s.real < good => /\ s.wall - s.real = off
                                    /\ Month(s.wall) = Month(now + off)
                                    /\ Whole(s) <=> up
<1>1. /\ time \in Nat /\ offset \in Int /\ calm \in Nat /\ Settle \in Nat /\ calm <= Settle + 1
      /\ \A s \in All : s.real \in Nat /\ s.wall \in Int /\ s.real <= time
  BY RowsArePast, Times, AwsClockAssumption DEF AwsInv, AwsTypeOK
<1>2. \A s \in All : True(s, time, calm, offset, apiUp)
  BY DEF YoungPollsAreTrue, Wall
<1>3. SUFFICES \A s \in All' : True(s, time', calm', offset', apiUp')
  BY DEF YoungPollsAreTrue, Wall
<1>4. CASE Tick
  <2>1. /\ time' = time + 1 /\ UNCHANGED <<offset, apiUp, cached, samples>>
        /\ Month(Wall + 1) # Month(Wall) => calm' = 0
        /\ calm' = 0 \/ calm' = Lesser(calm + 1, Settle + 1)
    BY <1>4 DEF Tick
  <2>2. ASSUME NEW s \in All, time' - s.real < calm'
        PROVE  s.wall - s.real = offset /\ Month(s.wall) = Month(time + 1 + offset) /\ (Whole(s) <=> apiUp)
    <3>1. calm' # 0
      BY <1>1, <2>1, <2>2
    <3>2. time - s.real < calm
      BY <1>1, <2>1, <2>2, <3>1 DEF Lesser
    <3>3. Month(time + 1 + offset) = Month(time + offset)
      <4>1. Wall + 1 = time + 1 + offset /\ Wall = time + offset
        BY <1>1 DEF Wall
      <4>2. QED BY <2>1, <3>1, <4>1
    <3>4. QED BY <1>2, <3>2, <3>3
  <2>3. QED BY <2>1, <2>2
<1>5. CASE Poll
  <2>1. /\ cached' \in Answers /\ UNCHANGED <<time, offset, apiUp, samples>>
        /\ Whole(cached') => apiUp
        /\ calm' = IF apiUp /\ ~ Whole(cached') THEN 0 ELSE calm
    BY <1>5 DEF Poll, world
  <2>2. cached'.real = time /\ cached'.wall = time + offset
    BY <2>1, AnswersAreSnapshots DEF AwsInv
  <2>3. True(cached', time, calm', offset, apiUp)
    <3>1. CASE apiUp /\ ~ Whole(cached')
      BY <1>1, <2>1, <2>2, <3>1
    <3>2. CASE ~ (apiUp /\ ~ Whole(cached'))
      BY <1>1, <2>1, <2>2, <3>2
    <3>3. QED BY <3>1, <3>2
  <2>4. \A s \in samples : True(s, time, calm', offset, apiUp)
    <3>1. calm' <= calm
      BY <1>1, <2>1
    <3>2. QED BY <1>1, <1>2, <2>1, <3>1
  <2>5. QED BY <2>1, <2>3, <2>4
<1>6. CASE ~ Tick /\ ~ Poll
  <2>1. All' \subseteq All
    BY <1>6, NoOtherRows
       DEF AwsInv, AwsNext, SetClock, ApiChange, StartCycle, CollectCached, Retain, Record,
           LoseBatch, Crash, Restart, world, process
  <2>2. time' = time /\ (calm' = 0 \/ (calm' <= calm /\ UNCHANGED <<offset, apiUp>>))
    BY <1>1, <1>6, AwsScheduleAssumption
       DEF AwsNext, SetClock, ApiChange, StartCycle, CollectCached, Retain, Record,
           LoseBatch, Lesser, Crash, Restart, world, process
  <2>3. calm' \in Int
    BY <1>1, <1>6, AwsScheduleAssumption
       DEF AwsNext, SetClock, ApiChange, StartCycle, CollectCached, Retain, Record,
           LoseBatch, Lesser, Crash, Restart, world, process
  <2>4. QED BY <1>1, <1>2, <2>1, <2>2, <2>3
<1>7. QED BY <1>4, <1>5, <1>6

\* Every cycle that nothing goes wrong in records a poll that is recent enough.
LEMMA ScheduleStep ==
    ASSUME AwsInv, Cadence, YoungPollsAreTrue, ScheduleKept, AwsNext
    PROVE  ScheduleKept'
<1> DEFINE G == Greater(Interval, MaxCycle)
<1> DEFINE Seen(rows, now, good, within) ==
             \/ good <= within
             \/ \E s \in rows : now - s.real <= within /\ \A t \in rows : t.real <= s.real
<1>1. /\ time \in Nat /\ offset \in Int /\ calm \in Nat /\ Settle \in Nat
      /\ sinceStart \in Nat /\ sinceStart <= G /\ sinceAttempt \in Nat /\ sinceAttempt <= AwsEvery
      /\ G \in Nat /\ MaxCycle <= G /\ AwsEvery \in Nat \ {0} /\ MaxCycle \in Nat
      /\ Settle = AwsEvery + G + MaxCycle
  BY Times, AwsScheduleAssumption, AwsClockAssumption
     DEF AwsInv, AwsTypeOK, Settle, CycleTime
<1>2. /\ \A s \in samples : s \in Snapshot /\ s.real \in Nat /\ s.wall \in Int /\ s.real <= time
      /\ cached # NoRow => cached.real \in Nat /\ cached.real <= time
  BY RowsArePast
<1>3. ASSUME NEW within \in Nat, NEW longer \in Nat, within <= longer,
             Seen(samples, time, calm, within)
      PROVE  Seen(samples, time, calm, longer)
  BY <1>1, <1>2, <1>3
<1>4. CASE Tick
  <2>1. /\ time' = time + 1 /\ UNCHANGED <<pc, cached, samples>>
        /\ pc # "down" => sinceStart + 1 = sinceStart'
        /\ sinceAttempt' = Lesser(sinceAttempt + 1, AwsEvery)
        /\ pc \in {"collect", "retain", "record"} => sinceStart + 1 <= MaxCycle
    BY <1>1, <1>4, AwsScheduleAssumption DEF Tick, Lesser, Greater
  <2>2. calm' \in Nat /\ calm' <= calm + 1 /\ (pc = "down" => calm' = 0)
    BY <1>1, <1>4 DEF Tick, Lesser
  <2>3. ASSUME NEW within \in Nat, Seen(samples, time, calm, within)
        PROVE  Seen(samples, time + 1, calm', within + 1)
    BY <1>1, <1>2, <2>2, <2>3
  <2>4. cached' # NoRow /\ sinceAttempt' < AwsEvery => time' - cached'.real <= sinceAttempt'
    BY <1>1, <1>2, <2>1 DEF Lesser, ScheduleKept
  <2>5. pc = "wait" => Seen(samples, time + 1, calm', sinceStart + 1 + AwsEvery)
    <3>1. pc = "wait" => Seen(samples, time, calm, sinceStart + AwsEvery)
      BY DEF ScheduleKept, PollSeen
    <3>2. /\ sinceStart + AwsEvery \in Nat
          /\ sinceStart + AwsEvery + 1 = sinceStart + 1 + AwsEvery
      BY <1>1
    <3> HIDE DEF Seen
    <3>3. QED BY <2>3, <3>1, <3>2
  <2>6. pc \in {"collect", "retain", "record"} =>
          Seen(samples, time + 1, calm', sinceStart + 1 + AwsEvery + G)
    <3>1. pc \in {"collect", "retain", "record"} =>
            Seen(samples, time, calm, sinceStart + AwsEvery + G)
      BY DEF ScheduleKept, PollSeen
    <3>2. /\ sinceStart + AwsEvery + G \in Nat
          /\ sinceStart + AwsEvery + G + 1 = sinceStart + 1 + AwsEvery + G
      BY <1>1
    <3> HIDE DEF Seen, G
    <3>3. QED BY <2>3, <3>1, <3>2
  <2>7. pc \in {"retain", "record"} => time' - cached'.real <= sinceStart' + AwsEvery
    <3>1. pc \in {"retain", "record"} =>
            cached # NoRow /\ time - cached.real <= sinceStart + AwsEvery
      BY DEF AwsInv, AwsTypeOK, ScheduleKept
    <3>2. QED BY <1>1, <1>2, <2>1, <3>1
  <2>8. CASE pc = "down"
    BY <2>1, <2>2, <2>4, <2>8 DEF ScheduleKept
  <2>9. CASE pc = "wait"
    <3>1. sinceStart' = sinceStart + 1
      BY <2>1, <2>9
    <3>2. PollSeen(sinceStart + AwsEvery)'
      BY <2>1, <2>5, <2>9, <3>1 DEF PollSeen
    <3>3. QED BY <2>1, <2>4, <2>9, <3>2 DEF ScheduleKept
  <2>10. CASE pc \in {"collect", "retain", "record"}
    <3>1. sinceStart' = sinceStart + 1 /\ sinceStart + 1 <= MaxCycle
      BY <2>1, <2>10
    <3>2. PollSeen(sinceStart + AwsEvery + Greater(Interval, MaxCycle))'
      BY <2>1, <2>6, <2>10, <3>1 DEF PollSeen
    <3>3. QED BY <2>1, <2>4, <2>7, <2>10, <3>1, <3>2 DEF ScheduleKept
  <2>11. QED
    BY <2>8, <2>9, <2>10 DEF AwsInv, AwsTypeOK
<1>5. CASE (\E jump \in Jumps : SetClock(jump)) \/ ApiChange
  <2>1. calm' = 0 /\ UNCHANGED <<pc, sinceStart, sinceAttempt, cached, time, samples>>
    BY <1>5 DEF SetClock, ApiChange, process
  <2>2. 0 <= sinceStart + AwsEvery /\ 0 <= sinceStart + AwsEvery + G
    BY <1>1
  <2>3. QED BY <2>1, <2>2 DEF ScheduleKept, PollSeen
<1>6. CASE StartCycle
  <2>1. /\ pc = "wait" /\ pc' = "collect" /\ sinceStart' = 0
        /\ UNCHANGED <<sinceAttempt, cached, time, samples, calm>>
    BY <1>6 DEF StartCycle, world
  <2>2. Seen(samples, time, calm, sinceStart + AwsEvery)
    BY <2>1 DEF ScheduleKept, PollSeen
  <2>3. Seen(samples, time, calm, 0 + AwsEvery + G)
    <3>1. /\ sinceStart + AwsEvery \in Nat /\ 0 + AwsEvery + G \in Nat
          /\ sinceStart + AwsEvery <= 0 + AwsEvery + G
      BY <1>1
    <3> HIDE DEF Seen, G
    <3>2. QED BY <1>3, <2>2, <3>1
  <2>4. QED BY <1>1, <2>1, <2>3 DEF ScheduleKept, PollSeen
<1>7. CASE CollectCached
  <2>1. /\ pc = "collect" /\ pc' = "retain" /\ cached # NoRow /\ sinceAttempt < AwsEvery
        /\ UNCHANGED <<sinceStart, sinceAttempt, cached, time, samples, calm>>
    BY <1>7 DEF CollectCached, world
  <2>2. time - cached.real <= sinceStart + AwsEvery
    <3>1. time - cached.real <= sinceAttempt
      BY <2>1 DEF ScheduleKept
    <3>2. QED BY <1>1, <1>2, <2>1, <3>1
  <2>3. QED BY <2>1, <2>2 DEF ScheduleKept, PollSeen
<1>8. CASE Poll
  <2>1. /\ pc = "collect" /\ pc' = "retain" /\ sinceAttempt' = 0 /\ cached'.real = time
        /\ UNCHANGED <<sinceStart, time, samples>> /\ calm' \in {0, calm}
    BY <1>8, AnswersAreSnapshots DEF Poll, world, AwsInv
  <2>2. time - time = 0 /\ 0 <= sinceStart + AwsEvery /\ 0 <= sinceStart + AwsEvery + G
    BY <1>1
  <2>3. QED BY <2>1, <2>2 DEF ScheduleKept, PollSeen
<1>9. CASE Retain
  <2>1. /\ pc = "retain" /\ pc' = "record" /\ samples' \in {samples, Kept}
        /\ UNCHANGED <<sinceStart, sinceAttempt, cached, time, calm>>
    BY <1>9 DEF Retain, world
  <2>2. sinceStart <= MaxCycle /\ Seen(samples, time, calm, sinceStart + AwsEvery + G)
    BY <2>1 DEF ScheduleKept, PollSeen
  <2>3. /\ sinceStart + AwsEvery + G <= Settle /\ Settle <= RawKeep /\ RawKeep \in Nat
    BY <1>1, <2>2, AwsScheduleAssumption DEF Cadence
  <2>4. ASSUME NEW s \in samples, time - s.real <= sinceStart + AwsEvery + G,
               ~ (calm <= sinceStart + AwsEvery + G)
        PROVE  s \in Kept
    <3>1. time - s.real < calm
      BY <1>1, <1>2, <2>4
    <3>2. s.wall - s.real = offset
      BY <3>1 DEF YoungPollsAreTrue
    <3>3. Wall - s.wall <= RawKeep
      BY <1>1, <1>2, <2>3, <2>4, <3>2 DEF Wall
    <3>4. QED BY <3>3 DEF Kept
  <2>5. Seen(samples', time, calm, sinceStart + AwsEvery + G)
    BY <2>1, <2>2, <2>4 DEF Kept
  <2>6. QED BY <2>1, <2>2, <2>5 DEF ScheduleKept, PollSeen
<1>10. CASE Record
  <2>1. /\ pc = "record" /\ pc' = "wait" /\ samples' = Findable(samples \cup {cached})
        /\ UNCHANGED <<sinceStart, sinceAttempt, cached, time, calm>>
        /\ cached # NoRow
    BY <1>10 DEF Record, world, AwsInv, AwsTypeOK
  <2>2. \A t \in samples \cup {cached} : t.real <= cached.real
    BY <1>2, <2>1 DEF AwsInv, Known, InOrder
  <2>3. cached \in samples' /\ \A t \in samples' : t.real <= cached.real
    <3>1. \A t \in samples \cup {cached} : ~ Covers(t, cached, "health")
      BY <1>2, <2>1, <2>2 DEF Covers
    <3>2. QED BY <2>1, <2>2, <3>1 DEF Findable
  <2>4. time - cached.real <= sinceStart + AwsEvery
    BY <2>1 DEF ScheduleKept
  <2>5. QED BY <2>1, <2>3, <2>4 DEF ScheduleKept, PollSeen
<1>11. CASE LoseBatch
  <2>1. /\ pc' = "wait" /\ calm' <= sinceStart + AwsEvery
        /\ UNCHANGED <<sinceStart, sinceAttempt, cached, time, samples>>
    BY <1>1, <1>11 DEF LoseBatch, Lesser, world
  <2>2. QED BY <2>1 DEF ScheduleKept, PollSeen
<1>12. CASE Crash \/ Restart
  <2>1. calm' = 0 /\ pc' \in {"down", "wait"} /\ 0 <= sinceStart' + AwsEvery
    BY <1>1, <1>12, AwsScheduleAssumption DEF Crash, Restart
  <2>2. cached' # NoRow /\ sinceAttempt' < AwsEvery => time' - cached'.real <= sinceAttempt'
    BY <1>12 DEF Crash, Restart, world, ScheduleKept
  <2>3. QED BY <2>1, <2>2 DEF ScheduleKept, PollSeen
<1>13. QED
  BY <1>4, <1>5, <1>6, <1>7, <1>8, <1>9, <1>10, <1>11, <1>12 DEF AwsNext

LEMMA AwsInit_Inv == AwsInit => AwsInv
<1> SUFFICES ASSUME AwsInit PROVE AwsInv
  OBVIOUS
<1>1. AwsTypeOK /\ Known(samples) /\ cached = NoRow
  BY Times, AwsScheduleAssumption, AwsClockAssumption, AwsOutcomeAssumption
     DEF AwsInit, AwsTypeOK, Known, Distinct, InOrder
<1>2. YoungPollsAreTrue
  BY DEF AwsInit, YoungPollsAreTrue
<1>3. ScheduleKept
  BY AwsScheduleAssumption DEF AwsInit, ScheduleKept, PollSeen
<1>4. QED BY <1>1, <1>2, <1>3 DEF AwsInv

LEMMA AwsStep ==
    ASSUME AwsInv, [AwsNext]_awsVars
    PROVE  AwsInv'
<1>1. CASE UNCHANGED awsVars
  BY <1>1 DEF awsVars, process, world, AwsInv, AwsTypeOK, Known, Distinct, InOrder,
     YoungPollsAreTrue, ScheduleKept, PollSeen, Wall
<1>2. CASE AwsNext
  <2>t. AwsTypeOK /\ AwsTypeOK'
    BY AwsTypeStep DEF AwsInv
  <2>1. Known(samples)'
    <3>1. samples \subseteq Snapshot /\ Known(samples)
      BY DEF AwsInv, AwsTypeOK
    <3>2. QED BY <1>2, <2>t, <3>1, NoOtherRows, RowsStayKnown DEF Known, Distinct, InOrder
  <2>2. (cached # NoRow => cached.real + sinceAttempt <= time
                           /\ cached.wall - cached.real \in Offsets)'
    <3>1. CASE Poll
      BY <3>1, <2>t, AnswersAreSnapshots DEF Poll, world, AwsTypeOK, Snapshot
    <3>2. CASE ~ Poll
      BY <1>2, <3>2, <2>t, AwsScheduleAssumption
         DEF AwsNext, AwsInv, AwsTypeOK, Snapshot, Tick, Lesser, SetClock, ApiChange, StartCycle,
             CollectCached, Retain, Record, LoseBatch, Crash, Restart, process, world
    <3>3. QED BY <3>1, <3>2
  <2>3. Cadence => YoungPollsAreTrue' /\ ScheduleKept'
    BY <1>2, YoungPollsStep, ScheduleStep DEF AwsInv
  <2>4. QED BY <2>t, <2>1, <2>2, <2>3 DEF AwsInv, Cadence
<1>3. QED BY <1>1, <1>2

(***************************************************************************)
(* No two polls of the collector share a moment, none is recorded after a  *)
(* later one, and a process that polls anew comes after all rows there are *)
(* (LightsailCollector.collect, record_batch): what the timestamps of rows *)
(* and MAX(id) are relied on for.                                          *)
(***************************************************************************)
THEOREM AwsInvariant == AwsSpec => []AwsInv
<1>1. AwsInit => AwsInv
  BY AwsInit_Inv
<1>2. AwsInv /\ [AwsNext]_awsVars => AwsInv'
  BY AwsStep
<1>3. QED BY <1>1, <1>2, PTL DEF AwsSpec

\* The row that is newer than all others is the one that is found.
LEMMA LatestIsNewest ==
    ASSUME NEW rows, rows \subseteq Snapshot, NEW s \in rows,
           \A t \in rows : t.real <= s.real,
           \A t \in rows : t.real = s.real => t = s
    PROVE  Latest(rows) = s
<1> DEFINE newest == {r \in rows : \A t \in rows : t.real <= r.real}
<1>1. s \in newest
  OBVIOUS
<1>2. \A r \in newest : r = s
  <2>1. \A r \in rows : r.real \in Nat
    BY DEF Snapshot
  <2>2. QED BY <2>1
<1>3. newest = {s}
  BY <1>1, <1>2
<1>4. QED BY <1>3 DEF Latest

LEMMA CalmFollowsApi == AwsInv => FiguresFollowApi
<1> SUFFICES ASSUME AwsInv, Cadence, calm > Settle
             PROVE  "used" \in Shown(LatestGauges, LatestHealth, Wall) <=> apiUp
  BY DEF FiguresFollowApi
<1> DEFINE G == Greater(Interval, MaxCycle)
<1>1. /\ time \in Nat /\ offset \in Int /\ calm \in Nat /\ Settle \in Nat
      /\ sinceStart \in Nat /\ sinceStart <= G
      /\ G \in Nat /\ MaxCycle <= G /\ AwsEvery \in Nat \ {0} /\ MaxCycle \in Nat
      /\ Settle = AwsEvery + G + MaxCycle
      /\ Settle <= FreshFor /\ FreshFor \in Nat /\ Skew \in Nat /\ apiUp \in BOOLEAN
  BY Times, AwsScheduleAssumption, AwsClockAssumption
     DEF AwsInv, AwsTypeOK, Settle, CycleTime, Cadence
<1>2. \A s \in samples : s \in Snapshot /\ s.real \in Nat /\ s.wall \in Int /\ s.real <= time
  BY RowsArePast
<1>3. YoungPollsAreTrue /\ ScheduleKept
  BY DEF AwsInv
<1>4. PICK s \in samples : time - s.real <= Settle /\ \A t \in samples : t.real <= s.real
  <2>1. CASE pc = "wait"
    BY <1>1, <1>2, <1>3, <2>1 DEF ScheduleKept, PollSeen
  <2>2. CASE pc \in {"collect", "retain", "record"}
    BY <1>1, <1>2, <1>3, <2>2 DEF ScheduleKept, PollSeen
  <2>3. CASE pc = "down"
    BY <1>1, <1>3, <2>3 DEF ScheduleKept
  <2>4. QED BY <2>1, <2>2, <2>3 DEF AwsInv, AwsTypeOK
<1>5. s.wall - s.real = offset /\ Month(s.wall) = Month(Wall) /\ (Whole(s) <=> apiUp)
  <2>1. time - s.real < calm
    BY <1>1, <1>2, <1>4
  <2>2. QED BY <1>3, <2>1 DEF YoungPollsAreTrue
<1>6. /\ \A t \in samples : t.real = s.real => t = s
      /\ s # NoRow
  BY <1>2, AwsNoRowAssumption DEF AwsInv, Known, Distinct
<1>7. LatestHealth = s
  BY <1>2, <1>4, <1>6, LatestIsNewest DEF LatestHealth
<1>8. Current(s, Wall) <=> s.vouches
  <2>1. Wall - s.wall = time - s.real /\ s.wall - Wall = s.real - time
    BY <1>1, <1>2, <1>4, <1>5 DEF Wall
  <2>2. Wall - s.wall <= FreshFor /\ s.wall - Wall <= Skew
    BY <1>1, <1>2, <1>4, <2>1
  <2>3. QED BY <1>5, <1>6, <2>2 DEF Current
<1>9. Attested(LatestGauges["used"], s) <=> "used" \in s.gauges
  <2> DEFINE having == {t \in samples : "used" \in t.gauges}
  <2>1. LatestGauges["used"] = Latest(having)
    BY DEF LatestGauges, Names
  <2>2. CASE "used" \in s.gauges
    <3>1. Latest(having) = s
      BY <1>2, <1>4, <1>6, <2>2, LatestIsNewest
    <3>2. QED BY <1>6, <2>1, <2>2, <3>1 DEF Attested, SameStamp
  <2>3. CASE "used" \notin s.gauges
    <3>1. Latest(having) = NoRow \/ Latest(having) \in having
      BY LatestIsRow
    <3>2. QED BY <1>6, <2>1, <2>3, <3>1 DEF Attested, SameStamp
  <2>4. QED BY <2>2, <2>3
<1>10. QED BY <1>5, <1>7, <1>8, <1>9 DEF Shown, Whole, Names

(***************************************************************************)
(* If nothing has gone wrong for the time it takes to poll and record      *)
(* again (collect, collect_once, record_batch), the month's usage is shown *)
(* exactly if Lightsail answers, for any schedule that fits its freshness. *)
(***************************************************************************)
THEOREM UsageFollowsApi == AwsSpec => []FiguresFollowApi
<1>1. QED BY CalmFollowsApi, AwsInvariant, PTL

----------------------------------------------------------------------------
(* The page. *)

LEMMA PageStep ==
    ASSUME PageInv, [Next]_vars
    PROVE  PageInv'
<1>1. CASE UNCHANGED vars
  <2>1. AwsInv'
    BY <1>1, AwsStep DEF vars, PageInv
  <2>2. QED
    BY <1>1, <2>1 DEF vars, page, awsVars, process, world, PageInv, PageTypeOK, Held,
                      Known, Distinct, InOrder
<1>2. CASE AwsNext /\ UNCHANGED page
  <2>1. AwsInv /\ AwsInv'
    BY <1>2, AwsStep DEF PageInv
  <2>2. Held' = Held /\ PageTypeOK'
    BY <1>2 DEF page, Held, PageInv, PageTypeOK
  <2>3. Known(samples \cup Held)'
    <3>1. samples \cup Held \subseteq Snapshot
      BY DEF PageInv, PageTypeOK, Held, AwsInv, AwsTypeOK
    <3>2. (samples \cup Held)' \subseteq (samples \cup Held) \cup ({cached} \ {NoRow})
      BY <1>2, <2>1, <2>2, NoOtherRows DEF AwsInv
    <3>3. \A after : after \subseteq (samples \cup Held) \cup ({cached} \ {NoRow})
                       => Known(after)'
      BY <1>2, <2>1, <3>1, RowsStayKnown DEF PageInv
    <3>4. QED BY <3>2, <3>3 DEF Known, Distinct, InOrder
  <2>4. time <= time'
    BY <1>2, <2>1 DEF AwsInv, AwsTypeOK, AwsNext, Tick, SetClock, ApiChange, StartCycle,
             CollectCached, Poll, Retain, Record, LoseBatch, Crash, Restart, world
  <2>5. QED
    BY <1>2, <2>1, <2>2, <2>3, <2>4 DEF PageInv, PageTypeOK, AwsInv, AwsTypeOK, page
<1>3. CASE PageNext /\ UNCHANGED awsVars
  <2>1. AwsInv'
    BY <1>3, AwsStep DEF PageInv
  <2>2. /\ PageTypeOK'
        /\ (samples \cup Held)' \subseteq samples \cup Held
        /\ (step # "idle" => asked.real <= time /\ asked.now - asked.real \in Offsets)'
    <3>0. /\ samples \subseteq Snapshot /\ samples' = samples
          /\ time \in Nat /\ offset \in Offsets /\ Wall = time + offset /\ Wall \in Int
          /\ time' = time
      BY <1>3, AwsClockAssumption DEF PageInv, AwsInv, AwsTypeOK, awsVars, world, Wall
    <3>1. CASE ReadNow
      BY <3>0, <3>1 DEF ReadNow, PageInv, PageTypeOK, Held
    <3>2. CASE ReadGauges
      <4>1. \A name \in Names : LatestGauges[name] \in samples \cup {NoRow}
        BY LatestIsRow DEF LatestGauges
      <4>2. LatestGauges \in [Names -> Snapshot \cup {NoRow}]
        BY <3>0, <4>1 DEF LatestGauges
      <4>3. QED BY <3>0, <3>2, <4>1, <4>2 DEF ReadGauges, PageInv, PageTypeOK, Held
    <3>3. CASE ReadHealth
      <4>1. LatestHealth \in samples \cup {NoRow}
        BY LatestIsRow DEF LatestHealth
      <4>2. QED BY <3>0, <3>3, <4>1 DEF ReadHealth, PageInv, PageTypeOK, Held
    <3>4. CASE Answer
      BY <3>0, <3>4 DEF Answer, PageInv, PageTypeOK, Held, NoGauges
    <3>5. QED BY <1>3, <3>1, <3>2, <3>3, <3>4 DEF PageNext
  <2>3. Known(samples \cup Held)'
    BY <1>3, <2>2 DEF PageInv, Known, Distinct, InOrder, awsVars, process, world
  <2>4. QED BY <2>1, <2>2, <2>3 DEF PageInv
<1>4. QED BY <1>1, <1>2, <1>3 DEF Next

(***************************************************************************)
(* Type correctness of the page, and: what a request holds stays known by  *)
(* its moment however the collector goes on between its SELECTs.           *)
(***************************************************************************)
THEOREM PageInvariant == Spec => []PageInv
<1>1. Init => PageInv
  BY AwsInit_Inv DEF Init, AwsInit, PageInit, PageInv, PageTypeOK, NoGauges, Held,
     Known, Distinct, InOrder
<1>2. PageInv /\ [Next]_vars => PageInv'
  BY PageStep
<1>3. QED BY <1>1, <1>2, PTL DEF Spec

(***************************************************************************)
(* The figures of a page (overview) are of one poll, that of the health    *)
(* row they are shown under.                                               *)
(***************************************************************************)
THEOREM PagesMixNoPolls == Spec => []OnePoll
<1>1. PageInv => OnePoll
  <2> SUFFICES ASSUME PageInv, NEW name \in OnPage PROVE gauges[name] = health
    BY DEF OnePoll
  <2>1. /\ name \in Names /\ health # NoRow
        /\ gauges[name] # NoRow /\ gauges[name].real = health.real
    BY DEF OnPage, Shown, Current, Attested, SameStamp
  <2>2. gauges[name] \in Held /\ health \in Held
    BY <2>1 DEF Held
  <2>3. QED BY <2>1, <2>2 DEF PageInv, Known, Distinct
<1>2. QED BY <1>1, PageInvariant, PTL

(***************************************************************************)
(* A figure of a page was read no longer before the page is asked for than *)
(* a reading is fresh, nor longer after it than the skew, up to what the   *)
(* clock was set by, whatever was recorded again, lost or restarted.       *)
(***************************************************************************)
THEOREM FiguresAreFresh == Spec => []FreshFigures
<1>1. PageInv /\ OnePoll => FreshFigures
  <2> SUFFICES ASSUME PageInv, OnePoll, step = "shown", NEW name \in OnPage
               PROVE  /\ asked.real - gauges[name].real <= FreshFor + 2 * MaxOffset
                      /\ gauges[name].real - asked.real <= Skew + 2 * MaxOffset
    BY DEF FreshFigures
  <2>1. gauges[name] = health /\ Current(health, asked.now) /\ health # NoRow
    BY DEF OnePoll, OnPage, Shown, Current
  <2>2. health \in Held
    BY <2>1 DEF Held
  <2>3. health.wall \in Int /\ health.real \in Nat /\ health.wall - health.real \in Offsets
    BY <2>1, <2>2 DEF PageInv, PageTypeOK, Known, Snapshot
  <2>4. asked.now \in Int /\ asked.real \in Nat /\ asked.now - asked.real \in Offsets
    BY DEF PageInv, PageTypeOK
  <2>5. QED
    BY <2>1, <2>3, <2>4, Times, AwsClockAssumption, AwsScheduleAssumption DEF Current
<1>2. QED BY <1>1, PageInvariant, PagesMixNoPolls, PTL
=============================================================================
