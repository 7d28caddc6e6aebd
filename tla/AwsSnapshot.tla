----------------------------- MODULE AwsSnapshot -----------------------------
(***************************************************************************)
(* The Lightsail figures from the control plane to the database: the rate  *)
(* limited, cached poll of LightsailCollector.collect (aws_lightsail.py),  *)
(* the part of collect_once that hands it on (collector.py), the rows it   *)
(* leaves in gauge_samples and health_samples, and the two tests a row has *)
(* to pass to be shown (store.py): a current health row has to vouch for   *)
(* it, and it has to carry that row's timestamp.                           *)
(*                                                                         *)
(* A snapshot is known by the moment of its poll, on the wall clock, which *)
(* the program stores, and in real time, which it does not know.  Polls    *)
(* are at least the five seconds of a restart apart; that somebody sets    *)
(* the clock back by exactly the time between two polls, to the            *)
(* millisecond, is left out (SameStamp).                                   *)
(***************************************************************************)
EXTENDS Integers

CONSTANTS
    Interval,    \* interval_seconds
    AwsEvery,    \* aws_minimum_interval_seconds
    MinFresh,    \* _MIN_FRESH_FOR_SECONDS
    MaxFresh,    \* _MAX_FRESH_FOR_SECONDS
    RawKeep,     \* raw_retention_days
    Skew,        \* 60 seconds: how far ahead a stamp may be
    MaxCycle,    \* the longest one collect_once may take
    MonthLength, \* a month
    Jumps,       \* bound: by how much the wall clock is set at once
    MaxOffset,   \* bound: how far the wall clock is ever set away
    MaxTime,     \* bound: the last tick
    Outcomes,    \* bound: what a poll may read
    Operators,   \* bound: what the operator may have configured
    NoRow        \* a row that is not there

ASSUME AwsScheduleAssumption ==
    /\ Interval \in Nat \ {0} /\ AwsEvery \in Nat \ {0}
    /\ MinFresh \in Nat /\ MaxFresh \in Nat /\ MinFresh <= MaxFresh
    /\ RawKeep \in Nat /\ Skew \in Nat /\ MaxCycle \in Nat
    /\ MonthLength \in Nat \ {0}
ASSUME AwsClockAssumption ==
    /\ Jumps \subseteq Int /\ MaxOffset \in Nat
    /\ MaxTime \in Nat /\ MaxOffset <= MaxTime
ASSUME AwsOutcomeAssumption ==
    /\ Outcomes \subseteq
          [read : SUBSET {"in", "out"}, vouches : BOOLEAN, allocated : BOOLEAN]
    /\ Operators \subseteq BOOLEAN

VARIABLES
    time,         \* real time, and the monotonic clock
    offset,       \* the wall clock, less real time
    apiUp,        \* whether Lightsail answers for a running instance
    operator,     \* whether the operator has configured the plan allocation
    pc,           \* the next step of the cycle; "wait" between, or "down"
    sinceStart,   \* since the cycle began, or since the process ended
    sinceAttempt, \* since _last_attempt, AwsEvery when due
    cached,       \* _last_snapshot
    samples,      \* the snapshots in gauge_samples and health_samples
    calm          \* ghost: how long nothing has gone wrong

process == <<operator, pc, sinceStart, sinceAttempt, cached>>
world == <<time, offset, apiUp>>
awsVars == <<process, world, samples, calm>>

Lesser(a, b) == IF a < b THEN a ELSE b
Greater(a, b) == IF a < b THEN b ELSE a

\* _fresh_for_seconds, which every health row carries.
FreshFor == Greater(MinFresh, Lesser(MaxFresh, 2 * AwsEvery))

\* From one cycle to the recording of the next; and to that of a newer poll.
CycleTime == Greater(Interval, MaxCycle) + MaxCycle
Settle == AwsEvery + CycleTime

Names == {"in", "out", "used", "plan"}
Offsets == -MaxOffset..MaxOffset

(***************************************************************************)
(* LightsailSnapshot: the gauges that were read; whether the health state  *)
(* is healthy or degraded, which nothing below tells apart, or is neither; *)
(* and plan_allocation_provenance.                                         *)
(***************************************************************************)
Snapshot ==
    [wall : Int, real : Nat, gauges : SUBSET Names, vouches : BOOLEAN,
     provenance : {"none", "aws", "operator"}]

ASSUME AwsNoRowAssumption == NoRow \notin Snapshot

AwsTypeOK ==
    /\ time \in 0..MaxTime /\ offset \in Offsets
    /\ apiUp \in BOOLEAN /\ operator \in BOOLEAN
    /\ pc \in {"down", "collect", "retain", "record", "wait"}
    /\ sinceStart \in 0..Greater(Interval, MaxCycle)
    /\ sinceAttempt \in 0..AwsEvery
    /\ cached \in Snapshot \cup {NoRow}
    /\ pc \in {"retain", "record"} => cached # NoRow
    /\ samples \subseteq Snapshot
    /\ calm \in 0..(Settle + 1)

AwsInit ==
    /\ time = MaxOffset /\ offset = 0
    /\ apiUp \in BOOLEAN /\ operator \in Operators
    /\ pc = "wait" /\ sinceStart = Interval /\ sinceAttempt = AwsEvery
    /\ cached = NoRow
    /\ samples = {}
    /\ calm = 0

----------------------------------------------------------------------------
(* Time. *)

\* time.time()
Wall == time + offset

\* The month of a timestamp, by its first instant: _month_start.
Month(wall) == MonthLength * (wall \div MonthLength)

\* A tick that begins a month disturbs: its figures have yet to be asked for.
Tick ==
    /\ time < MaxTime
    /\ \/ pc = "down"
       \/ pc = "wait" /\ sinceStart < Interval
       \/ pc \in {"collect", "retain", "record"} /\ sinceStart < MaxCycle
    /\ time' = time + 1
    /\ sinceStart' = Lesser(sinceStart + 1, Greater(Interval, MaxCycle))
    /\ sinceAttempt' = Lesser(sinceAttempt + 1, AwsEvery)
    /\ calm' = IF pc = "down" \/ Month(Wall + 1) # Month(Wall) THEN 0
               ELSE Lesser(calm + 1, Settle + 1)
    /\ UNCHANGED <<offset, apiUp, operator, pc, cached, samples>>

\* NTP, or somebody, sets the wall clock.
SetClock(jump) ==
    /\ offset + jump \in Offsets
    /\ offset' = offset + jump
    /\ calm' = 0
    /\ UNCHANGED <<process, time, apiUp, samples>>

\* Lightsail, the network, the credentials or the instance fail, or come back.
ApiChange ==
    /\ apiUp' = ~ apiUp
    /\ calm' = 0
    /\ UNCHANGED <<process, time, offset, samples>>

----------------------------------------------------------------------------
(* One cycle. *)

StartCycle ==
    /\ pc = "wait"
    /\ sinceStart >= Interval
    /\ pc' = "collect"
    /\ sinceStart' = 0
    /\ UNCHANGED <<operator, sinceAttempt, cached, world, samples, calm>>

(***************************************************************************)
(* What a poll makes of its answers: each of the eight calls is tried on   *)
(* its own, and an answer may lack its values.  The sum of both directions *)
(* is made only of two values of this poll.  The operator's allocation     *)
(* comes before that of the instance, and is there even without a client.  *)
(***************************************************************************)
Provenance(outcome) ==
    IF operator THEN "operator" ELSE IF outcome.allocated THEN "aws" ELSE "none"

Polled ==
    { [wall |-> Wall, real |-> time, vouches |-> o.vouches,
       provenance |-> Provenance(o),
       gauges |-> o.read \cup (IF o.read = {"in", "out"} THEN {"used"} ELSE {})
                         \cup (IF Provenance(o) = "none" THEN {} ELSE {"plan"})] :
        o \in Outcomes }

\* Mutant of Answers: a cached reading is given the time of the cycle.
AnswersRestamped ==
    Polled \cup (IF cached = NoRow THEN {} ELSE {[cached EXCEPT !.wall = Wall]})

Answers == Polled

Whole(snapshot) == "used" \in snapshot.gauges /\ snapshot.vouches

\* Mutant of CollectCached: between two polls there is nothing to record.
CollectNothing ==
    /\ pc = "collect"
    /\ cached # NoRow
    /\ sinceAttempt < AwsEvery
    /\ pc' = "wait"
    /\ UNCHANGED <<operator, sinceStart, sinceAttempt, cached, world, samples, calm>>

\* The minimum interval is not over: the last snapshot once more.
CollectCached ==
    /\ pc = "collect"
    /\ cached # NoRow
    /\ sinceAttempt < AwsEvery
    /\ pc' = "retain"
    /\ UNCHANGED <<operator, sinceStart, sinceAttempt, cached, world, samples, calm>>

\* The attempt is noted, then the clock is read, then Lightsail is asked.
Poll ==
    /\ pc = "collect"
    /\ cached = NoRow \/ sinceAttempt = AwsEvery
    /\ pc' = "retain"
    /\ sinceAttempt' = 0
    /\ cached' \in Answers
    /\ Whole(cached') => apiUp
    /\ calm' = IF apiUp /\ ~ Whole(cached') THEN 0 ELSE calm
    /\ UNCHANGED <<operator, sinceStart, world, samples>>

\* DELETE FROM gauge_samples, and from health_samples, WHERE observed_at < cutoff
Kept == {s \in samples : Wall - s.wall <= RawKeep}

\* Only some cycles apply retention, and it may fail.
Retain ==
    /\ pc = "retain"
    /\ pc' = "record"
    /\ samples' \in {samples, Kept}
    /\ UNCHANGED <<operator, sinceStart, sinceAttempt, cached, world, calm>>

(***************************************************************************)
(* Rows that no SELECT can find again are left out: every one of the       *)
(* snapshot's rows has a newer one, which pruning will not delete before.  *)
(* (With a clock that was set back it may, and then bring to light the     *)
(* older row.)                                                             *)
(***************************************************************************)
Covers(t, s, name) ==
    t.real > s.real /\ t.wall >= s.wall /\ (name = "health" \/ name \in t.gauges)

Findable(rows) ==
    {s \in rows : \E name \in s.gauges \cup {"health"} :
                     \A t \in rows : ~ Covers(t, s, name)}

\* record_batch: gauges and health in one transaction.
Record ==
    /\ pc = "record"
    /\ pc' = "wait"
    /\ samples' = Findable(samples \cup {cached})
    /\ UNCHANGED <<operator, sinceStart, sinceAttempt, cached, world, calm>>

(***************************************************************************)
(* Something in the batch is rejected, or the database is.  The cache is   *)
(* kept, so that the next cycle records the same snapshot: what is lost is *)
(* a cycle, not a poll.                                                    *)
(***************************************************************************)
LoseBatch ==
    /\ pc = "record"
    /\ pc' = "wait"
    /\ calm' = Lesser(calm, AwsEvery)
    /\ UNCHANGED <<operator, sinceStart, sinceAttempt, cached, world, samples>>

\* The process ends, and with it its cache.
Crash ==
    /\ pc # "down"
    /\ pc' = "down"
    /\ sinceStart' = 0 /\ sinceAttempt' = AwsEvery
    /\ cached' = NoRow
    /\ calm' = 0
    /\ UNCHANGED <<operator, world, samples>>

\* systemd waits (RestartSec=5s); the configuration may have been changed.
Restart ==
    /\ pc = "down"
    /\ sinceStart > 0
    /\ pc' = "wait"
    /\ sinceStart' = Interval
    /\ operator' \in Operators
    /\ calm' = 0
    /\ UNCHANGED <<sinceAttempt, cached, world, samples>>

AwsNext ==
    \/ Tick
    \/ \E jump \in Jumps : SetClock(jump)
    \/ ApiChange
    \/ StartCycle \/ CollectCached \/ Poll \/ Retain \/ Record
    \/ LoseBatch \/ Crash \/ Restart

AwsSpec == AwsInit /\ [][AwsNext]_awsVars

----------------------------------------------------------------------------
(* What the dashboard shows of the rows it has read. *)

(***************************************************************************)
(* SELECT ... JOIN (SELECT MAX(id) ...): rows are inserted in the order of *)
(* their polls (AwsInv), so that the newest row is that of the last poll.  *)
(***************************************************************************)
Latest(rows) ==
    LET newest == {s \in rows : \A t \in rows : t.real <= s.real}
    IN  IF newest = {} THEN NoRow ELSE CHOOSE s \in newest : TRUE

LatestGauges == [name \in Names |-> Latest({s \in samples : name \in s.gauges})]
LatestHealth == Latest(samples)

\* _is_current_aws_snapshot
Current(health, now) ==
    /\ health # NoRow
    /\ health.vouches
    /\ now - health.wall <= FreshFor
    /\ health.wall - now <= Skew
    /\ Month(health.wall) = Month(now)

\* Mutant of SameStamp: timestamps within one freshness window are the same.
SameWindow(s, t) == s.wall - t.wall <= FreshFor /\ t.wall - s.wall <= FreshFor

\* abs(sample[0] - observed_at) < 0.001
SameStamp(s, t) == s.wall = t.wall /\ s.real = t.real

\* _attested_aws_gauge
Attested(gauge, health) == gauge # NoRow /\ SameStamp(gauge, health)

\* The names of the AWS figures on the page.
Shown(gauges, health, now) ==
    {name \in Names :
        /\ Current(health, now)
        /\ Attested(gauges[name], health)
        /\ name = "plan" => health.provenance # "none"}

----------------------------------------------------------------------------
(* Properties. *)

(***************************************************************************)
(* The times of the configuration leave room for a poll and its recording  *)
(* while the last one is still fresh, and not yet pruned.                  *)
(***************************************************************************)
Cadence == Settle <= FreshFor /\ Settle <= RawKeep

(***************************************************************************)
(* If nothing has gone wrong, and no month has begun, for the time it      *)
(* takes to poll and record again, the month's usage is shown exactly if   *)
(* Lightsail answers: neither the rate limit, a cached failure, a batch    *)
(* that was lost with an attempt already spent, pruning nor a clock that   *)
(* was set hides it longer or shows old figures through an outage.         *)
(***************************************************************************)
FiguresFollowApi ==
    (Cadence /\ calm > Settle)
        => (("used" \in Shown(LatestGauges, LatestHealth, Wall)) <=> apiUp)

(***************************************************************************)
(* Why rows can be told apart by their timestamps and ordered by their     *)
(* ids: no two polls share a moment, none is recorded after a later one,   *)
(* and a process that polls anew comes after all that is recorded.         *)
(***************************************************************************)
Distinct(rows) ==
    \A s, t \in rows \cup ({cached} \ {NoRow}) : s.real = t.real => s = t

InOrder(rows) ==
    /\ cached # NoRow => \A s \in rows : s.real <= cached.real
    /\ cached = NoRow =>
          \A s \in rows : s.real < time \/ (s.real = time /\ pc = "down" /\ sinceStart = 0)

Known(rows) ==
    /\ Distinct(rows)
    /\ InOrder(rows)
    /\ \A s \in rows : s.wall - s.real \in Offsets

(***************************************************************************)
(* What was polled since the last thing went wrong tells whether Lightsail *)
(* answers, and is of this month by a clock that is still the clock.       *)
(***************************************************************************)
YoungPollsAreTrue ==
    \A s \in samples \cup ({cached} \ {NoRow}) :
        time - s.real < calm =>
            /\ s.wall - s.real = offset
            /\ Month(s.wall) = Month(Wall)
            /\ Whole(s) <=> apiUp

\* Something went wrong within this time, or the newest row was polled within it.
PollSeen(within) ==
    \/ calm <= within
    \/ \E s \in samples : time - s.real <= within /\ \A t \in samples : t.real <= s.real

(***************************************************************************)
(* Between cycles the newest row is of the last poll, or of one before if  *)
(* a batch was lost, which sets calm back to the time between two polls;   *)
(* what is about to be recorded is no older.                               *)
(***************************************************************************)
ScheduleKept ==
    /\ pc = "down" => calm = 0
    /\ cached # NoRow /\ sinceAttempt < AwsEvery => time - cached.real <= sinceAttempt
    /\ pc = "wait" => PollSeen(sinceStart + AwsEvery)
    /\ pc \in {"collect", "retain", "record"} =>
          sinceStart <= MaxCycle
            /\ PollSeen(sinceStart + AwsEvery + Greater(Interval, MaxCycle))
    /\ pc \in {"retain", "record"} => time - cached.real <= sinceStart + AwsEvery

AwsInv ==
    /\ AwsTypeOK
    /\ cached # NoRow =>
          cached.real + sinceAttempt <= time /\ cached.wall - cached.real \in Offsets
    /\ Known(samples)
    /\ Cadence => YoungPollsAreTrue /\ ScheduleKept
=============================================================================
