------------------------------- MODULE Overview -------------------------------
(***************************************************************************)
(* From what every component of the host really does, over the health rows *)
(* that collect_once (collector.py) records about it, to the status and    *)
(* the alerts of the dashboard (web.py), and to those of the store's own   *)
(* overview (store.py).                                                    *)
(*                                                                         *)
(* Time goes by in intervals: a cycle takes none of it, and clocks are not *)
(* set (CollectorCycle has both).                                          *)
(***************************************************************************)
EXTENDS Exposure, PathProbes

CONSTANTS
    Reporters,  \* of "host", "xray", "aws": they report in every cycle
    Inventories,\* what `ss` may print
    Answers,    \* what DNS may answer: sequences of entries
    Reactions,  \* of the addresses it names: sequences of reactions
    ProbeEvery, \* probe_minimum_interval_seconds
    FreshFor,   \* fresh_for_seconds
    PruneEvery, \* retention_prune_interval_seconds
    RawKeep,    \* raw_retention_days
    StaleAfter, \* 300 seconds
    Day,        \* 86400 seconds
    Cap,        \* bound: the age at which everything is over
    Changes,    \* bound: how often anything happens to the host
    Fails, Raises, \* of the listing of sockets
    NoRow

\* A line of `ss`; "unix" stands for any socket that is none of the two.
Line == [transport : {"tcp", "udp", "unix"}, address : Address, port : Nat]

ASSUME InputsAssumption ==
    /\ Fails # Raises /\ {Fails, Raises} \cap Inventories = {}
    /\ Reporters \subseteq {"host", "xray", "aws"}
    /\ \A lines \in Inventories : lines \in Seq(Line) /\ Len(lines) <= MaxLines
    /\ Answers \subseteq Seq(Entry)
    /\ \A reactions \in Reactions :
          /\ reactions \in Seq(Reaction)
          /\ \A entries \in Answers : Globals(entries) <= Len(reactions)

ASSUME TimesAssumption ==
    /\ ProbeEvery \in Nat \ {0} /\ PruneEvery \in Nat \ {0} /\ Changes \in Nat
    /\ FreshFor \in Nat /\ RawKeep \in Nat /\ StaleAfter \in Nat /\ Day \in Nat
    \* fresh_for_seconds is twice the interval of the probes; that interval is
    \* at most a day (config.py), and rows are kept for a day at least.
    /\ ProbeEvery - 1 <= FreshFor /\ ProbeEvery - 1 <= RawKeep
    /\ Cap \in Nat /\ \A limit \in {FreshFor, RawKeep, StaleAfter} : Cap > limit

ProbePaths == {"path_public_dns", "path_cloudflare_xray", "path_xray_egress"}
Paths == ListenerPaths \cup ProbePaths
Component == Reporters \cup Paths \cup {"network_exposure", "retention"}

HealthState == {"healthy", "degraded", "unavailable", "disabled"}

\* Of details_json, `required` and whether unexpected_public_ports is empty.
Row == [state : HealthState, required : BOOLEAN, unexpected : BOOLEAN, age : 0..Cap]
ASSUME NoRowAssumption == NoRow \notin Row

Switches == Reporters \cup {"network", "probes", "warp"}

VARIABLES
    on,         \* the configuration: which switches are on
    reports,    \* what each reporter would report
    inventory,  \* what `ss` prints, or Fails or Raises
    answer, reactions, trace, \* what the probes would find
    retainable, \* whether retention works
    rows,       \* the newest row of each component in health_samples
    sinceProbe, \* intervals since the last attempt, ProbeEvery when due
    sincePrune,
    calm,       \* ghost: intervals since anything happened
    changes     \* ghost: how often

host == <<on, reports, inventory, answer, reactions, trace, retainable>>
vars == <<host, rows, sinceProbe, sincePrune, calm, changes>>

----------------------------------------------------------------------------
(* The rows of one cycle. *)

Report(state, required) ==
    [state |-> state, required |-> required, unexpected |-> FALSE, age |-> 0]

Verdict(ok) == Report(IF ok THEN "healthy" ELSE "unavailable", TRUE)

\* The row of a component that always reports, unless it is switched off.
ReporterRow(r) == Report(IF on[r] THEN reports[r] ELSE "disabled", FALSE)

Listeners == IF inventory = Fails THEN {} ELSE Parsed(inventory)

ExposureRow(listeners) ==
    IF ~ on["network"] THEN Report("disabled", FALSE)
    ELSE IF inventory \in {Fails, Raises} THEN Report("unavailable", FALSE)
    ELSE [Report(ExposureState(listeners), FALSE)
            EXCEPT !.unexpected = Unexpected(listeners) # {}]

\* A listing that fails reports no listener; one that raises, no path at all.
ListenerRow(path, listeners) ==
    IF ~ on["network"] \/ inventory = Raises THEN NoRow
    ELSE Report(ListenerPathState(path, listeners), TRUE)

Upgraded == DnsOk(answer) /\ WebSocketOk(answer, reactions)

ProbeDue == on["probes"] /\ sinceProbe = ProbeEvery

\* What a probe finds.
\* Mutant of PathVerdict: a path that is switched off is required.
PathVerdictRequired(path) ==
    CASE path = "path_public_dns" -> Verdict(DnsOk(answer))
      [] path = "path_cloudflare_xray" -> Verdict(Upgraded)
      [] path = "path_xray_egress" ->
           Report(IF ~ on["warp"] THEN "disabled"
                  ELSE IF WarpOk(trace) THEN "healthy" ELSE "unavailable", TRUE)

PathVerdict(path) ==
    CASE path = "path_public_dns" -> Verdict(DnsOk(answer))
      [] path = "path_cloudflare_xray" -> Verdict(Upgraded)
      [] path = "path_xray_egress" ->
           IF on["warp"] THEN Verdict(WarpOk(trace)) ELSE Report("disabled", FALSE)

\* A probe that raises makes all paths unavailable, switched off or not.
ProbeRow(path, raises) ==
    IF ~ on["probes"] THEN Report("disabled", FALSE)
    ELSE IF ~ ProbeDue THEN NoRow
    ELSE IF raises THEN Report("unavailable", TRUE)
    ELSE PathVerdict(path)

RetentionRow ==
    IF sincePrune < PruneEvery THEN NoRow
    ELSE Report(IF retainable THEN "healthy" ELSE "unavailable", FALSE)

Collected(raises) ==
    LET listeners == Listeners
    IN  [c \in Component |->
            CASE c \in Reporters -> ReporterRow(c)
              [] c = "network_exposure" -> ExposureRow(listeners)
              [] c \in ListenerPaths -> ListenerRow(c, listeners)
              [] c \in ProbePaths -> ProbeRow(c, raises)
              [] c = "retention" -> RetentionRow]

Older(row) ==
    IF row = NoRow THEN NoRow
    ELSE [row EXCEPT !.age = IF @ < Cap THEN @ + 1 ELSE Cap]

Aged == [c \in Component |-> Older(rows[c])]

\* DELETE FROM health_samples WHERE observed_at < the cutoff
Pruned(old) ==
    [c \in Component |-> IF old[c] # NoRow /\ old[c].age > RawKeep THEN NoRow ELSE old[c]]

\* What apply_retention leaves of the rows before the batch is recorded.
Retained == IF sincePrune = PruneEvery /\ retainable THEN Pruned(Aged) ELSE Aged

\* The newest rows once the batch is recorded.
Recording(raises) ==
    LET new == Collected(raises)
        old == Retained
    IN  [c \in Component |-> IF new[c] = NoRow THEN old[c] ELSE new[c]]

----------------------------------------------------------------------------

Lesser(a, b) == IF a < b THEN a ELSE b

\* From the last disturbance until every component has reported again.
Settle == IF ProbeEvery < PruneEvery THEN PruneEvery ELSE ProbeEvery

\* And until no row of a component that reports no more is kept.
Linger == Settle + RawKeep

Calmer == calm' = Lesser(calm + 1, Linger)
Disturbed == calm' = 0 /\ changes < Changes /\ changes' = changes + 1

Init ==
    /\ on = [s \in Switches |-> TRUE]
    /\ reports = [r \in Reporters |-> "healthy"]
    /\ inventory \in Inventories /\ answer \in Answers
    /\ reactions \in Reactions /\ trace = "on"
    /\ retainable = TRUE
    /\ rows = [c \in Component |-> NoRow]
    /\ sinceProbe = ProbeEvery /\ sincePrune = PruneEvery
    /\ calm = 0 /\ changes = 0

\* The schedules after a cycle: the attempts count, whatever came of them.
Scheduled ==
    /\ sinceProbe' = IF ProbeDue THEN 1 ELSE Lesser(sinceProbe + 1, ProbeEvery)
    /\ sincePrune' = IF sincePrune = PruneEvery THEN 1 ELSE sincePrune + 1

\* An interval goes by, and collect_once collects and records.
Cycle ==
    /\ rows' = Recording(FALSE)
    /\ Scheduled
    /\ Calmer
    /\ UNCHANGED <<host, changes>>

\* The same with a prober that raises.
CycleRaising ==
    /\ ProbeDue
    /\ rows' = Recording(TRUE)
    /\ Scheduled
    /\ Disturbed
    /\ UNCHANGED host

\* record_batch fails: retention has run, and the schedules count.
CycleLost ==
    /\ rows' = Retained
    /\ Scheduled
    /\ Disturbed
    /\ UNCHANGED host

\* An interval without a collector; when it is started all is due.
Down ==
    /\ rows' = Aged
    /\ sinceProbe' = ProbeEvery /\ sincePrune' = PruneEvery
    /\ Disturbed
    /\ UNCHANGED host

\* The collector is restarted with another configuration.
Reconfigure(switch) ==
    /\ on' = [on EXCEPT ![switch] = ~ @]
    /\ sinceProbe' = ProbeEvery /\ sincePrune' = PruneEvery
    /\ Disturbed
    /\ UNCHANGED <<reports, inventory, answer, reactions, trace, retainable, rows>>

\* Something of the host starts or stops to work.
HostChange ==
    /\ \/ /\ \E r \in Reporters, s \in {"healthy", "degraded", "unavailable"} :
                reports' = [reports EXCEPT ![r] = s]
          /\ UNCHANGED <<inventory, answer, reactions, trace, retainable>>
       \/ /\ inventory' \in Inventories \cup {Fails, Raises}
          /\ UNCHANGED <<reports, answer, reactions, trace, retainable>>
       \/ /\ answer' \in Answers /\ reactions' \in Reactions /\ trace' \in {"on", "off"}
          /\ UNCHANGED <<reports, inventory, retainable>>
       \/ /\ retainable' = ~ retainable
          /\ UNCHANGED <<reports, inventory, answer, reactions, trace>>
    /\ Disturbed
    /\ UNCHANGED <<on, rows, sinceProbe, sincePrune>>

Next ==
    \/ Cycle \/ CycleRaising \/ CycleLost \/ Down
    \/ \E switch \in Switches : Reconfigure(switch)
    \/ HostChange

Spec == Init /\ [][Next]_vars

----------------------------------------------------------------------------
(* What the dashboard makes of the rows. *)

Recorded == {c \in Component : rows[c] # NoRow}

\* A listener is no synthetic evidence, and never too old.
Expired(c) == c \in ProbePaths /\ rows[c].required /\ rows[c].age > FreshFor

\* _required_path_effective_state
EffectiveState(c) == IF Expired(c) THEN "unavailable" ELSE rows[c].state

Active == {c \in Recorded : rows[c].state # "disabled" /\ (c \in Paths => rows[c].required)}

\* _overall_health
Overall ==
    LET states == {EffectiveState(c) : c \in Active}
    IN  IF states = {} THEN "unknown"
        ELSE IF "unavailable" \in states THEN "critical"
        ELSE IF "degraded" \in states THEN "degraded" ELSE "healthy"

\* The newest sample is more than five minutes old.
Stale == Recorded # {} /\ \A c \in Recorded : rows[c].age > StaleAfter

Drifted == "network_exposure" \in Recorded /\ rows["network_exposure"].unexpected

\* How long ago an interface of the host last had a fault; or never, the last.
FaultAges == 0..(Day + StaleAfter + 1)

\* Whether the faults of the last day are any.
WebFaults(fault) == fault <= Day

\* The status on the page.
WebStatus(faults) ==
    IF Stale \/ Drifted THEN "critical"
    ELSE IF faults /\ Overall = "healthy" THEN "degraded" ELSE Overall

\* The components with an alert of their own.
\* Mutant of Alarming: a path alarms by the state it was recorded with.
AlarmingAsRecorded ==
    {c \in Recorded :
        /\ rows[c].state \notin {"healthy", "disabled"}
        /\ IF c \in Paths THEN rows[c].required ELSE ~ (c = "network_exposure" /\ Drifted)}

Alarming ==
    {c \in Recorded :
        IF c \in Paths THEN rows[c].required /\ EffectiveState(c) \notin {"healthy", "disabled"}
        ELSE rows[c].state \notin {"healthy", "disabled"} /\ ~ (c = "network_exposure" /\ Drifted)}

AwsOff == "aws" \notin Recorded \/ rows["aws"].state = "disabled"

\* The severities among the alerts on the page.
Severities(faults) ==
    {severity \in {"info", "warning", "critical"} :
        CASE severity = "critical" ->
               Stale \/ Drifted \/ \E c \in Alarming : EffectiveState(c) = "unavailable"
          [] severity = "warning" ->
               Recorded = {} \/ faults \/ \E c \in Alarming : EffectiveState(c) # "unavailable"
          [] severity = "info" -> AwsOff}

\* The status of a path on the page.
PathShown(c) ==
    CASE Expired(c) -> "stale"
      [] rows[c].state = "disabled" -> "disabled"
      [] rows[c].state = "healthy" -> IF c \in ProbePaths THEN "verified" ELSE "observed"
      [] rows[c].state = "degraded" -> "wrong_exposure"
      [] OTHER -> IF c \in ProbePaths THEN "failed" ELSE "missing"

\* Whether those of the day before collected_at are, which is the newest row's.
StoreFaults(fault) ==
    Recorded # {} /\ \A c \in Recorded : fault <= Day + rows[c].age

\* Mutant of StoreStatus: a path counts as it was recorded.
StoreStatusAsRecorded(faults) ==
    LET states == {rows[c].state : c \in Active}
        judged == IF "unavailable" \in states THEN "critical"
                  ELSE IF \E state \in states : state # "healthy" THEN "degraded"
                  ELSE IF states # {} THEN "healthy"
                  ELSE IF Recorded # {} THEN "disabled" ELSE "none"
    IN  IF Drifted THEN "critical"
        ELSE IF faults /\ judged = "healthy" THEN "degraded" ELSE judged

\* The status that MetricStore.overview computes; "none" is none in the result.
StoreStatus(faults) ==
    LET states == {EffectiveState(c) : c \in Active}
        judged == IF "unavailable" \in states THEN "critical"
                  ELSE IF \E state \in states : state # "healthy" THEN "degraded"
                  ELSE IF states # {} THEN "healthy"
                  ELSE IF Recorded # {} THEN "disabled" ELSE "none"
    IN  IF Drifted THEN "critical"
        ELSE IF faults /\ judged = "healthy" THEN "degraded" ELSE judged

----------------------------------------------------------------------------
(* Properties. *)

\* Rows are what some collector may have reported.
RowOK(c, row) ==
    /\ row \in Row
    /\ row.required => c \in Paths /\ row.state # "disabled"
    /\ c \in ListenerPaths => row.required
    /\ row.unexpected => c = "network_exposure" /\ row.state = "degraded"

TypeOK ==
    /\ on \in [Switches -> BOOLEAN]
    /\ reports \in [Reporters -> HealthState \ {"disabled"}]
    /\ inventory \in Inventories \cup {Fails, Raises}
    /\ answer \in Answers /\ reactions \in Reactions /\ trace \in {"on", "off"}
    /\ retainable \in BOOLEAN
    /\ DOMAIN rows = Component
    /\ \A c \in Component : rows[c] # NoRow => RowOK(c, rows[c])
    /\ sinceProbe \in 1..ProbeEvery /\ sincePrune \in 1..PruneEvery
    /\ calm \in 0..Linger /\ changes \in 0..Changes

(***************************************************************************)
(* Where the newest rows come from since the last disturbance.  Every      *)
(* cycle has reported what is not on a schedule of its own, and a probe or *)
(* a retention as long ago as the schedule says has reported on the host   *)
(* as it is.                                                               *)
(***************************************************************************)
CycleSeen ==
    calm > 0 =>
        /\ \A r \in Reporters : rows[r] = ReporterRow(r)
        /\ rows["network_exposure"] = ExposureRow(Listeners)
        /\ on["network"] /\ inventory # Raises =>
              \A p \in ListenerPaths : rows[p] = ListenerRow(p, Listeners)
        /\ ~ on["probes"] => \A p \in ProbePaths : rows[p] = Report("disabled", FALSE)

ProbesSeen ==
    on["probes"] /\ calm >= sinceProbe =>
        \A p \in ProbePaths : rows[p] = [PathVerdict(p) EXCEPT !.age = sinceProbe - 1]

RetentionSeen ==
    calm >= sincePrune =>
        /\ rows["retention"] # NoRow
        /\ rows["retention"].state = IF retainable THEN "healthy" ELSE "unavailable"

\* The rows of a network collector that was switched off grow older, and the
\* last retention has left none that was too old for it.
LeftoversAge ==
    ~ on["network"] =>
        \A p \in ListenerPaths : rows[p] # NoRow =>
            /\ rows[p].age >= Lesser(calm, Cap)
            /\ retainable /\ calm >= sincePrune => calm <= RawKeep + sincePrune - 1

(***************************************************************************)
(* The types, what rows may look like (nothing that is switched off is     *)
(* required, and only a degraded inventory tells of unexpected ports), and *)
(* how they come to be what is true of the host.                           *)
(***************************************************************************)
OverviewInv == TypeOK /\ CycleSeen /\ ProbesSeen /\ RetentionSeen /\ LeftoversAge

(***************************************************************************)
(* The status and the alerts of a page are computed in two loops over the  *)
(* same rows (web.py), and say the same: it is critical exactly if there   *)
(* is a critical alert, degraded exactly if the worst alert is a warning   *)
(* (and anything is watched), and with a healthy status every path that is *)
(* required is shown as observed or freshly verified.                      *)
(***************************************************************************)
StatusExplained ==
    \A faults \in BOOLEAN :
        LET status == WebStatus(faults)
            severities == Severities(faults)
        IN  /\ status = "critical" <=> "critical" \in severities
            /\ status = "degraded" <=>
                  Active # {} /\ "warning" \in severities /\ "critical" \notin severities
            /\ status = "healthy" =>
                  \A c \in Recorded \cap Paths :
                      rows[c].required => PathShown(c) \in {"verified", "observed"}

(***************************************************************************)
(* The overview of the store and that of the dashboard, two programs over  *)
(* the same rows, agree on the status, as long as the rows are not stale,  *)
(* which the store does not look at.  They count the faults of different   *)
(* days, the one before its newest row, the other before now: the last     *)
(* fault may leave the store's status degraded when the page's is healthy  *)
(* again, but not for longer than it takes the rows to get stale.          *)
(***************************************************************************)
OnPage(status) == IF status \in {"disabled", "none"} THEN "unknown" ELSE status

StoreAgrees ==
    ~ Stale =>
        \A fault \in FaultAges :
            LET web == WebStatus(WebFaults(fault))
                store == StoreStatus(StoreFaults(fault))
            IN  \/ web = OnPage(store)
                \/ /\ web = "healthy" /\ store = "degraded"
                   /\ Day < fault /\ fault <= Day + StaleAfter

----------------------------------------------------------------------------

\* What is listening, for a reader of the lines of `ss`.
Bound(transport, port, exposure) ==
    \E i \in DOMAIN inventory :
        /\ inventory[i].transport = transport /\ inventory[i].port = port
        /\ ExposureOf(inventory[i].address) = exposure

Anywhere(transport, port) ==
    \E exposure \in {"public", "loopback", "link_local"} : Bound(transport, port, exposure)

\* Some public port is not one of the policy.
Uninvited ==
    \E i \in DOMAIN inventory :
        /\ inventory[i].address \in {"wildcard", "other", "name"}
        /\ inventory[i].port \in Ports
        /\ \/ inventory[i].transport = "tcp" /\ inventory[i].port \notin PublicTcp
           \/ inventory[i].transport = "udp" /\ inventory[i].port \notin PublicUdp \cup {68, 546}

\* The first address that does not refuse takes the upgrade.
Reachable ==
    \E i \in 1..Globals(answer) :
        reactions[i] = "accepts" /\ \A j \in 1..(i - 1) : reactions[j] = "refuses"

\* Whether something that is switched on is not there at all...
Broken ==
    \/ \E r \in Reporters : on[r] /\ reports[r] = "unavailable"
    \/ on["network"] /\ \/ inventory \in {Fails, Raises}
                        \/ Uninvited
                        \/ \E p \in ListenerPaths :
                              ~ Anywhere(ListenerPath[p].transport, ListenerPath[p].port)
    \/ on["probes"] /\ \/ ~ Reachable
                       \/ on["warp"] /\ trace # "on"
    \/ ~ retainable

\* ... or not as it should be.
Impaired ==
    \/ \E r \in Reporters : on[r] /\ reports[r] = "degraded"
    \/ on["network"] /\ \E l \in Expected \cup {ListenerPath[p] : p \in ListenerPaths} :
                           ~ Bound(l.transport, l.port, l.exposure)

Truth == IF Broken THEN "critical" ELSE IF Impaired THEN "degraded" ELSE "healthy"

\* Rows of paths that are no longer watched.
Leftover == ~ on["network"] /\ \E p \in ListenerPaths : rows[p] # NoRow

(***************************************************************************)
(* Whatever came before (lost batches, probers that raised, downtime,      *)
(* another configuration), once nothing has happened for Settle intervals  *)
(* the status is what is true of the host and its configuration, except    *)
(* that the paths of a network collector that was switched off go on being *)
(* required for as long as their rows are kept, which is not longer than   *)
(* Linger if retention works.                                              *)
(***************************************************************************)
StatusTrue ==
    /\ calm >= Settle /\ ~ Leftover => WebStatus(FALSE) = Truth
    /\ calm >= Linger /\ retainable => ~ Leftover
=============================================================================
