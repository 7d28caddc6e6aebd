------------------------------ MODULE Deployment ------------------------------
(***************************************************************************)
(* The deployment transaction of the monitor (deploy/transaction.sh with   *)
(* backup.sh, install.sh, verify.sh and rollback.sh) and the manual        *)
(* rollback, on one host, while services crash, Xray restarts, any command *)
(* fails, the scripts are killed and the host loses power.                 *)
(*                                                                         *)
(* The scripts hold one flock while they run: there is one job at a time.  *)
(* Every command of a script that changes the host is an action; the ones  *)
(* that only look are guards, or reasons to fail.                          *)
(***************************************************************************)
EXTENDS Naturals

CONSTANT Revisions  \* the commits that are ever deployed

ASSUME NameAssumption ==
    {"none", "torn", "inactive", "restarting"} \cap Revisions = {}

VARIABLES
    pc,        \* the next command of the script; "idle" when there is none
    job,       \* what the script works on: its arguments and shell variables
    releases,  \* /opt/aws-ops-monitor/releases
    current,   \* the link /opt/aws-ops-monitor/current
    secret,    \* xray-user-hash.key of the collector, web-password of web
    unit,      \* the release each unit file in /etc/systemd/system is from
    prior,     \* /var/lib/aws-ops-monitor/previous-release
    enabled,   \* which services start with the host
    running,   \* the release each service runs, or how it does not
    database,  \* whether metrics.sqlite3 exists
    xrayMoved, \* Xray is not as it was when the transaction began
    result,    \* ghost: how the last job ended
    verified,  \* ghost: the releases verify.sh has ever found good
    orderly    \* ghost: nothing was killed and no roll back has failed

disk == <<releases, current, secret, unit, prior, enabled, database>>
ghosts == <<result, verified, orderly>>
vars == <<pc, job, disk, running, xrayMoved, ghosts>>

Services == {"collector", "web"}
Active(s) == running[s] \in Revisions

Backup ==
    [revision : Revisions \cup {"none"}, prior : Revisions \cup {"none"},
     enabled : [Services -> BOOLEAN], active : [Services -> BOOLEAN]]
Nothing == [revision |-> "none", prior |-> "none",
            enabled |-> [s \in Services |-> FALSE], active |-> [s \in Services |-> FALSE]]
Job == [kind : {"none", "deploy", "restore", "rollback"},
        target : Revisions \cup {"none"}, backup : Backup]
NoJob == [kind |-> "none", target |-> "none", backup |-> Nothing]

DeploySteps == {"install", "secret_collector", "secret_web", "unit_collector", "unit_web", "prior",
    "switch", "enable", "restart_collector", "database", "restart_web", "verify", "continuity"}
RollbackSteps == {"rb_stop", "rb_database", "rb_switch", "rb_unit_collector", "rb_unit_web",
    "rb_prior", "rb_enable_collector", "rb_enable_web", "rb_start_collector",
    "rb_start_web", "rb_check"}
\* Between these commands the host is not to run anything.
Stopped == RollbackSteps \ {"rb_stop", "rb_start_collector", "rb_start_web", "rb_check"}

TypeOK ==
    /\ pc \in {"idle", "backup", "rescue", "offline"} \cup DeploySteps \cup RollbackSteps
    /\ job \in Job
    /\ pc # "idle" => job.target \in Revisions
    /\ releases \subseteq Revisions
    /\ current \in Revisions \cup {"none"}
    /\ secret \in [Services -> {"absent", "empty", "good"}]
    /\ unit \in [Services -> Revisions \cup {"none"}]
    /\ prior \in Revisions \cup {"none", "torn"}
    /\ enabled \in [Services -> BOOLEAN]
    /\ running \in [Services -> Revisions \cup {"inactive", "restarting"}]
    /\ database \in BOOLEAN
    /\ xrayMoved \in BOOLEAN
    /\ result \in {"none", "done", "restored", "offline", "stuck", "back",
                   "refused", "failed", "killed"}
    /\ verified \subseteq Revisions
    /\ orderly \in BOOLEAN

\* A host the monitor was never installed on.
Init ==
    /\ pc = "idle" /\ job = NoJob
    /\ releases = {} /\ current = "none" /\ prior = "none"
    /\ secret = [s \in Services |-> "absent"]
    /\ unit = [s \in Services |-> "none"]
    /\ enabled = [s \in Services |-> FALSE]
    /\ running = [s \in Services |-> "inactive"]
    /\ database = FALSE /\ xrayMoved = FALSE
    /\ result = "none" /\ verified = {} /\ orderly = TRUE

----------------------------------------------------------------------------
(***************************************************************************)
(* systemd.  Starting web starts the collector it Requires; stopping or    *)
(* restarting the collector does the same to a web that runs.  ExecStart   *)
(* and PYTHONPATH go through the link: a service runs the release the link *)
(* leads to when it starts, and ends again if its secret is empty.         *)
(***************************************************************************)
Usable(s) == current # "none" /\ secret[s] = "good"
Started(s) == IF Usable(s) THEN current ELSE "restarting"

StartUnit(s) ==
    [t \in Services |-> IF (t = s \/ s = "web") /\ ~ Active(t) THEN Started(t) ELSE running[t]]

RestartUnit(s) ==
    [t \in Services |->
        IF t = s \/ (IF s = "web" THEN ~ Active(t) ELSE Active(t)) THEN Started(t) ELSE running[t]]

StopUnits == [s \in Services |-> "inactive"]

\* What comes up with the host.
Booted ==
    [s \in Services |->
        IF (enabled[s] \/ (s = "collector" /\ enabled["web"])) /\ unit[s] # "none"
        THEN Started(s) ELSE "inactive"]

\* A service ends with a failure; Restart=on-failure waits five seconds.
ServiceFails(s) ==
    /\ Active(s)
    /\ running' = [running EXCEPT ![s] = "restarting"]
    /\ UNCHANGED <<pc, job, disk, xrayMoved, ghosts>>

\* The five seconds are over; a collector that is restarted may take web along.
ServiceRestarts(s) ==
    /\ running[s] = "restarting" /\ Usable(s)
    /\ running' \in {[running EXCEPT ![s] = current], RestartUnit(s)}
    /\ UNCHANGED <<pc, job, disk, xrayMoved, ghosts>>

\* MetricStore creates the database when a collector starts.
CreateDatabase ==
    /\ ~ database /\ Active("collector")
    /\ database' = TRUE
    /\ UNCHANGED <<pc, job, releases, current, secret, unit, prior, enabled, running, xrayMoved, ghosts>>

\* Somebody else restarts Xray; this matters while a transaction runs.
XrayRestart ==
    /\ pc \in DeploySteps \cup {"backup"} /\ ~ xrayMoved
    /\ xrayMoved' = TRUE
    /\ UNCHANGED <<pc, job, disk, running, ghosts>>

----------------------------------------------------------------------------
(* Jobs. *)

Go(from, to) == pc = from /\ pc' = to

End(how) ==
    /\ pc' = "idle" /\ job' = NoJob /\ xrayMoved' = FALSE
    /\ result' = how

\* transaction.sh is called, and Xray runs.
StartTransaction(revision) ==
    /\ Go("idle", "backup")
    /\ job' = [NoJob EXCEPT !.kind = "deploy", !.target = revision]
    /\ UNCHANGED <<disk, running, xrayMoved, ghosts>>

\* rollback.sh is called by hand, for the recorded previous release or for
\* another that is installed.
StartRollback(revision) ==
    /\ Go("idle", "rb_stop")
    /\ revision \in releases
    /\ job' = [NoJob EXCEPT !.kind = "rollback", !.target = revision]
    /\ orderly' = (orderly /\ revision \in verified)
    /\ UNCHANGED <<disk, running, xrayMoved, result, verified>>

(***************************************************************************)
(* backup.sh, before the trap is set: what is copied is what the roll back *)
(* restores.  A previous-release file that is no revision is refused.      *)
(***************************************************************************)
TakeBackup ==
    /\ prior # "torn"
    /\ Go("backup", "install")
    /\ job' = [job EXCEPT !.backup =
                 [revision |-> current, prior |-> prior, enabled |-> enabled,
                  active |-> [s \in Services |-> Active(s)]]]
    /\ UNCHANGED <<disk, running, xrayMoved, ghosts>>

RefuseBackup ==
    /\ pc = "backup"
    /\ End("refused")
    /\ UNCHANGED <<disk, running, verified, orderly>>

----------------------------------------------------------------------------
(* install.sh and verify.sh. *)

\* Mutant of InstallRelease: releases that are neither current nor new go.
PruneReleases ==
    /\ Go("install", "secret_collector")
    /\ releases' = (releases \cap {current}) \cup {job.target}
    /\ UNCHANGED <<job, current, secret, unit, prior, enabled, database, running, xrayMoved, ghosts>>

\* The release is unpacked next to its place, checked, and moved there whole.
InstallRelease ==
    /\ Go("install", "secret_collector")
    /\ releases' = releases \cup {job.target}
    /\ UNCHANGED <<job, current, secret, unit, prior, enabled, database, running, xrayMoved, ghosts>>

\* A secret that is there is kept, whatever is in it.
MakeSecret(s, from, to) ==
    /\ Go(from, to)
    /\ secret' = IF secret[s] = "absent" THEN [secret EXCEPT ![s] = "good"] ELSE secret
    /\ UNCHANGED <<job, releases, current, unit, prior, enabled, database, running, xrayMoved, ghosts>>

\* The shell has made the file, and openssl has not written into it.
HalfMade ==
    LET begun == {s \in Services :
            pc = (IF s = "web" THEN "secret_web" ELSE "secret_collector") /\ secret[s] = "absent"}
    IN  {secret} \cup {[secret EXCEPT ![s] = "empty"] : s \in begun}

InstallUnit(s, from, to) ==
    /\ Go(from, to)
    /\ unit' = [unit EXCEPT ![s] = job.target]
    /\ UNCHANGED <<job, releases, current, secret, prior, enabled, database, running, xrayMoved, ghosts>>

\* Mutant of RecordPrior: it is noted what is being installed.
RecordTarget ==
    /\ Go("prior", "switch")
    /\ prior' = job.target
    /\ UNCHANGED <<job, releases, current, secret, unit, enabled, database, running, xrayMoved, ghosts>>

RecordPrior ==
    /\ Go("prior", "switch")
    /\ prior' = IF current \notin {"none", job.target} THEN current ELSE prior
    /\ UNCHANGED <<job, releases, current, secret, unit, enabled, database, running, xrayMoved, ghosts>>

\* mv -Tf replaces the link in one step.
SwitchCurrent(from, to) ==
    /\ Go(from, to)
    /\ current' = job.target
    /\ UNCHANGED <<job, releases, secret, unit, prior, enabled, database, running, xrayMoved, ghosts>>

EnableServices ==
    /\ Go("enable", "restart_collector")
    /\ enabled' = [s \in Services |-> TRUE]
    /\ UNCHANGED <<job, releases, current, secret, unit, prior, database, running, xrayMoved, ghosts>>

\* Mutant of RestartCollector: a collector that runs is left running.
StartCollector ==
    /\ Go("restart_collector", "database")
    /\ running' = StartUnit("collector")
    /\ UNCHANGED <<job, disk, xrayMoved, ghosts>>

RestartCollector ==
    /\ Go("restart_collector", "database")
    /\ running' = RestartUnit("collector")
    /\ UNCHANGED <<job, disk, xrayMoved, ghosts>>

AwaitDatabase ==
    /\ Go("database", "restart_web")
    /\ database
    /\ UNCHANGED <<job, disk, running, xrayMoved, ghosts>>

RestartWeb ==
    /\ Go("restart_web", "verify")
    /\ running' = RestartUnit("web")
    /\ UNCHANGED <<job, disk, xrayMoved, ghosts>>

(***************************************************************************)
(* verify.sh: the link, the checksum, the unit files, both services, new   *)
(* samples and the dashboard.  It does not ask what the services run.      *)
(***************************************************************************)
Verify ==
    /\ Go("verify", "continuity")
    /\ current = job.target
    /\ \A s \in Services : unit[s] = job.target /\ Active(s)
    /\ verified' = verified \cup {job.target}
    /\ UNCHANGED <<job, disk, running, xrayMoved, result, orderly>>

Done ==
    /\ pc = "continuity"
    /\ ~ xrayMoved
    /\ End("done")
    /\ UNCHANGED <<disk, running, verified, orderly>>

(***************************************************************************)
(* Any command may fail, a restart also after it has stopped the service;  *)
(* set -e ends the script and the EXIT trap takes over.                    *)
(***************************************************************************)
DeployFails ==
    /\ pc \in DeploySteps
    /\ pc' = "rescue"
    /\ running' \in {running}
         \cup (IF pc = "restart_collector" THEN {StopUnits} ELSE {})
         \cup (IF pc = "restart_web" THEN {[running EXCEPT !["web"] = "inactive"]} ELSE {})
    /\ secret' \in HalfMade
    /\ UNCHANGED <<job, releases, current, unit, prior, enabled, database, xrayMoved, ghosts>>

\* rollback_on_failure: back to the release before, or off if there was none.
Rescue ==
    /\ pc = "rescue"
    /\ IF job.backup.revision \in releases
       THEN /\ pc' = "rb_stop"
            /\ job' = [job EXCEPT !.kind = "restore", !.target = job.backup.revision]
       ELSE /\ pc' = "offline"
            /\ job' = job
    /\ UNCHANGED <<disk, running, xrayMoved, ghosts>>

\* Mutant of ForceOffline: the services are stopped and stay enabled.
ForceStop ==
    /\ pc = "offline"
    /\ current' = IF job.kind = "deploy" THEN "none" ELSE current
    /\ running' = StopUnits
    /\ End("offline")
    /\ orderly' = (orderly /\ job.kind = "deploy")
    /\ UNCHANGED <<releases, secret, unit, prior, enabled, database, verified>>

(***************************************************************************)
(* systemctl disable --now, whose own failure is ignored; and without a    *)
(* release to go back to, the link is removed.                             *)
(***************************************************************************)
ForceOffline ==
    /\ pc = "offline"
    /\ current' = IF job.kind = "deploy" THEN "none" ELSE current
    /\ \/ /\ running' = StopUnits
          /\ enabled' = [s \in Services |-> FALSE]
          /\ End("offline")
          /\ orderly' = (orderly /\ job.kind = "deploy")
       \/ /\ End("stuck")
          /\ orderly' = FALSE
          /\ UNCHANGED <<running, enabled>>
    /\ UNCHANGED <<releases, secret, unit, prior, database, verified>>

----------------------------------------------------------------------------
(* rollback.sh. *)

\* Mutant of StopServices: a service that waits for its restart is left.
StopActive ==
    /\ Go("rb_stop", "rb_database")
    /\ running' = [s \in Services |-> IF Active(s) THEN "inactive" ELSE running[s]]
    /\ UNCHANGED <<job, disk, xrayMoved, ghosts>>

StopServices ==
    /\ Go("rb_stop", "rb_database")
    /\ running' = StopUnits
    /\ UNCHANGED <<job, disk, xrayMoved, ghosts>>

\* The database is replaced by the backup's, if that has one.
RestoreDatabase ==
    /\ Go("rb_database", "rb_switch")
    /\ UNCHANGED <<job, disk, running, xrayMoved, ghosts>>

\* Mutant of RestorePrior: the note install.sh made is kept.
KeepPrior ==
    /\ Go("rb_prior", "rb_enable_collector")
    /\ UNCHANGED <<job, disk, running, xrayMoved, ghosts>>

\* Only a roll back of a transaction has a state to restore.
RestorePrior ==
    /\ Go("rb_prior", "rb_enable_collector")
    /\ prior' = IF job.kind = "restore" THEN job.backup.prior ELSE prior
    /\ UNCHANGED <<job, releases, current, secret, unit, enabled, database, running, xrayMoved, ghosts>>

RestoreEnabled(s, from, to) ==
    /\ Go(from, to)
    /\ enabled' = IF job.kind = "restore"
                  THEN [enabled EXCEPT ![s] = job.backup.enabled[s]] ELSE enabled
    /\ UNCHANGED <<job, releases, current, secret, unit, prior, database, running, xrayMoved, ghosts>>

Wanted(s) == job.kind = "rollback" \/ job.backup.active[s]

RestoreRunning(s, from, to) ==
    /\ Go(from, to)
    /\ running' = IF Wanted(s) THEN StartUnit(s) ELSE running
    /\ UNCHANGED <<job, disk, xrayMoved, ghosts>>

\* A service that fails soon after its start has been active.
RolledBack ==
    /\ pc = "rb_check"
    /\ \A s \in Services : Wanted(s) => running[s] # "inactive"
    /\ End(IF job.kind = "restore" THEN "restored" ELSE "back")
    /\ UNCHANGED <<disk, running, verified, orderly>>

\* A command of rollback.sh fails: only a transaction has a trap for that.
RollbackFails ==
    /\ pc \in RollbackSteps
    /\ IF job.kind = "restore"
       THEN /\ pc' = "offline"
            /\ UNCHANGED <<job, xrayMoved, ghosts>>
       ELSE /\ End("failed")
            /\ orderly' = FALSE
            /\ UNCHANGED verified
    /\ running' \in {running} \cup (IF pc = "rb_stop" THEN {[running EXCEPT !["web"] = "inactive"]} ELSE {})
    /\ UNCHANGED disk

----------------------------------------------------------------------------
(* Scripts and hosts that end in the middle. *)

\* printf > previous-release, or install, has not written the file whole.
TornPrior ==
    IF \/ pc = "prior" /\ current \notin {"none", job.target}
       \/ pc = "rb_prior" /\ job.kind = "restore" /\ job.backup.prior # "none"
    THEN {prior, "torn"} ELSE {prior}

\* The scripts are killed with no time for a trap.
Kill ==
    /\ pc # "idle"
    /\ End("killed")
    /\ orderly' = FALSE
    /\ prior' \in TornPrior /\ secret' \in HalfMade
    /\ UNCHANGED <<releases, current, unit, enabled, database, running, verified>>

PowerFailure ==
    /\ prior' \in TornPrior /\ secret' \in HalfMade
    /\ running' = Booted
    /\ IF pc = "idle" THEN UNCHANGED <<pc, job, xrayMoved, result, orderly>>
       ELSE End("killed") /\ orderly' = FALSE
    /\ UNCHANGED <<releases, current, unit, enabled, database, verified>>

Deploy ==
    \/ InstallRelease
    \/ MakeSecret("collector", "secret_collector", "secret_web")
    \/ MakeSecret("web", "secret_web", "unit_collector")
    \/ InstallUnit("collector", "unit_collector", "unit_web")
    \/ InstallUnit("web", "unit_web", "prior")
    \/ RecordPrior \/ SwitchCurrent("switch", "enable") \/ EnableServices
    \/ RestartCollector \/ AwaitDatabase \/ RestartWeb \/ Verify \/ Done
    \/ DeployFails \/ Rescue \/ ForceOffline

Rollback ==
    \/ StopServices \/ RestoreDatabase
    \/ SwitchCurrent("rb_switch", "rb_unit_collector")
    \/ InstallUnit("collector", "rb_unit_collector", "rb_unit_web")
    \/ InstallUnit("web", "rb_unit_web", "rb_prior")
    \/ RestorePrior
    \/ RestoreEnabled("collector", "rb_enable_collector", "rb_enable_web")
    \/ RestoreEnabled("web", "rb_enable_web", "rb_start_collector")
    \/ RestoreRunning("collector", "rb_start_collector", "rb_start_web")
    \/ RestoreRunning("web", "rb_start_web", "rb_check")
    \/ RolledBack \/ RollbackFails

Environment ==
    \/ \E s \in Services : ServiceFails(s) \/ ServiceRestarts(s)
    \/ CreateDatabase \/ XrayRestart \/ Kill \/ PowerFailure

Next ==
    \/ \E revision \in Revisions : StartTransaction(revision) \/ StartRollback(revision)
    \/ TakeBackup \/ RefuseBackup
    \/ Deploy \/ Rollback \/ Environment

Spec == Init /\ [][Next]_vars

----------------------------------------------------------------------------
(* What the scripts promise. *)

(***************************************************************************)
(* "A failed monitor verification restores the prior monitor release or    *)
(* disables the first failed installation" (deploy/README.md): unless a    *)
(* script was killed or a roll back failed, a host no script works on runs *)
(* and is set up for one release that once was verified, and the release   *)
(* that rollback.sh would go back to was verified as well.                 *)
(***************************************************************************)
OnlyVerified ==
    orderly /\ pc = "idle" =>
        /\ current \in verified \cup {"none"}
        /\ prior \in verified \cup {"none"}
        /\ \A s \in Services :
              /\ running[s] \in {current, "inactive", "restarting"}
              /\ current # "none" => unit[s] = current

(***************************************************************************)
(* A transaction that reports success has left one release in place and    *)
(* running, from whatever state earlier kills and failures left.           *)
(***************************************************************************)
DoneMeansDone ==
    [][pc = "continuity" /\ result' = "done" /\ pc' = "idle" =>
         /\ current = job.target /\ job.target \in verified
         /\ \A s \in Services :
               /\ running[s] \in {job.target, "restarting"}
               /\ unit[s] = job.target /\ enabled[s]]_vars

(***************************************************************************)
(* A roll back that reports success in a failed transaction has restored   *)
(* what the backup found: the link, the note of the release before, what   *)
(* starts with the host, and what runs (with the collector that a running  *)
(* web requires).                                                          *)
(***************************************************************************)
RestoredMeansRestored ==
    [][job.kind = "restore" /\ result' = "restored" /\ pc' = "idle" =>
         /\ current = job.backup.revision
         /\ prior = job.backup.prior
         /\ enabled = job.backup.enabled
         /\ \A s \in Services :
              /\ unit[s] = current
              /\ running[s] \in {current, "restarting"} <=>
                   job.backup.active[s] \/ (s = "collector" /\ job.backup.active["web"])]_vars

(***************************************************************************)
(* From the stop of the services to their start, nothing runs: the files   *)
(* of the database are replaced and the release is switched under no       *)
(* collector, not even one that systemd had been about to restart.         *)
(***************************************************************************)
NothingRunsMeanwhile == pc \in Stopped => running = StopUnits

(***************************************************************************)
(* "both monitor services are disabled and the `current` link is removed,  *)
(* so no monitor listener remains": a failed first installation stays off, *)
(* also over a reboot, until the next job.                                 *)
(***************************************************************************)
FailedFirstStaysOff ==
    pc = "idle" /\ result = "offline" /\ current = "none" =>
        running = StopUnits /\ Booted = StopUnits

(***************************************************************************)
(* "On a failed first installation, generated users, root-only secrets ... *)
(* may remain for a resumable retry" (deploy/README.md): what remains does *)
(* not keep every retry from starting its services.                        *)
(***************************************************************************)
ResumableRetry ==
    pc = "idle" /\ result = "offline" /\ current = "none" =>
        \A s \in Services : secret[s] # "empty"

(***************************************************************************)
(* The strengthened invariant.  What the host uses and what a script works *)
(* on is installed whole, and each step of a deployment finds what the     *)
(* steps before it have done.                                              *)
(***************************************************************************)
Installed ==
    /\ current \in releases \cup {"none"}
    /\ prior \in releases \cup {"none", "torn"}
    /\ \A s \in Services : /\ unit[s] \in releases \cup {"none"}
                           /\ running[s] \in releases \cup {"inactive", "restarting"}
    /\ job.backup.revision \in releases \cup {"none"}
    /\ job.backup.prior \in releases \cup {"none"}
    /\ pc \in (DeploySteps \ {"install"}) \cup RollbackSteps => job.target \in releases

Restarted == {"database", "restart_web", "verify", "continuity"}
Switched == {"enable", "restart_collector"} \cup Restarted

Progress ==
    /\ pc \in {"unit_web", "prior", "switch"} \cup Switched => unit["collector"] = job.target
    /\ pc \in {"prior", "switch"} \cup Switched => unit["web"] = job.target
    /\ pc \in Switched => current = job.target
    /\ pc \in {"restart_collector"} \cup Restarted => \A s \in Services : enabled[s]
    /\ pc \in Restarted => running["collector"] \in {job.target, "restarting"}
    /\ pc \in {"verify", "continuity"} => running["web"] \in {job.target, "restarting"}
    /\ pc = "continuity" => job.target \in verified

\* The steps of a roll back after the unit files, and after what starts with the host.
Reenabled == {"rb_start_collector", "rb_start_web", "rb_check"}
Refitted == {"rb_prior", "rb_enable_collector", "rb_enable_web"} \cup Reenabled

RollbackProgress ==
    /\ pc \in {"rb_unit_collector", "rb_unit_web"} \cup Refitted => current = job.target
    /\ pc \in {"rb_unit_web"} \cup Refitted => unit["collector"] = job.target
    /\ pc \in Refitted => unit["web"] = job.target
    /\ pc \in Stopped \cup {"rb_start_collector"} => running = StopUnits
    /\ pc \in {"rb_start_web", "rb_check"} =>
          \A s \in Services : running[s] \in {job.target, "inactive", "restarting"}

(***************************************************************************)
(* A roll back of a failed transaction goes to the release of the backup,  *)
(* and has put back what its steps so far were to put back.                *)
(***************************************************************************)
Restoring ==
    job.kind = "restore" =>
        /\ pc \in RollbackSteps \cup {"offline"}
        /\ pc \in RollbackSteps => job.target = job.backup.revision
        /\ pc \in Refitted \ {"rb_prior"} => prior = job.backup.prior
        /\ pc \in {"rb_enable_web"} \cup Reenabled =>
              enabled["collector"] = job.backup.enabled["collector"]
        /\ pc \in Reenabled => enabled["web"] = job.backup.enabled["web"]
        /\ pc = "rb_start_web" =>
              /\ running["web"] = "inactive"
              /\ running["collector"] # "inactive" <=> job.backup.active["collector"]
        /\ pc = "rb_check" =>
              /\ running["web"] # "inactive" <=> job.backup.active["web"]
              /\ running["collector"] # "inactive" <=>
                    job.backup.active["collector"] \/ job.backup.active["web"]

\* What went offline with no link starts neither by itself nor with the host.
StaysOff ==
    pc = "idle" /\ result = "offline" /\ current = "none" =>
        running = StopUnits /\ \A s \in Services : ~ enabled[s]

(***************************************************************************)
(* While nothing was killed, whatever a job could go back to was verified: *)
(* the note of the release before, and what the backup found.  The link    *)
(* may lead to a release that was not verified from the switch of a        *)
(* deployment until the roll back has undone it, and at no other time.     *)
(***************************************************************************)
Trusted ==
    orderly =>
        /\ {prior, job.backup.revision, job.backup.prior} \subseteq verified \cup {"none"}
        /\ pc \in RollbackSteps => job.target \in verified
        /\ pc \in {"idle", "backup"} \cup (DeploySteps \ Switched) =>
              current \in verified \cup {"none"}
        /\ pc \in {"idle", "backup"} =>
              \A s \in Services :
                 /\ running[s] \in {current, "inactive", "restarting"}
                 /\ current # "none" => unit[s] = current

DeployInv ==
    TypeOK /\ Installed /\ Progress /\ RollbackProgress /\ Restoring /\ StaysOff /\ Trusted
=============================================================================
