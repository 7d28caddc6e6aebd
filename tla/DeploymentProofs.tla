--------------------------- MODULE DeploymentProofs ---------------------------
(***************************************************************************)
(* Proofs about Deployment for every set of releases.                      *)
(***************************************************************************)
EXTENDS Deployment, TLAPS

USE NameAssumption

LEMMA NothingType == Nothing \in Backup
  BY DEF Nothing, Backup, Services

LEMMA NoJobType ==
    /\ NoJob.target = "none"
    /\ NoJob.backup.revision = "none" /\ NoJob.backup.prior = "none"
    /\ NoJob \in Job
  BY NothingType DEF NoJob, Job, Nothing

\* What systemd does to the services: each one keeps what it runs, stops, waits
\* for its restart, or runs the release the link leads to.
LEMMA SystemdEffect ==
    ASSUME TypeOK, NEW s \in Services
    PROVE  /\ StartUnit(s) \in [Services -> Revisions \cup {"inactive", "restarting"}]
           /\ RestartUnit(s) \in [Services -> Revisions \cup {"inactive", "restarting"}]
           /\ Booted \in [Services -> Revisions \cup {"inactive", "restarting"}]
           /\ StopUnits \in [Services -> Revisions \cup {"inactive", "restarting"}]
           /\ \A t \in Services :
                /\ StartUnit(s)[t] \in {running[t], current, "restarting"}
                /\ RestartUnit(s)[t] \in {running[t], current, "restarting"}
                /\ Booted[t] \in {current, "inactive", "restarting"}
                /\ StopUnits[t] = "inactive"
                /\ StartUnit(s)[t] # "none" /\ RestartUnit(s)[t] # "none" /\ Booted[t] # "none"
  BY DEF TypeOK, StartUnit, RestartUnit, Booted, StopUnits, Started, Usable, Active, Services

\* The jobs that are begun and ended, and the one a rescue makes of a deployment.
LEMMA JobEffect ==
    ASSUME TypeOK, NEW revision \in Revisions \cup {"none"}
    PROVE  /\ NoJob.kind = "none"
           /\ [NoJob EXCEPT !.kind = "deploy", !.target = revision].kind = "deploy"
           /\ [NoJob EXCEPT !.kind = "deploy", !.target = revision].backup = NoJob.backup
           /\ [NoJob EXCEPT !.kind = "rollback", !.target = revision].kind = "rollback"
           /\ [NoJob EXCEPT !.kind = "rollback", !.target = revision].target = revision
           /\ [NoJob EXCEPT !.kind = "rollback", !.target = revision].backup = NoJob.backup
           /\ [job EXCEPT !.kind = "restore", !.target = revision].kind = "restore"
           /\ [job EXCEPT !.kind = "restore", !.target = revision].target = revision
           /\ [job EXCEPT !.kind = "restore", !.target = revision].backup = job.backup
  BY NoJobType DEF TypeOK, NoJob, Job

LEMMA InitDeployInv == Init => DeployInv
<1> SUFFICES ASSUME Init PROVE DeployInv
  OBVIOUS
<1>1. TypeOK
  BY NoJobType DEF Init, TypeOK, DeploySteps, RollbackSteps
<1>2. Installed /\ Progress
  BY NoJobType DEF Init, Installed, Progress, Switched, Restarted, DeploySteps, RollbackSteps, Services
<1>3. RollbackProgress
  BY DEF Init, RollbackProgress, Refitted, Reenabled, Stopped, RollbackSteps
<1>4. Restoring /\ StaysOff
  BY DEF Init, NoJob, Restoring, StaysOff
<1>5. Trusted
  BY NoJobType DEF Init, Trusted, RollbackSteps
<1>6. QED
  BY <1>1, <1>2, <1>3, <1>4, <1>5 DEF DeployInv

LEMMA StepTypeOK == TypeOK /\ [Next]_vars => TypeOK'
<1> SUFFICES ASSUME TypeOK, [Next]_vars
             PROVE  TypeOK'
  OBVIOUS
<1> USE DEF TypeOK, disk, ghosts, DeploySteps, RollbackSteps, Go, End
<1>1. ASSUME NEW s \in Services, ServiceFails(s) \/ ServiceRestarts(s)
      PROVE  TypeOK'
  <2>1. running' \in [Services -> Revisions \cup {"inactive", "restarting"}]
    <3>1. CASE ServiceFails(s)
      BY <3>1 DEF ServiceFails
    <3>2. CASE ServiceRestarts(s)
      BY <3>2, SystemdEffect DEF ServiceRestarts, Usable
    <3>3. QED
      BY <1>1, <3>1, <3>2
  <2>2. QED
    BY <1>1, <2>1 DEF ServiceFails, ServiceRestarts
<1>2. CASE CreateDatabase
  BY <1>2 DEF CreateDatabase
<1>3. CASE XrayRestart
  BY <1>3 DEF XrayRestart
<1>4. /\ HalfMade \subseteq [Services -> {"absent", "empty", "good"}]
      /\ TornPrior \subseteq Revisions \cup {"none", "torn"}
  BY DEF HalfMade, TornPrior
<1>5. CASE Kill
  BY <1>4, <1>5, NoJobType DEF Kill
<1>6. CASE PowerFailure
  <2>1. running' \in [Services -> Revisions \cup {"inactive", "restarting"}]
    BY <1>6, SystemdEffect DEF PowerFailure, Services
  <2>2. QED
    BY <1>4, <1>6, <2>1, NoJobType DEF PowerFailure
<1>7. ASSUME NEW revision \in Revisions, StartTransaction(revision) \/ StartRollback(revision)
      PROVE  TypeOK'
  <2>1. /\ [NoJob EXCEPT !.kind = "deploy", !.target = revision] \in Job
        /\ [NoJob EXCEPT !.kind = "deploy", !.target = revision].target = revision
        /\ [NoJob EXCEPT !.kind = "rollback", !.target = revision] \in Job
        /\ [NoJob EXCEPT !.kind = "rollback", !.target = revision].target = revision
    BY NoJobType DEF Job
  <2>2. CASE StartTransaction(revision)
    BY <2>1, <2>2 DEF StartTransaction
  <2>3. CASE StartRollback(revision)
    <3>1. orderly' \in BOOLEAN
      BY <2>3 DEF StartRollback
    <3>2. QED
      BY <2>1, <2>3, <3>1 DEF StartRollback
  <2>4. QED
    BY <1>7, <2>2, <2>3
<1>8. CASE TakeBackup
  <2>1. [revision |-> current, prior |-> prior, enabled |-> enabled,
         active |-> [s \in Services |-> Active(s)]] \in Backup
    BY <1>8 DEF TakeBackup, Backup, Active
  <2>2. job' \in Job /\ job'.target = job.target
    BY <1>8, <2>1 DEF TakeBackup, Job
  <2>3. QED
    BY <1>8, <2>2 DEF TakeBackup
<1>9. CASE RefuseBackup
  BY <1>9, NoJobType DEF RefuseBackup
<1>10. CASE InstallRelease
  BY <1>10 DEF InstallRelease
<1>11. ASSUME NEW s \in Services, NEW from, NEW to,
              MakeSecret(s, from, to), from # "idle", to \in DeploySteps
       PROVE  TypeOK'
  BY <1>11 DEF MakeSecret
<1>12. ASSUME NEW s \in Services, NEW from, NEW to,
              InstallUnit(s, from, to), from # "idle", to \in DeploySteps \cup RollbackSteps
       PROVE  TypeOK'
  BY <1>12 DEF InstallUnit
<1>13. CASE RecordPrior
  BY <1>13 DEF RecordPrior
<1>14. ASSUME NEW from, NEW to,
              SwitchCurrent(from, to), from # "idle", to \in DeploySteps \cup RollbackSteps
       PROVE  TypeOK'
  BY <1>14 DEF SwitchCurrent
<1>15. CASE EnableServices
  BY <1>15 DEF EnableServices
<1>16. CASE RestartCollector
  BY <1>16, SystemdEffect DEF RestartCollector, Services
<1>17. CASE AwaitDatabase
  BY <1>17 DEF AwaitDatabase
<1>18. CASE RestartWeb
  BY <1>18, SystemdEffect DEF RestartWeb, Services
<1>19. CASE Verify
  BY <1>19 DEF Verify
<1>20. CASE Done
  BY <1>20, NoJobType DEF Done
<1>21. CASE DeployFails
  <2>1. running' \in [Services -> Revisions \cup {"inactive", "restarting"}]
    BY <1>21, SystemdEffect DEF DeployFails, Services
  <2>2. QED
    BY <1>4, <1>21, <2>1 DEF DeployFails
<1>22. CASE Rescue
  <2>1. job.backup.revision \in releases =>
          /\ [job EXCEPT !.kind = "restore", !.target = job.backup.revision] \in Job
          /\ [job EXCEPT !.kind = "restore", !.target = job.backup.revision].target \in Revisions
    BY DEF Job
  <2>2. QED
    BY <1>22, <2>1 DEF Rescue
<1>23. CASE ForceOffline
  <2>1. /\ running' \in [Services -> Revisions \cup {"inactive", "restarting"}]
        /\ enabled' \in [Services -> BOOLEAN] /\ current' \in Revisions \cup {"none"}
    BY <1>23, SystemdEffect DEF ForceOffline, Services
  <2>2. orderly' \in BOOLEAN /\ job' \in Job /\ pc' = "idle" /\ xrayMoved' \in BOOLEAN
        /\ result' \in {"offline", "stuck"}
    BY <1>23, NoJobType DEF ForceOffline
  <2>3. QED
    BY <1>23, <2>1, <2>2 DEF ForceOffline
<1>24. CASE StopServices
  BY <1>24 DEF StopServices, StopUnits
<1>25. CASE RestoreDatabase
  BY <1>25 DEF RestoreDatabase
<1>26. CASE RestorePrior
  BY <1>26 DEF RestorePrior, Job, Backup
<1>27. ASSUME NEW s \in Services, NEW from, NEW to,
              RestoreEnabled(s, from, to), from # "idle", to \in RollbackSteps
       PROVE  TypeOK'
  <2>1. enabled' \in [Services -> BOOLEAN]
    BY <1>27 DEF RestoreEnabled, Job, Backup
  <2>2. QED
    BY <1>27, <2>1 DEF RestoreEnabled
<1>28. ASSUME NEW s \in Services, NEW from, NEW to,
              RestoreRunning(s, from, to), from # "idle", to \in RollbackSteps
       PROVE  TypeOK'
  BY <1>28, SystemdEffect DEF RestoreRunning
<1>29. CASE RolledBack
  BY <1>29, NoJobType DEF RolledBack
<1>30. CASE RollbackFails
  <2>1. running' \in [Services -> Revisions \cup {"inactive", "restarting"}]
    BY <1>30 DEF RollbackFails
  <2>2. QED
    BY <1>30, <2>1, NoJobType DEF RollbackFails
<1>31. CASE UNCHANGED vars
  BY <1>31 DEF vars
<1>32. CASE Deploy
  BY <1>10, <1>11, <1>12, <1>13, <1>14, <1>15, <1>16, <1>17, <1>18, <1>19, <1>20,
     <1>21, <1>22, <1>23, <1>32 DEF Deploy, Services
<1>33. CASE Rollback
  BY <1>12, <1>14, <1>24, <1>25, <1>26, <1>27, <1>28, <1>29, <1>30, <1>33 DEF Rollback, Services
<1>34. CASE Environment
  BY <1>1, <1>2, <1>3, <1>5, <1>6, <1>34 DEF Environment
<1>35. QED
  BY <1>7, <1>8, <1>9, <1>31, <1>32, <1>33, <1>34 DEF Next

\* Whatever fails, is killed or loses power, every variable keeps its type.
THEOREM TypeCorrect == Spec => []TypeOK
<1>1. Init => TypeOK
  BY InitDeployInv DEF DeployInv
<1>2. QED
  BY <1>1, StepTypeOK, PTL DEF Spec

----------------------------------------------------------------------------
\* Releases are installed whole before anything refers to them, and stay.
LEMMA StepInstalled == TypeOK /\ Installed /\ [Next]_vars => Installed'
<1> SUFFICES ASSUME TypeOK, Installed, [Next]_vars
             PROVE  Installed'
  OBVIOUS
<1> USE DEF Installed, disk, ghosts, DeploySteps, RollbackSteps, Go, End
<1>0. /\ running \in [Services -> Revisions \cup {"inactive", "restarting"}]
      /\ unit \in [Services -> Revisions \cup {"none"}]
      /\ job \in Job /\ releases \subseteq Revisions
      /\ "none" \notin releases
  BY DEF TypeOK
<1>1. ASSUME NEW s \in Services, ServiceFails(s)
      PROVE  Installed'
  BY <1>0, <1>1 DEF ServiceFails
<1>2. ASSUME NEW s \in Services, ServiceRestarts(s)
      PROVE  Installed'
  <2>1. \A t \in Services : running'[t] \in {running[t], current, "restarting"} /\ current # "none"
    BY <1>0, <1>2, SystemdEffect DEF ServiceRestarts, Usable
  <2>2. QED
    BY <1>2, <2>1 DEF ServiceRestarts
<1>3. CASE CreateDatabase \/ XrayRestart
  BY <1>3 DEF CreateDatabase, XrayRestart
<1>4. CASE Kill
  <2>1. prior' \in {prior, "torn"}
    BY <1>4 DEF Kill, TornPrior
  <2>2. QED
    BY <1>4, <2>1, NoJobType DEF Kill
<1>5. CASE PowerFailure
  <2>1. prior' \in {prior, "torn"}
    BY <1>5 DEF PowerFailure, TornPrior
  <2>2. \A t \in Services : running'[t] \in {current, "inactive", "restarting"} /\ running'[t] # "none"
    BY <1>5, SystemdEffect DEF PowerFailure
  <2>3. QED
    BY <1>5, <2>1, <2>2, NoJobType DEF PowerFailure
<1>6. ASSUME NEW revision \in Revisions, StartTransaction(revision)
      PROVE  Installed'
  <2>1. [NoJob EXCEPT !.kind = "deploy", !.target = revision].backup = NoJob.backup
    BY NoJobType DEF Job
  <2>2. QED
    BY <1>6, <2>1, NoJobType DEF StartTransaction
<1>7. ASSUME NEW revision \in Revisions, StartRollback(revision)
      PROVE  Installed'
  <2>1. /\ [NoJob EXCEPT !.kind = "rollback", !.target = revision].backup = NoJob.backup
        /\ [NoJob EXCEPT !.kind = "rollback", !.target = revision].target = revision
    BY NoJobType DEF Job
  <2>2. QED
    BY <1>7, <2>1, NoJobType DEF StartRollback
<1>8. CASE TakeBackup
  <2>1. job'.backup.revision = current /\ job'.backup.prior = prior
    BY <1>0, <1>8 DEF TakeBackup, Job
  <2>2. QED
    BY <1>8, <2>1 DEF TakeBackup
<1>9. CASE RefuseBackup \/ Done \/ RolledBack
  BY <1>9, NoJobType DEF RefuseBackup, Done, RolledBack
<1>10. CASE InstallRelease
  BY <1>10 DEF InstallRelease
<1>11. ASSUME NEW s \in Services, NEW from \in DeploySteps \ {"install"}, NEW to,
              MakeSecret(s, from, to)
       PROVE  Installed'
  BY <1>11 DEF MakeSecret
<1>12. ASSUME NEW s \in Services, NEW from \in (DeploySteps \ {"install"}) \cup RollbackSteps, NEW to,
              InstallUnit(s, from, to)
       PROVE  Installed'
  BY <1>0, <1>12 DEF InstallUnit
<1>13. CASE RecordPrior
  BY <1>13 DEF RecordPrior
<1>14. ASSUME NEW from \in (DeploySteps \ {"install"}) \cup RollbackSteps, NEW to,
              SwitchCurrent(from, to)
       PROVE  Installed'
  BY <1>14 DEF SwitchCurrent
<1>15. CASE EnableServices \/ AwaitDatabase \/ Verify \/ RestoreDatabase
  BY <1>15 DEF EnableServices, AwaitDatabase, Verify, RestoreDatabase
<1>16. CASE RestartCollector
  <2>1. \A t \in Services : running'[t] \in {running[t], current, "restarting"} /\ running'[t] # "none"
    BY <1>16, SystemdEffect DEF RestartCollector, Services
  <2>2. QED
    BY <1>16, <2>1 DEF RestartCollector
<1>17. CASE RestartWeb
  <2>1. \A t \in Services : running'[t] \in {running[t], current, "restarting"} /\ running'[t] # "none"
    BY <1>17, SystemdEffect DEF RestartWeb, Services
  <2>2. QED
    BY <1>17, <2>1 DEF RestartWeb
<1>18. CASE DeployFails
  <2>1. \A t \in Services : running'[t] \in {running[t], "inactive"}
    BY <1>0, <1>18 DEF DeployFails, StopUnits
  <2>2. QED
    BY <1>18, <2>1 DEF DeployFails
<1>19. CASE Rescue
  <2>1. job.backup.revision \in releases =>
          /\ [job EXCEPT !.kind = "restore", !.target = job.backup.revision].backup = job.backup
          /\ [job EXCEPT !.kind = "restore", !.target = job.backup.revision].target = job.backup.revision
    BY <1>0 DEF Job
  <2>2. QED
    BY <1>19, <2>1 DEF Rescue
<1>20. CASE ForceOffline
  <2>1. \A t \in Services : running'[t] \in {running[t], "inactive"}
    BY <1>20 DEF ForceOffline, StopUnits
  <2>2. current' \in {current, "none"} /\ pc' = "idle" /\ job' = NoJob
    BY <1>20 DEF ForceOffline
  <2>3. QED
    BY <1>20, <2>1, <2>2, NoJobType DEF ForceOffline
<1>21. CASE StopServices
  BY <1>21 DEF StopServices, StopUnits
<1>22. CASE RestorePrior
  BY <1>22 DEF RestorePrior
<1>23. ASSUME NEW s \in Services, NEW from \in RollbackSteps, NEW to,
              RestoreEnabled(s, from, to)
       PROVE  Installed'
  BY <1>23 DEF RestoreEnabled
<1>24. ASSUME NEW s \in Services, NEW from \in RollbackSteps, NEW to,
              RestoreRunning(s, from, to)
       PROVE  Installed'
  <2>1. \A t \in Services :
          running'[t] \in {running[t], current, "restarting"} /\ (running'[t] = running[t] \/ running'[t] # "none")
    <3>1. CASE running' = running
      BY <3>1
    <3>2. CASE running' = StartUnit(s)
      <4>1. \A t \in Services : StartUnit(s)[t] \in {running[t], current, "restarting"} /\ StartUnit(s)[t] # "none"
        BY SystemdEffect
      <4>2. QED
        BY <3>2, <4>1
    <3>3. QED
      BY <1>24, <3>1, <3>2 DEF RestoreRunning
  <2>2. QED
    BY <1>24, <2>1 DEF RestoreRunning
<1>25. CASE RollbackFails
  <2>1. \A t \in Services : running'[t] \in {running[t], "inactive"}
    BY <1>0, <1>25 DEF RollbackFails
  <2>2. pc' \in {"idle", "offline"} /\ job' \in {job, NoJob}
    BY <1>25 DEF RollbackFails
  <2>3. QED
    BY <1>25, <2>1, <2>2, NoJobType DEF RollbackFails
<1>26. CASE UNCHANGED vars
  BY <1>26 DEF vars
<1>27. CASE Deploy
  BY <1>9, <1>10, <1>11, <1>12, <1>13, <1>14, <1>15, <1>16, <1>17, <1>18, <1>19, <1>20, <1>27
     DEF Deploy, Services
<1>28. CASE Rollback
  BY <1>9, <1>12, <1>14, <1>15, <1>21, <1>22, <1>23, <1>24, <1>25, <1>28 DEF Rollback, Services
<1>29. CASE Environment
  BY <1>1, <1>2, <1>3, <1>4, <1>5, <1>29 DEF Environment
<1>30. QED
  BY <1>6, <1>7, <1>8, <1>9, <1>26, <1>27, <1>28, <1>29 DEF Next

\* Each step of a deployment finds what the steps before it have done.
LEMMA StepProgress == TypeOK /\ Progress /\ [Next]_vars => Progress'
<1> SUFFICES ASSUME TypeOK, Progress, [Next]_vars
             PROVE  Progress'
  OBVIOUS
<1> USE DEF Progress, Switched, Restarted, disk, ghosts, DeploySteps, RollbackSteps, Go, End
<1>0. /\ running \in [Services -> Revisions \cup {"inactive", "restarting"}]
      /\ unit \in [Services -> Revisions \cup {"none"}]
      /\ enabled \in [Services -> BOOLEAN]
      /\ Services = {"collector", "web"}
  BY DEF TypeOK, Services
<1>1. ASSUME NEW s \in Services, ServiceFails(s)
      PROVE  Progress'
  BY <1>0, <1>1 DEF ServiceFails
<1>2. ASSUME NEW s \in Services, ServiceRestarts(s)
      PROVE  Progress'
  <2>1. \A t \in Services : running'[t] \in {running[t], current, "restarting"}
    BY <1>0, <1>2, SystemdEffect DEF ServiceRestarts, Usable
  <2>2. QED
    BY <1>0, <1>2, <2>1 DEF ServiceRestarts
<1>3. CASE CreateDatabase \/ XrayRestart
  BY <1>3 DEF CreateDatabase, XrayRestart
<1>4. CASE Kill \/ RefuseBackup \/ Done \/ RolledBack \/ ForceOffline
  BY <1>4 DEF Kill, RefuseBackup, Done, RolledBack, ForceOffline
<1>5. CASE PowerFailure
  <2>1. CASE pc = "idle"
    BY <1>5, <2>1 DEF PowerFailure
  <2>2. CASE pc # "idle"
    BY <1>5, <2>2 DEF PowerFailure
  <2>3. QED
    BY <2>1, <2>2
<1>6. ASSUME NEW revision \in Revisions, StartTransaction(revision) \/ StartRollback(revision)
      PROVE  Progress'
  BY <1>6 DEF StartTransaction, StartRollback
<1>7. CASE TakeBackup \/ InstallRelease
  BY <1>7 DEF TakeBackup, InstallRelease
<1>8. CASE Rescue \/ DeployFails \/ RollbackFails
  BY <1>8 DEF Rescue, DeployFails, RollbackFails
<1>9. ASSUME NEW s \in Services, NEW from, NEW to \in {"secret_web", "unit_collector"},
             MakeSecret(s, from, to)
      PROVE  Progress'
  BY <1>9 DEF MakeSecret
<1>10. CASE InstallUnit("collector", "unit_collector", "unit_web")
  BY <1>0, <1>10 DEF InstallUnit
<1>11. CASE InstallUnit("web", "unit_web", "prior")
  BY <1>0, <1>11 DEF InstallUnit
<1>12. CASE RecordPrior
  BY <1>12 DEF RecordPrior
<1>13. CASE SwitchCurrent("switch", "enable")
  BY <1>13 DEF SwitchCurrent
<1>14. CASE EnableServices
  BY <1>0, <1>14 DEF EnableServices
<1>15. CASE RestartCollector
  <2>1. RestartUnit("collector")["collector"] \in {current, "restarting"}
    BY <1>0 DEF RestartUnit, Started
  <2>2. QED
    BY <1>15, <2>1 DEF RestartCollector
<1>16. CASE AwaitDatabase
  BY <1>16 DEF AwaitDatabase
<1>17. CASE RestartWeb
  <2>1. RestartUnit("web")["web"] \in {current, "restarting"}
    BY <1>0 DEF RestartUnit, Started
  <2>2. RestartUnit("web")["collector"] \in {running["collector"], current, "restarting"}
    BY <1>0 DEF RestartUnit, Started
  <2>3. QED
    BY <1>17, <2>1, <2>2 DEF RestartWeb
<1>18. CASE Verify
  BY <1>18 DEF Verify
<1>19. CASE StopServices \/ RestoreDatabase \/ RestorePrior
  BY <1>19 DEF StopServices, RestoreDatabase, RestorePrior
<1>20. ASSUME NEW s \in Services, NEW from, NEW to \in RollbackSteps,
              \/ SwitchCurrent(from, to) \/ InstallUnit(s, from, to)
              \/ RestoreEnabled(s, from, to) \/ RestoreRunning(s, from, to)
       PROVE  Progress'
  <2>1. pc' \in RollbackSteps
    BY <1>20 DEF SwitchCurrent, InstallUnit, RestoreEnabled, RestoreRunning
  <2>2. QED
    BY <2>1
<1>21. CASE UNCHANGED vars
  BY <1>21 DEF vars
<1>22. CASE Deploy
  BY <1>0, <1>4, <1>7, <1>8, <1>9, <1>10, <1>11, <1>12, <1>13, <1>14, <1>15, <1>16, <1>17, <1>18, <1>22
     DEF Deploy
<1>23. CASE Rollback
  BY <1>0, <1>4, <1>8, <1>19, <1>20, <1>23 DEF Rollback
<1>24. CASE Environment
  BY <1>1, <1>2, <1>3, <1>4, <1>5, <1>24 DEF Environment
<1>25. QED
  BY <1>4, <1>6, <1>7, <1>21, <1>22, <1>23, <1>24 DEF Next

\* Each step of a roll back finds what the steps before it have done.
LEMMA StepRollbackProgress == TypeOK /\ RollbackProgress /\ [Next]_vars => RollbackProgress'
<1> SUFFICES ASSUME TypeOK, RollbackProgress, [Next]_vars
             PROVE  RollbackProgress'
  OBVIOUS
<1> USE DEF RollbackProgress, Refitted, Reenabled, Stopped, disk, ghosts, DeploySteps,
            RollbackSteps, Go, End
<1>0. /\ running \in [Services -> Revisions \cup {"inactive", "restarting"}]
      /\ unit \in [Services -> Revisions \cup {"none"}]
      /\ Services = {"collector", "web"}
  BY DEF TypeOK, Services
<1>1. ASSUME NEW s \in Services, ServiceFails(s)
      PROVE  RollbackProgress'
  <2>1. \A t \in Services : running'[t] \in {running[t], "restarting"}
    BY <1>0, <1>1 DEF ServiceFails
  <2>2. pc \notin Stopped \cup {"rb_start_collector"}
    BY <1>1 DEF ServiceFails, Active, StopUnits
  <2>3. QED
    BY <1>1, <2>1, <2>2 DEF ServiceFails
<1>2. ASSUME NEW s \in Services, ServiceRestarts(s)
      PROVE  RollbackProgress'
  <2>1. \A t \in Services : running'[t] \in {running[t], current, "restarting"}
    BY <1>0, <1>2, SystemdEffect DEF ServiceRestarts
  <2>2. pc \notin Stopped \cup {"rb_start_collector"}
    BY <1>2 DEF ServiceRestarts, StopUnits
  <2>3. QED
    BY <1>2, <2>1, <2>2 DEF ServiceRestarts
<1>3. CASE CreateDatabase \/ XrayRestart
  BY <1>3 DEF CreateDatabase, XrayRestart
<1>4. CASE Kill \/ RefuseBackup \/ Done \/ RolledBack \/ ForceOffline
  BY <1>4 DEF Kill, RefuseBackup, Done, RolledBack, ForceOffline
<1>5. CASE PowerFailure
  <2>1. CASE pc = "idle"
    BY <1>5, <2>1 DEF PowerFailure
  <2>2. CASE pc # "idle"
    BY <1>5, <2>2 DEF PowerFailure
  <2>3. QED
    BY <2>1, <2>2
<1>6. ASSUME NEW revision \in Revisions, StartTransaction(revision) \/ StartRollback(revision)
      PROVE  RollbackProgress'
  BY <1>6 DEF StartTransaction, StartRollback
<1>7. CASE Rescue \/ DeployFails \/ RollbackFails
  BY <1>7 DEF Rescue, DeployFails, RollbackFails
<1>8. CASE pc' \in DeploySteps
  BY <1>8
<1>9. CASE StopServices \/ RestoreDatabase
  BY <1>9 DEF StopServices, RestoreDatabase
<1>10. CASE SwitchCurrent("rb_switch", "rb_unit_collector")
  BY <1>10 DEF SwitchCurrent
<1>11. CASE InstallUnit("collector", "rb_unit_collector", "rb_unit_web")
  BY <1>0, <1>11 DEF InstallUnit
<1>12. CASE InstallUnit("web", "rb_unit_web", "rb_prior")
  BY <1>0, <1>12 DEF InstallUnit
<1>13. CASE RestorePrior
  BY <1>13 DEF RestorePrior
<1>14. CASE \/ RestoreEnabled("collector", "rb_enable_collector", "rb_enable_web")
            \/ RestoreEnabled("web", "rb_enable_web", "rb_start_collector")
  BY <1>14 DEF RestoreEnabled
<1>15. ASSUME NEW s \in Services,
              NEW from \in {"rb_start_collector", "rb_start_web"}, NEW to \in {"rb_start_web", "rb_check"},
              RestoreRunning(s, from, to)
       PROVE  RollbackProgress'
  <2>1. \A t \in Services : running'[t] \in {running[t], current, "restarting"}
    <3>1. \A t \in Services : StartUnit(s)[t] \in {running[t], current, "restarting"}
      BY SystemdEffect
    <3>2. QED
      BY <1>15, <3>1 DEF RestoreRunning
  <2>2. \A t \in Services : running[t] \in {job.target, "inactive", "restarting"}
    BY <1>15 DEF RestoreRunning, StopUnits
  <2>3. current = job.target /\ unit["collector"] = job.target /\ unit["web"] = job.target
    BY <1>15 DEF RestoreRunning
  <2>4. QED
    BY <1>15, <2>1, <2>2, <2>3 DEF RestoreRunning
<1>16. CASE UNCHANGED vars
  BY <1>16 DEF vars
<1>17. CASE Deploy
  <2>1. pc' \in DeploySteps \/ DeployFails \/ Rescue \/ ForceOffline \/ Done
    BY <1>17 DEF Deploy, InstallRelease, MakeSecret, InstallUnit, RecordPrior, SwitchCurrent,
       EnableServices, RestartCollector, AwaitDatabase, RestartWeb, Verify
  <2>2. QED
    BY <1>4, <1>7, <1>8, <2>1
<1>18. CASE Rollback
  BY <1>0, <1>4, <1>7, <1>9, <1>10, <1>11, <1>12, <1>13, <1>14, <1>15, <1>18 DEF Rollback
<1>19. CASE Environment
  BY <1>1, <1>2, <1>3, <1>4, <1>5, <1>19 DEF Environment
<1>20. CASE TakeBackup
  BY <1>20 DEF TakeBackup
<1>21. QED
  BY <1>4, <1>6, <1>16, <1>17, <1>18, <1>19, <1>20 DEF Next

\* What a restoring roll back has put back stays until it ends.
LEMMA StepRestoring ==
    TypeOK /\ RollbackProgress /\ Restoring /\ [Next]_vars => Restoring'
<1> SUFFICES ASSUME TypeOK, RollbackProgress, Restoring, [Next]_vars
             PROVE  Restoring'
  OBVIOUS
<1> USE DEF Restoring, Refitted, Reenabled, disk, ghosts, DeploySteps, RollbackSteps, Go, End
<1>0. /\ running \in [Services -> Revisions \cup {"inactive", "restarting"}]
      /\ enabled \in [Services -> BOOLEAN]
      /\ job.backup.enabled \in [Services -> BOOLEAN]
      /\ job.backup.active \in [Services -> BOOLEAN]
      /\ Services = {"collector", "web"}
  BY DEF TypeOK, Job, Backup, Services
<1>1. CASE job'.kind # "restore"
  BY <1>1
<1>2. ASSUME NEW s \in Services, ServiceFails(s)
      PROVE  Restoring'
  <2>1. \A t \in Services : running'[t] # "inactive" <=> running[t] # "inactive"
    BY <1>0, <1>2, NameAssumption DEF ServiceFails, Active
  <2>2. QED
    BY <1>0, <1>2, <2>1 DEF ServiceFails
<1>3. ASSUME NEW s \in Services, ServiceRestarts(s)
      PROVE  Restoring'
  <2>1. CASE job.kind # "restore"
    BY <1>3, <2>1 DEF ServiceRestarts
  <2>2. CASE job.kind = "restore"
    <3>1. current \in Revisions
      BY <1>3 DEF ServiceRestarts, Usable, TypeOK
    <3>2. CASE pc \in {"rb_start_web", "rb_check"}
      <4>1. s = "collector" \/ running["collector"] # "inactive"
        BY <1>0, <1>3, <2>2, <3>2 DEF ServiceRestarts
      <4>2. \A t \in Services : RestartUnit(s)[t] # "inactive" <=> running[t] # "inactive"
        BY <1>0, <1>3, <3>1, <4>1, NameAssumption DEF ServiceRestarts, RestartUnit, Started, Active
      <4>3. \A t \in Services : running'[t] # "inactive" <=> running[t] # "inactive"
        BY <1>0, <1>3, <3>1, <4>2 DEF ServiceRestarts
      <4>4. QED
        BY <1>0, <1>3, <4>3 DEF ServiceRestarts
    <3>3. CASE pc \notin {"rb_start_web", "rb_check"}
      BY <1>3, <3>3 DEF ServiceRestarts
    <3>4. QED
      BY <3>2, <3>3
  <2>3. QED
    BY <2>1, <2>2
<1>4. CASE CreateDatabase \/ XrayRestart
  BY <1>4 DEF CreateDatabase, XrayRestart
<1>5. CASE Kill \/ RefuseBackup \/ Done \/ RolledBack \/ ForceOffline
  BY <1>1, <1>5, JobEffect DEF Kill, RefuseBackup, Done, RolledBack, ForceOffline
<1>6. CASE PowerFailure
  <2>1. CASE pc = "idle"
    BY <1>6, <2>1 DEF PowerFailure
  <2>2. CASE pc # "idle"
    BY <1>1, <1>6, <2>2, JobEffect DEF PowerFailure
  <2>3. QED
    BY <2>1, <2>2
<1>7. ASSUME NEW revision \in Revisions, StartTransaction(revision) \/ StartRollback(revision)
      PROVE  Restoring'
  BY <1>1, <1>7, JobEffect DEF StartTransaction, StartRollback
<1>8. CASE TakeBackup
  <2>1. job'.kind = job.kind /\ job.kind # "restore"
    BY <1>8 DEF TakeBackup, TypeOK, Job
  <2>2. QED
    BY <1>1, <2>1
<1>9. CASE RollbackFails
  <2>1. CASE job.kind = "restore"
    BY <1>9, <2>1 DEF RollbackFails
  <2>2. CASE job.kind # "restore"
    BY <1>1, <1>9, <2>2, JobEffect DEF RollbackFails
  <2>3. QED
    BY <2>1, <2>2
<1>10. CASE Rescue
  <2>1. CASE job.backup.revision \in releases
    <3>1. /\ [job EXCEPT !.kind = "restore", !.target = job.backup.revision].target = job.backup.revision
          /\ [job EXCEPT !.kind = "restore", !.target = job.backup.revision].backup = job.backup
      BY JobEffect DEF TypeOK, Job, Backup
    <3>2. QED
      BY <1>10, <2>1, <3>1 DEF Rescue
  <2>2. CASE job.backup.revision \notin releases
    BY <1>1, <1>10, <2>2 DEF Rescue
  <2>3. QED
    BY <2>1, <2>2
<1>11. CASE DeployFails
  BY <1>1, <1>11 DEF DeployFails
<1>12. CASE pc \in DeploySteps /\ job' = job
  BY <1>1, <1>12
<1>13. CASE \/ StopServices \/ RestoreDatabase
            \/ SwitchCurrent("rb_switch", "rb_unit_collector")
            \/ InstallUnit("collector", "rb_unit_collector", "rb_unit_web")
            \/ InstallUnit("web", "rb_unit_web", "rb_prior")
  BY <1>13 DEF StopServices, RestoreDatabase, SwitchCurrent, InstallUnit
<1>14. CASE RestorePrior
  BY <1>14 DEF RestorePrior
<1>15. CASE RestoreEnabled("collector", "rb_enable_collector", "rb_enable_web")
  BY <1>0, <1>15 DEF RestoreEnabled
<1>16. CASE RestoreEnabled("web", "rb_enable_web", "rb_start_collector")
  BY <1>0, <1>16 DEF RestoreEnabled
<1>17. CASE RestoreRunning("collector", "rb_start_collector", "rb_start_web")
  <2>1. running["collector"] = "inactive" /\ running["web"] = "inactive"
    BY <1>0, <1>17 DEF RestoreRunning, RollbackProgress, StopUnits
  <2>2. current \in Revisions
    BY <1>17 DEF RestoreRunning, RollbackProgress, TypeOK
  <2>3. /\ StartUnit("collector")["web"] = "inactive"
        /\ StartUnit("collector")["collector"] # "inactive"
    BY <1>0, <2>1, <2>2 DEF StartUnit, Started, Active
  <2>4. QED
    BY <1>0, <1>17, <2>1, <2>3 DEF RestoreRunning, Wanted
<1>18. CASE RestoreRunning("web", "rb_start_web", "rb_check")
  <2>1. current \in Revisions
    BY <1>18 DEF RestoreRunning, RollbackProgress, TypeOK
  <2>2. StartUnit("web")["web"] # "inactive" /\ StartUnit("web")["collector"] # "inactive"
    BY <1>0, <2>1 DEF StartUnit, Started, Active
  <2>3. QED
    BY <1>0, <1>18, <2>2 DEF RestoreRunning, Wanted
<1>19. CASE UNCHANGED vars
  BY <1>19 DEF vars
<1>20. CASE Deploy
  <2>1. (pc \in DeploySteps /\ job' = job) \/ DeployFails \/ Rescue \/ ForceOffline \/ Done
    BY <1>20 DEF Deploy, InstallRelease, MakeSecret, InstallUnit, RecordPrior, SwitchCurrent,
       EnableServices, RestartCollector, AwaitDatabase, RestartWeb, Verify
  <2>2. QED
    BY <1>5, <1>10, <1>11, <1>12, <2>1
<1>21. CASE Rollback
  BY <1>5, <1>9, <1>13, <1>14, <1>15, <1>16, <1>17, <1>18, <1>21 DEF Rollback
<1>22. CASE Environment
  BY <1>2, <1>3, <1>4, <1>5, <1>6, <1>22 DEF Environment
<1>23. QED
  BY <1>5, <1>7, <1>8, <1>19, <1>20, <1>21, <1>22 DEF Next

\* The host comes up with nothing when nothing is enabled.
LEMMA NothingEnabled == (\A s \in Services : ~ enabled[s]) => Booted = StopUnits
  BY DEF Booted, StopUnits, Services

\* Only a script ends what went offline.
LEMMA StepStaysOff == TypeOK /\ StaysOff /\ [Next]_vars => StaysOff'
<1> SUFFICES ASSUME TypeOK, StaysOff, [Next]_vars,
                    pc' = "idle", result' = "offline", current' = "none"
             PROVE  running' = StopUnits /\ \A s \in Services : ~ enabled'[s]
  BY DEF StaysOff, StopUnits
<1> USE DEF disk, ghosts, DeploySteps, RollbackSteps, Go, End
<1>1. CASE pc = "idle"
  <2>1. UNCHANGED <<result, current, enabled>>
    BY <1>1 DEF Next, vars, Deploy, Rollback, Environment, StartTransaction, StartRollback,
       TakeBackup, RefuseBackup, InstallRelease, MakeSecret, InstallUnit, RecordPrior,
       SwitchCurrent, EnableServices, RestartCollector, AwaitDatabase, RestartWeb, Verify,
       Done, DeployFails, Rescue, ForceOffline, StopServices, RestoreDatabase, RestorePrior,
       RestoreEnabled, RestoreRunning, RolledBack, RollbackFails, ServiceFails,
       ServiceRestarts, CreateDatabase, XrayRestart, Kill, PowerFailure
  <2>2. running = StopUnits /\ \A s \in Services : ~ enabled[s]
    BY <1>1, <2>1 DEF StaysOff
  <2>3. \A s \in Services : ~ ServiceFails(s) /\ ~ ServiceRestarts(s)
    BY <2>2 DEF StopUnits, ServiceFails, ServiceRestarts, Active
  <2>4. running' \in {running, Booted}
    BY <1>1, <2>3 DEF Next, vars, Deploy, Rollback, Environment, StartTransaction, StartRollback,
       TakeBackup, RefuseBackup, InstallRelease, MakeSecret, InstallUnit, RecordPrior,
       SwitchCurrent, EnableServices, RestartCollector, AwaitDatabase, RestartWeb, Verify,
       Done, DeployFails, Rescue, ForceOffline, StopServices, RestoreDatabase, RestorePrior,
       RestoreEnabled, RestoreRunning, RolledBack, RollbackFails, CreateDatabase,
       XrayRestart, Kill, PowerFailure
  <2>5. QED
    BY <2>1, <2>2, <2>4, NothingEnabled
<1>2. CASE pc # "idle"
  <2>1. ForceOffline
    BY <1>2 DEF Next, vars, Deploy, Rollback, Environment, StartTransaction, StartRollback,
       TakeBackup, RefuseBackup, InstallRelease, MakeSecret, InstallUnit, RecordPrior,
       SwitchCurrent, EnableServices, RestartCollector, AwaitDatabase, RestartWeb, Verify,
       Done, DeployFails, Rescue, StopServices, RestoreDatabase, RestorePrior,
       RestoreEnabled, RestoreRunning, RolledBack, RollbackFails, ServiceFails,
       ServiceRestarts, CreateDatabase, XrayRestart, Kill, PowerFailure
  <2>2. running' = StopUnits /\ enabled' = [s \in Services |-> FALSE]
    BY <2>1 DEF ForceOffline
  <2>3. QED
    BY <2>2
<1>3. QED
  BY <1>1, <1>2

\* While nothing is killed, a release that is not verified is in the link only
\* between the switch of a deployment and the end of its roll back.
LEMMA StepTrusted ==
    /\ TypeOK /\ Progress /\ RollbackProgress /\ Restoring /\ Trusted
    /\ [Next]_vars
    => Trusted'
<1> SUFFICES ASSUME TypeOK, Progress, RollbackProgress, Restoring, Trusted, [Next]_vars, orderly'
             PROVE  Trusted'
  BY DEF Trusted
<1> USE DEF Trusted, Switched, Restarted, disk, ghosts, DeploySteps, RollbackSteps, Go, End
<1>0. /\ running \in [Services -> Revisions \cup {"inactive", "restarting"}]
      /\ "none" \notin Revisions /\ releases \subseteq Revisions
      /\ Services = {"collector", "web"}
      /\ orderly \in BOOLEAN
  BY NameAssumption DEF TypeOK, Services
<1>a. orderly
  BY <1>0 DEF Next, vars, Deploy, Rollback, Environment, StartTransaction, StartRollback,
     TakeBackup, RefuseBackup, InstallRelease, MakeSecret, InstallUnit, RecordPrior,
     SwitchCurrent, EnableServices, RestartCollector, AwaitDatabase, RestartWeb, Verify,
     Done, DeployFails, Rescue, ForceOffline, StopServices, RestoreDatabase, RestorePrior,
     RestoreEnabled, RestoreRunning, RolledBack, RollbackFails, ServiceFails,
     ServiceRestarts, CreateDatabase, XrayRestart, Kill, PowerFailure
<1> USE <1>a
<1>1. ASSUME NEW s \in Services, ServiceFails(s)
      PROVE  Trusted'
  <2>1. \A t \in Services : running'[t] \in {running[t], "restarting"}
    BY <1>0, <1>1 DEF ServiceFails
  <2>2. QED
    BY <1>1, <2>1 DEF ServiceFails
<1>2. ASSUME NEW s \in Services, ServiceRestarts(s)
      PROVE  Trusted'
  <2>1. \A t \in Services : running'[t] \in {running[t], current, "restarting"}
    BY <1>0, <1>2, SystemdEffect DEF ServiceRestarts
  <2>2. QED
    BY <1>2, <2>1 DEF ServiceRestarts
<1>3. CASE CreateDatabase \/ XrayRestart
  BY <1>3 DEF CreateDatabase, XrayRestart
<1>4. CASE Kill
  BY <1>4 DEF Kill
<1>5. CASE PowerFailure
  <2>1. pc = "idle"
    BY <1>5 DEF PowerFailure
  <2>2. prior' = prior
    BY <1>5, <2>1 DEF PowerFailure, TornPrior
  <2>3. \A t \in Services : running'[t] \in {current, "inactive", "restarting"}
    BY <1>5, SystemdEffect DEF PowerFailure
  <2>4. QED
    BY <1>5, <2>1, <2>2, <2>3 DEF PowerFailure
<1>6. ASSUME NEW revision \in Revisions, StartTransaction(revision)
      PROVE  Trusted'
  BY <1>6, JobEffect, NoJobType DEF StartTransaction
<1>7. ASSUME NEW revision \in Revisions, StartRollback(revision)
      PROVE  Trusted'
  <2>1. job'.target = revision /\ job'.backup = NoJob.backup
    BY <1>7, JobEffect DEF StartRollback
  <2>2. revision \in verified /\ pc' = "rb_stop" /\ UNCHANGED <<prior, verified>>
    BY <1>7 DEF StartRollback
  <2>3. QED
    BY <2>1, <2>2, NoJobType
<1>8. CASE TakeBackup
  <2>1. job'.backup.revision = current /\ job'.backup.prior = prior
    BY <1>8 DEF TakeBackup, TypeOK, Job
  <2>2. QED
    BY <1>8, <2>1 DEF TakeBackup
<1>9. CASE RefuseBackup
  BY <1>9, NoJobType DEF RefuseBackup
<1>10. CASE InstallRelease
  BY <1>10 DEF InstallRelease
<1>11. ASSUME NEW s \in Services, NEW from \in {"secret_collector", "secret_web"},
              NEW to \in {"secret_web", "unit_collector"},
              MakeSecret(s, from, to)
       PROVE  Trusted'
  BY <1>11 DEF MakeSecret
<1>12. CASE \/ InstallUnit("collector", "unit_collector", "unit_web")
            \/ InstallUnit("web", "unit_web", "prior")
            \/ InstallUnit("collector", "rb_unit_collector", "rb_unit_web")
            \/ InstallUnit("web", "rb_unit_web", "rb_prior")
  BY <1>12 DEF InstallUnit
<1>13. CASE RecordPrior
  BY <1>13 DEF RecordPrior
<1>14. CASE SwitchCurrent("switch", "enable") \/ SwitchCurrent("rb_switch", "rb_unit_collector")
  BY <1>14 DEF SwitchCurrent
<1>15. CASE EnableServices \/ RestartCollector \/ AwaitDatabase \/ RestartWeb
  BY <1>15 DEF EnableServices, RestartCollector, AwaitDatabase, RestartWeb
<1>16. CASE Verify
  BY <1>16 DEF Verify
<1>17. CASE Done
  <2>1. /\ current = job.target /\ job.target \in verified
        /\ \A s \in Services : running[s] \in {current, "restarting"} /\ unit[s] = current
    BY <1>0, <1>17 DEF Done, Progress
  <2>2. QED
    BY <1>17, <2>1, NoJobType DEF Done
<1>18. CASE DeployFails
  BY <1>18 DEF DeployFails
<1>19. CASE Rescue
  <2>1. CASE job.backup.revision \in releases
    <3>1. /\ [job EXCEPT !.kind = "restore", !.target = job.backup.revision].target = job.backup.revision
          /\ [job EXCEPT !.kind = "restore", !.target = job.backup.revision].backup = job.backup
      BY JobEffect DEF TypeOK, Job, Backup
    <3>2. job.backup.revision \in verified
      BY <1>0, <1>19, <2>1 DEF Rescue
    <3>3. QED
      BY <1>19, <2>1, <3>1, <3>2 DEF Rescue
  <2>2. CASE job.backup.revision \notin releases
    BY <1>19, <2>2 DEF Rescue
  <2>3. QED
    BY <2>1, <2>2
<1>20. CASE ForceOffline
  <2>1. current' = "none" /\ running' = StopUnits /\ job' = NoJob /\ pc' = "idle"
        /\ UNCHANGED <<prior, verified>> /\ orderly
    BY <1>20 DEF ForceOffline
  <2>2. QED
    BY <2>1, NoJobType DEF StopUnits
<1>21. CASE StopServices \/ RestoreDatabase
  BY <1>21 DEF StopServices, RestoreDatabase
<1>22. CASE RestorePrior
  BY <1>22 DEF RestorePrior
<1>23. ASSUME NEW s \in Services, NEW from \in RollbackSteps, NEW to \in RollbackSteps,
              RestoreEnabled(s, from, to) \/ RestoreRunning(s, from, to)
       PROVE  Trusted'
  BY <1>23 DEF RestoreEnabled, RestoreRunning
<1>24. CASE RolledBack
  <2>1. /\ current = job.target /\ job.target \in verified
        /\ \A s \in Services : /\ running[s] \in {current, "inactive", "restarting"}
                               /\ unit[s] = current
    BY <1>0, <1>24 DEF RolledBack, RollbackProgress, Refitted, Reenabled
  <2>2. QED
    BY <1>24, <2>1, NoJobType DEF RolledBack
<1>25. CASE RollbackFails
  BY <1>25 DEF RollbackFails
<1>26. CASE UNCHANGED vars
  BY <1>26 DEF vars
<1>27. CASE Deploy
  BY <1>0, <1>10, <1>11, <1>12, <1>13, <1>14, <1>15, <1>16, <1>17, <1>18, <1>19, <1>20, <1>27
     DEF Deploy
<1>28. CASE Rollback
  BY <1>0, <1>12, <1>14, <1>21, <1>22, <1>23, <1>24, <1>25, <1>28 DEF Rollback
<1>29. CASE Environment
  BY <1>1, <1>2, <1>3, <1>4, <1>5, <1>29 DEF Environment
<1>30. QED
  BY <1>6, <1>7, <1>8, <1>9, <1>26, <1>27, <1>28, <1>29 DEF Next

LEMMA StepDeployInv == DeployInv /\ [Next]_vars => DeployInv'
  BY StepTypeOK, StepInstalled, StepProgress, StepRollbackProgress, StepRestoring, StepStaysOff,
     StepTrusted DEF DeployInv

\* Every link, unit file, note and service refers to a release that is whole,
\* each step of a deployment and of a roll back finds what the steps before it
\* have done, and what a job could go back to was verified.
THEOREM DeployInvariant == Spec => []DeployInv
  BY InitDeployInv, StepDeployInv, PTL DEF Spec

\* A transaction that reports success has left its release, verified, in the
\* link, in both unit files, enabled, and in both services.
THEOREM SuccessIsWhole == Spec => DoneMeansDone
<1>1. DeployInv /\ [Next]_vars =>
        (pc = "continuity" /\ result' = "done" /\ pc' = "idle" =>
           /\ current = job.target /\ job.target \in verified
           /\ \A s \in Services :
                 /\ running[s] \in {job.target, "restarting"}
                 /\ unit[s] = job.target /\ enabled[s])
  BY DEF DeployInv, Progress, Switched, Restarted, Services
<1>2. QED
  BY <1>1, DeployInvariant, PTL DEF Spec, DoneMeansDone

\* Nothing runs while a roll back replaces the database and the release.
THEOREM NothingRuns == Spec => []NothingRunsMeanwhile
<1>1. DeployInv => NothingRunsMeanwhile
  BY DEF DeployInv, RollbackProgress, NothingRunsMeanwhile
<1>2. QED
  BY <1>1, DeployInvariant, PTL

\* Unless something was killed, a host no script works on has, runs and could go
\* back to nothing but releases that were verified.
THEOREM HostRunsVerified == Spec => []OnlyVerified
<1>1. DeployInv => OnlyVerified
  BY DEF DeployInv, Trusted, OnlyVerified
<1>2. QED
  BY <1>1, DeployInvariant, PTL

\* A failed first installation runs nothing, now and after a reboot, until the next job.
THEOREM FailedFirstIsOff == Spec => []FailedFirstStaysOff
<1>1. DeployInv => FailedFirstStaysOff
  BY NothingEnabled DEF DeployInv, StaysOff, FailedFirstStaysOff
<1>2. QED
  BY <1>1, DeployInvariant, PTL

\* A roll back that reports success in a failed transaction has restored what the
\* backup found: the link, the note, what starts with the host and what runs.
THEOREM RestoredIsRestored == Spec => RestoredMeansRestored
<1>1. ASSUME DeployInv, [Next]_vars, job.kind = "restore", result' = "restored", pc' = "idle"
      PROVE  /\ current = job.backup.revision
             /\ prior = job.backup.prior
             /\ enabled = job.backup.enabled
             /\ \A s \in Services :
                  /\ unit[s] = current
                  /\ running[s] \in {current, "restarting"} <=>
                       job.backup.active[s] \/ (s = "collector" /\ job.backup.active["web"])
  <2>1. pc = "rb_check"
    BY <1>1 DEF DeployInv, Restoring, RollbackSteps, DeploySteps, Go, End, disk, ghosts,
       Next, vars, Deploy, Rollback, Environment, StartTransaction, StartRollback,
       TakeBackup, RefuseBackup, InstallRelease, MakeSecret, InstallUnit, RecordPrior,
       SwitchCurrent, EnableServices, RestartCollector, AwaitDatabase, RestartWeb, Verify,
       Done, DeployFails, Rescue, ForceOffline, StopServices, RestoreDatabase, RestorePrior,
       RestoreEnabled, RestoreRunning, RolledBack, RollbackFails, ServiceFails,
       ServiceRestarts, CreateDatabase, XrayRestart, Kill, PowerFailure
  <2>2. /\ current = job.backup.revision /\ current \in Revisions
        /\ prior = job.backup.prior
        /\ \A s \in Services : enabled[s] = job.backup.enabled[s] /\ unit[s] = current
    BY <1>1, <2>1 DEF DeployInv, RollbackProgress, Restoring, Refitted, Reenabled, RollbackSteps,
       Services, TypeOK
  <2>3. enabled = job.backup.enabled
    BY <1>1, <2>2 DEF DeployInv, TypeOK, Job, Backup
  <2>4. \A s \in Services : running[s] \in {current, "restarting"} <=> running[s] # "inactive"
    BY <1>1, <2>1, <2>2, NameAssumption DEF DeployInv, RollbackProgress, Restoring, RollbackSteps
  <2>5. \A s \in Services :
          running[s] # "inactive" <=>
            job.backup.active[s] \/ (s = "collector" /\ job.backup.active["web"])
    BY <1>1, <2>1 DEF DeployInv, Restoring, Services
  <2>6. QED
    BY <2>2, <2>3, <2>4, <2>5
<1>2. DeployInv /\ [Next]_vars =>
        (job.kind = "restore" /\ result' = "restored" /\ pc' = "idle" =>
           /\ current = job.backup.revision
           /\ prior = job.backup.prior
           /\ enabled = job.backup.enabled
           /\ \A s \in Services :
                /\ unit[s] = current
                /\ running[s] \in {current, "restarting"} <=>
                     job.backup.active[s] \/ (s = "collector" /\ job.backup.active["web"]))
  BY <1>1
<1>3. QED
  BY <1>2, DeployInvariant, PTL DEF Spec, RestoredMeansRestored
=============================================================================
