-------------------------- MODULE RecordTransaction --------------------------
(***************************************************************************)
(* MetricStore.record_batch statement by statement (store.py).             *)
(* CounterLedger records a batch in one step; here the transaction is      *)
(* open for as long as its statements take.  The rows it has written so    *)
(* far are visible to its own SELECTs and to nobody else; every statement  *)
(* may raise, the process may be killed, the host may go down and the      *)
(* database may be taken away between any two of them, while traffic,      *)
(* restarts of Xray, checkpoints and backups go on.  BEGIN IMMEDIATE keeps *)
(* every other writer out.                                                 *)
(*                                                                         *)
(* The gauge rows before the counters and the health rows after them carry *)
(* no counter: that they may raise is part of Rollback.                    *)
(***************************************************************************)
EXTENDS CounterLedger

VARIABLES
    open,      \* between BEGIN IMMEDIATE and COMMIT or ROLLBACK
    work,      \* the ledger as the open transaction sees it
    sampled,   \* the sources whose counter_samples row it has inserted
    moved      \* the sources whose counter_cursors row it has written

transaction == <<open, work, sampled, moved>>

TransactionInit ==
    /\ Init
    /\ open = FALSE /\ work = EmptyLedger /\ sampled = {} /\ moved = {}

\* No transaction is open any more, and nothing is left of its view.
Close ==
    /\ open' = FALSE /\ work' = EmptyLedger /\ sampled' = {} /\ moved' = {}

BeginImmediate ==
    /\ pc = "record" /\ ~ open
    /\ open' = TRUE
    /\ work' = store
    /\ UNCHANGED <<sampled, moved, vars>>

\* The counters of a batch come in the order of the collectors: host first.
AtTurn(s) == /\ open /\ s \in Observed \ moved
             /\ "host" \in Observed \ moved => s = "host"

\* The SELECT of the cursor, both checks, and the INSERT of the sample.
InsertSample(s) ==
    /\ AtTurn(s) /\ s \notin sampled
    /\ ~ Rejected(work.cursor[s], batch[s])
    /\ work' = [work EXCEPT
         !.recorded[s] = @ + Delta(work.cursor[s], batch[s]),
         !.flagged[s] = IsReset(work.cursor[s], batch[s])]
    /\ sampled' = sampled \cup {s}
    /\ UNCHANGED <<open, moved, vars>>

MoveCursor(s) ==
    /\ AtTurn(s) /\ s \in sampled
    /\ work' = [work EXCEPT !.cursor[s] = batch[s]]
    /\ moved' = moved \cup {s}
    /\ UNCHANGED <<open, sampled, vars>>

\* Mutant of Commit: committed by a statement in between.
CommitEarly ==
    /\ open
    /\ store' = work
    /\ EndOfCycle
    /\ Close

Commit ==
    /\ open /\ moved = Observed
    /\ store' = work
    /\ EndOfCycle
    /\ Close

(***************************************************************************)
(* BEGIN IMMEDIATE finds the database locked, or any statement raises: the *)
(* batch is given up.                                                      *)
(***************************************************************************)
Rollback == LoseBatch /\ Close

\* Mutant of Killed: each statement was its own transaction.
KilledAutocommitted ==
    /\ pc # "stopped"
    /\ pc' = "stopped" /\ seen' = NothingSeen /\ batch' = NoBatch
    /\ store' = IF open THEN work ELSE store
    /\ UNCHANGED <<world, flushed, backup>>
    /\ Close

(***************************************************************************)
(* The collector is stopped or killed, the host goes down, or rollback.sh  *)
(* replaces the database: whoever opens the file next finds no COMMIT in   *)
(* the write-ahead log and ignores what the transaction wrote.             *)
(***************************************************************************)
Killed == CollectorStop /\ Close

HostDown == HostReboot /\ Close

DatabaseReplaced == RestoreDatabase /\ Close

\* Everything that goes on beside the transaction, or while none is open.
Elsewhere ==
    \/ \E s \in Sources : Traffic(s) \/ StartFromZero(s)
    \/ HostCollect \/ XrayInspect \/ XrayStats
    \/ CollectorStart
    \/ Flush \/ BackupDatabase

TransactionNext ==
    \/ BeginImmediate
    \/ \E s \in Sources : InsertSample(s) \/ MoveCursor(s)
    \/ Commit \/ Rollback
    \/ Killed \/ HostDown \/ DatabaseReplaced
    \/ Elsewhere /\ UNCHANGED transaction

TransactionSpec == TransactionInit /\ [][TransactionNext]_<<vars, transaction>>

----------------------------------------------------------------------------

(***************************************************************************)
(* Whatever interrupts record_batch between whichever statements, the      *)
(* database goes through the states of CounterLedger, which knows a batch  *)
(* only as recorded whole, with every sample's delta and cursor taken      *)
(* together and none rejected, or lost.                                    *)
(***************************************************************************)
AtomicBatches == Spec

\* What the statements so far make of the database the transaction began on.
Undecided ==
    /\ open \in BOOLEAN
    /\ ~ open => sampled = {} /\ moved = {}
    /\ open =>
        /\ pc = "record"
        /\ moved \subseteq sampled /\ sampled \subseteq Observed
        /\ work \in Ledger
        /\ \A s \in Sources :
             /\ work.cursor[s] =
                  (IF s \in moved THEN batch[s] ELSE store.cursor[s])
             /\ s \notin sampled => /\ work.recorded[s] = store.recorded[s]
                                    /\ work.flagged[s] = store.flagged[s]
             /\ s \in sampled =>
                  /\ ~ Rejected(store.cursor[s], batch[s])
                  /\ work.recorded[s] = store.recorded[s]
                                          + Delta(store.cursor[s], batch[s])
                  /\ work.flagged[s] = IsReset(store.cursor[s], batch[s])
=============================================================================
