---------------------------- MODULE CounterLedger ----------------------------
(***************************************************************************)
(* From a byte on the wire to a byte in the ledger: the kernel's and       *)
(* Xray's cumulative counters, the collector that samples them             *)
(* (collectors/host.py, collectors/xray.py), the transaction that turns    *)
(* readings into deltas (store.py, record_batch), and what can happen in   *)
(* between: restarts of Xray, of the host and of the collector, failing    *)
(* `docker inspect` and statsquery calls, a wall clock that is set, a      *)
(* power failure that loses commits which were only in the write-ahead     *)
(* log, and a database backup that is put back by deploy/rollback.sh.      *)
(*                                                                         *)
(* One counter stands for all counters of a source: they share the         *)
(* reading's timestamp and reset identity and have rows of their own.      *)
(* time.time() may be set by anyone at any moment, so every call of it     *)
(* returns some member of Times.                                           *)
(***************************************************************************)
EXTENDS CounterEngine, FiniteSets

CONSTANTS
    Sources,      \* the enabled counter sources, among "host" and "xray"
    Times,        \* the values a wall clock may show
    MaxCarried,   \* bound: bytes that cross one source
    MaxIdentity,  \* bound: boots of the host, starts of the container
    MaxInitial,   \* bound: what a counter shows when it is first watched
    NoReading     \* nothing of this source in the batch

ASSUME SourcesAssumption == Sources \subseteq {"host", "xray"}
ASSUME TimesAssumption == Times \subseteq Nat
ASSUME BoundsAssumption ==
    /\ MaxCarried \in Nat
    /\ MaxIdentity \in Nat \ {0}
    /\ MaxInitial \in Nat

\* The reset identity made of "inspect-unavailable", or of
\* "fallback:<hostname>" when boot_id cannot be read.
Fallback == 0

(***************************************************************************)
(* A reading as record_batch gets it, with two ghost fields: the identity  *)
(* the source really had when the value was read, and the bytes it had     *)
(* carried by then.                                                        *)
(***************************************************************************)
Reading == [id : Nat, raw : Nat, at : Times, life : Nat, carried : Nat]

ASSUME SentinelAssumption == NoCursor \notin Reading /\ NoReading \notin Reading

Ledger == [cursor   : [Sources -> Reading \cup {NoCursor}],
           recorded : [Sources -> Nat],
           flagged  : [Sources -> BOOLEAN]]

VARIABLES
    identity,  \* the boot id or container start the source really has
    count,     \* the source's own cumulative counter
    carried,   \* ghost: bytes carried since the source was first watched
    pc,        \* where collect_once is
    seen,      \* XrayCollector.collect's observed_at and reset_id
    batch,     \* the readings collected so far in this cycle
    store,     \* the database: cursors, sum of deltas, last row's is_reset
    flushed,   \* the database a power failure would leave
    backup     \* the newest metrics.sqlite3 of deploy/backup.sh

world == <<identity, count, carried>>
collector == <<pc, seen, batch>>
databases == <<store, flushed, backup>>
vars == <<world, collector, databases>>

EmptyLedger == [cursor   |-> [s \in Sources |-> NoCursor],
                recorded |-> [s \in Sources |-> 0],
                flagged  |-> [s \in Sources |-> FALSE]]

NoBatch == [s \in Sources |-> NoReading]
NothingSeen == [at |-> NoReading, id |-> Fallback]

TypeOK ==
    /\ identity \in [Sources -> Nat]
    /\ count \in [Sources -> Nat]
    /\ carried \in [Sources -> Nat]
    /\ pc \in {"stopped", "host", "inspect", "stats", "record"}
    /\ seen \in [at : Times \cup {NoReading}, id : Nat]
    /\ pc = "stats" => seen.at \in Times
    /\ pc \in {"inspect", "stats"} => "xray" \in Sources
    /\ batch \in [Sources -> Reading \cup {NoReading}]
    /\ store \in Ledger
    /\ flushed \in Ledger
    /\ backup \in Ledger

Init ==
    /\ identity = [s \in Sources |-> 1]
    /\ count \in [Sources -> 0..MaxInitial]
    /\ carried = [s \in Sources |-> 0]
    /\ pc = "host"
    /\ seen = NothingSeen
    /\ batch = NoBatch
    /\ store = EmptyLedger
    /\ flushed = EmptyLedger
    /\ backup = EmptyLedger

----------------------------------------------------------------------------
(* The counted sources. *)

Traffic(s) ==
    /\ carried[s] < MaxCarried
    /\ count' = [count EXCEPT ![s] = @ + 1]
    /\ carried' = [carried EXCEPT ![s] = @ + 1]
    /\ UNCHANGED <<identity, collector, databases>>

\* A counter starts from zero: Xray's container starts anew, with another
\* StartedAt; an interface of the host is re-created under the same boot id.
StartFromZero(s) ==
    /\ s = "xray" => identity[s] < MaxIdentity
    /\ identity' = IF s = "xray" THEN [identity EXCEPT ![s] = @ + 1] ELSE identity
    /\ count' = [count EXCEPT ![s] = 0]
    /\ UNCHANGED <<carried, collector, databases>>

\* Mutant of HostReboot: the cursors on the disk are older than the samples.
HostRebootTearing ==
    /\ \A s \in Sources : identity[s] < MaxIdentity
    /\ identity' = [s \in Sources |-> identity[s] + 1]
    /\ count' = [s \in Sources |-> 0]
    /\ pc' = "stopped" /\ seen' = NothingSeen /\ batch' = NoBatch
    /\ store' = [store EXCEPT !.cursor = flushed.cursor]
    /\ UNCHANGED <<carried, flushed, backup>>

(***************************************************************************)
(* A reboot ends the collector and every counter.  When the power went,    *)
(* commits that had not reached the disk are gone (journal_mode WAL,       *)
(* synchronous NORMAL): the database is the flushed one again.             *)
(***************************************************************************)
HostReboot ==
    /\ \A s \in Sources : identity[s] < MaxIdentity
    /\ identity' = [s \in Sources |-> identity[s] + 1]
    /\ count' = [s \in Sources |-> 0]
    /\ pc' = "stopped" /\ seen' = NothingSeen /\ batch' = NoBatch
    /\ store' \in {store, flushed}
    /\ UNCHANGED <<carried, flushed, backup>>

----------------------------------------------------------------------------
(* One cycle of the collector. *)

ReadingOf(s, id, at) ==
    [id |-> id, raw |-> count[s], at |-> at,
     life |-> identity[s], carried |-> carried[s]]

(***************************************************************************)
(* HostCollector.collect: clock, /proc/net/dev, boot_id.  The boot id may  *)
(* be unreadable (the counters are kept, under the fallback identity), the *)
(* counters may be unreadable or the collector may raise (no counters).    *)
(***************************************************************************)
HostCollect ==
    /\ pc = "host"
    /\ pc' = IF "xray" \in Sources THEN "inspect" ELSE "record"
    /\ \/ batch' = batch
       \/ /\ "host" \in Sources
          /\ \E at \in Times, id \in {identity["host"], Fallback} :
                batch' = [batch EXCEPT !["host"] = ReadingOf("host", id, at)]
    /\ UNCHANGED <<world, seen, databases>>

\* XrayCollector.collect up to the reset identity: clock, `docker inspect`.
XrayInspect ==
    /\ pc = "inspect"
    /\ \E at \in Times, id \in {identity["xray"], Fallback} :
          seen' = [at |-> at, id |-> id]
    /\ pc' = "stats"
    /\ UNCHANGED <<world, batch, databases>>

(***************************************************************************)
(* The statsquery call and the rest of collect.  A failed call, an invalid *)
(* response, or a response without this counter leaves no reading.         *)
(***************************************************************************)
XrayStats ==
    /\ pc = "stats"
    /\ \/ batch' = batch
       \/ batch' = [batch EXCEPT !["xray"] = ReadingOf("xray", seen.id, seen.at)]
    /\ seen' = NothingSeen
    /\ pc' = "record"
    /\ UNCHANGED <<world, databases>>

Observed == {s \in Sources : batch[s] # NoReading}

(***************************************************************************)
(* What the counter loop of record_batch makes of a whole batch.  That the *)
(* loop, statement by statement, comes to this or to nothing is what       *)
(* RecordTransaction is about.                                             *)
(***************************************************************************)
Committed(ledger) ==
    [cursor   |-> [s \in Sources |->
                     IF s \in Observed THEN batch[s] ELSE ledger.cursor[s]],
     recorded |-> [s \in Sources |->
                     IF s \in Observed
                     THEN ledger.recorded[s] + Delta(ledger.cursor[s], batch[s])
                     ELSE ledger.recorded[s]],
     flagged  |-> [s \in Sources |->
                     IF s \in Observed
                     THEN IsReset(ledger.cursor[s], batch[s])
                     ELSE ledger.flagged[s]]]

EndOfCycle ==
    /\ pc' = "host" /\ seen' = NothingSeen /\ batch' = NoBatch
    /\ UNCHANGED <<world, flushed, backup>>

RecordBatch ==
    /\ pc = "record"
    /\ \A s \in Observed : ~ Rejected(store.cursor[s], batch[s])
    /\ store' = Committed(store)
    /\ EndOfCycle

(***************************************************************************)
(* The transaction is rolled back: one observation was rejected, or the    *)
(* database was locked or full.  run_forever swallows the exception and    *)
(* the batch is gone.                                                      *)
(***************************************************************************)
LoseBatch ==
    /\ pc = "record"
    /\ EndOfCycle
    /\ UNCHANGED store

\* The process dies or is stopped; systemd starts it again.
CollectorStop ==
    /\ pc # "stopped"
    /\ pc' = "stopped" /\ seen' = NothingSeen /\ batch' = NoBatch
    /\ UNCHANGED <<world, databases>>

CollectorStart ==
    /\ pc = "stopped"
    /\ pc' = "host"
    /\ UNCHANGED <<world, seen, batch, databases>>

----------------------------------------------------------------------------
(* The database file. *)

\* The WAL reaches the file and the disk (a checkpoint).
Flush ==
    /\ flushed' = store
    /\ UNCHANGED <<world, collector, store, backup>>

\* backup.sh takes an online copy while the collector may be anywhere.
BackupDatabase ==
    /\ backup' = store
    /\ UNCHANGED <<world, collector, store, flushed>>

\* Mutant of RestoreDatabase: the cursors are restored, the samples are not.
RestoreCursorsOnly ==
    /\ pc' = "stopped" /\ seen' = NothingSeen /\ batch' = NoBatch
    /\ store' = [store EXCEPT !.cursor = backup.cursor]
    /\ UNCHANGED <<world, flushed, backup>>

(***************************************************************************)
(* rollback.sh with a database backup: stop the collector, remove the WAL, *)
(* then replace the whole file.  Cut off between the two, after a          *)
(* collector that had to be killed, it leaves the commits that had reached *)
(* the file itself.                                                        *)
(***************************************************************************)
RestoreDatabase ==
    /\ pc' = "stopped" /\ seen' = NothingSeen /\ batch' = NoBatch
    /\ store' \in {backup, flushed}
    /\ UNCHANGED <<world, flushed, backup>>

Next ==
    \/ \E s \in Sources : Traffic(s) \/ StartFromZero(s)
    \/ HostReboot
    \/ HostCollect \/ XrayInspect \/ XrayStats
    \/ RecordBatch \/ LoseBatch
    \/ CollectorStop \/ CollectorStart
    \/ Flush \/ BackupDatabase \/ RestoreDatabase

Spec == Init /\ [][Next]_vars

----------------------------------------------------------------------------
(* What the ledger may never do. *)

(***************************************************************************)
(* The bytes attributed to a source never exceed the bytes it carried      *)
(* since it was first watched: no restart, lost batch, clock step, failed  *)
(* inspect, power failure or restored backup makes record_batch count a    *)
(* byte twice or count what flowed before the first sample.                *)
(***************************************************************************)
NeverOvercounts == \A s \in Sources : store.recorded[s] <= carried[s]

(***************************************************************************)
(* One committed delta never exceeds what flowed between the two readings  *)
(* it compares, even when Xray restarted between inspect and statsquery or *)
(* between the readings.                                                   *)
(***************************************************************************)
DeltaWithinInterval ==
    [][RecordBatch =>
         \A s \in Observed : store.cursor[s] # NoCursor =>
             store'.recorded[s] - store.recorded[s]
                 <= batch[s].carried - store.cursor[s].carried]_vars

\* The counter itself was not cleared between two readings.
SameRun(r1, r2) == r1.carried - r1.raw = r2.carried - r2.raw

(***************************************************************************)
(* If the counter was not cleared between two consecutive samples and both *)
(* carry the same reset identity, the delta is exactly what flowed, across *)
(* lost batches, collector downtime and restored backups in between.       *)
(***************************************************************************)
ExactWithinRun ==
    [][RecordBatch =>
         \A s \in Observed :
            (/\ store.cursor[s] # NoCursor
             /\ store.cursor[s].id = batch[s].id
             /\ SameRun(store.cursor[s], batch[s]))
            => store'.recorded[s] - store.recorded[s]
                 = batch[s].carried - store.cursor[s].carried]_vars

(***************************************************************************)
(* When both readings carry the identity the container really had, a delta *)
(* of Xray's that leaves out bytes is flagged is_reset: no undercount is   *)
(* silent.  (The host gives no such promise: an interface that is          *)
(* re-created within a boot keeps the boot's identity.)                    *)
(***************************************************************************)
Truthful(r) == r.id = r.life

UndercountFlagged ==
    [][RecordBatch =>
         \A s \in Observed \cap {"xray"} :
            (/\ store.cursor[s] # NoCursor
             /\ Truthful(store.cursor[s]) /\ Truthful(batch[s])
             /\ store'.recorded[s] - store.recorded[s]
                  < batch[s].carried - store.cursor[s].carried)
            => store'.flagged[s]]_vars

----------------------------------------------------------------------------
(* A sentence of docs/metric-contract.md, read strictly. *)

(***************************************************************************)
(* "if source identity is unchanged and C_now >= C_previous, delta is      *)
(* C_now - C_previous": the identity being the one the source has, not the *)
(* one a failed inspect or boot_id read left the collector with.           *)
(***************************************************************************)
UnchangedSourceExact ==
    [][RecordBatch =>
         \A s \in Observed :
            (/\ store.cursor[s] # NoCursor
             /\ store.cursor[s].life = batch[s].life
             /\ batch[s].raw >= store.cursor[s].raw)
            => store'.recorded[s] - store.recorded[s]
                 = batch[s].raw - store.cursor[s].raw]_vars

----------------------------------------------------------------------------
(* The ledger implements the account its readers rely on. *)

Account == INSTANCE TrafficAccount
    WITH account <- store.recorded, kept <- {flushed.recorded, backup.recorded}

AccountSpec == Account!Spec

----------------------------------------------------------------------------
(* Why NeverOvercounts holds: the inductive invariant. *)

(***************************************************************************)
(* A reading can be no later than now: what flowed after it covers what    *)
(* the source's counter has grown past it.                                 *)
(***************************************************************************)
ReadInThePast(s, r) ==
    /\ r.carried <= carried[s]
    /\ count[s] + r.carried <= r.raw + carried[s]

\* The sum of deltas is covered by what had flowed at the last cursor.
Backed(ledger, s) ==
    IF ledger.cursor[s] = NoCursor
    THEN ledger.recorded[s] = 0
    ELSE /\ ledger.recorded[s] <= ledger.cursor[s].carried
         /\ ReadInThePast(s, ledger.cursor[s])

\* The reading in the batch is later than the cursor it will replace.
LaterThanCursor(s) ==
    store.cursor[s] # NoCursor =>
        /\ store.cursor[s].carried <= batch[s].carried
        /\ batch[s].raw + store.cursor[s].carried
             <= store.cursor[s].raw + batch[s].carried

LedgerInv ==
    /\ TypeOK
    /\ \A s \in Sources : \A ledger \in {store, flushed, backup} : Backed(ledger, s)
    /\ \A s \in Observed : ReadInThePast(s, batch[s]) /\ LaterThanCursor(s)
    /\ pc \in {"stopped", "host"} => batch = NoBatch
=============================================================================
