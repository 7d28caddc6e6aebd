------------------------- MODULE MCRecordTransaction -------------------------
(***************************************************************************)
(* The transaction with the host and Xray in one batch.  Modest keeps the  *)
(* copies of the database empty, the bytes few and Xray from restarting on *)
(* its own (its identity may still be unreadable): what these add is the   *)
(* question of MCCounterLedger's run.                                      *)
(***************************************************************************)
EXTENDS RecordTransaction

HostAndXray == {"host", "xray"}

TwoInstants == {1, 2}

Modest ==
    /\ flushed = EmptyLedger /\ backup = EmptyLedger
    /\ carried["xray"] <= 1 /\ identity["xray"] = identity["host"]
    /\ carried["host"] + carried["xray"] <= 2
=============================================================================
