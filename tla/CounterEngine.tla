---------------------------- MODULE CounterEngine ----------------------------
(***************************************************************************)
(* The counter branch of MetricStore.record_batch (store.py): what one     *)
(* observation of a cumulative counter does to the cursor row kept for it. *)
(* A reading is a CounterObservation: the reset identity, the raw value    *)
(* and the collector's timestamp.  A cursor is the last committed reading, *)
(* or NoCursor when counter_cursors has no row for the key.                *)
(* The operators take any record with the fields id, raw and at, so that a *)
(* specification may carry further (ghost) fields along.                   *)
(***************************************************************************)
EXTENDS Integers

CONSTANT NoCursor   \* no row in counter_cursors

(***************************************************************************)
(* Both ValueErrors of the loop: time must not run backwards, and one      *)
(* timestamp cannot carry two different readings of the same counter.      *)
(***************************************************************************)
OutOfOrder(cursor, reading) ==
    cursor # NoCursor /\ reading.at < cursor.at

SameInstantConflict(cursor, reading) ==
    /\ cursor # NoCursor
    /\ reading.at = cursor.at
    /\ \/ reading.raw # cursor.raw
       \/ reading.id # cursor.id

Rejected(cursor, reading) ==
    OutOfOrder(cursor, reading) \/ SameInstantConflict(cursor, reading)

\* Mutant of IsReset: only a smaller value is noticed, not a new identity.
IsDecrease(cursor, reading) == cursor # NoCursor /\ reading.raw < cursor.raw

\* Mutant of IsReset: an unlikely jump is taken for a reset, too.
IsResetOrJump(cursor, reading) ==
    /\ cursor # NoCursor
    /\ \/ reading.id # cursor.id
       \/ reading.raw < cursor.raw
       \/ reading.raw > cursor.raw + 1

IsReset(cursor, reading) ==
    /\ cursor # NoCursor
    /\ \/ reading.id # cursor.id
       \/ reading.raw < cursor.raw

\* Mutant of Delta: after a reset everything the counter shows is new.
DeltaSinceReset(cursor, reading) ==
    IF cursor = NoCursor THEN 0
    ELSE IF IsReset(cursor, reading) THEN reading.raw
    ELSE reading.raw - cursor.raw

\* Bytes the observation adds: nothing for a baseline or for a reset.
Delta(cursor, reading) ==
    IF cursor = NoCursor \/ IsReset(cursor, reading)
    THEN 0
    ELSE reading.raw - cursor.raw
=============================================================================
