----------------------------- MODULE MCRetention -----------------------------
(***************************************************************************)
(* An instance of Retention for TLC: hours of two ticks; samples of one    *)
(* byte or none; at most four rows, so that their ages matter and not how  *)
(* many there are.                                                         *)
(***************************************************************************)
EXTENDS Retention

SevenTicks == 0..6
OneByteOrNone == {0, 1}
UpToThreePoints == 1..3

FewRows == Cardinality(db.rawAt \cup db.rolledAt) <= 4
=============================================================================
