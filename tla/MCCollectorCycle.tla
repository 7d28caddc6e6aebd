--------------------------- MODULE MCCollectorCycle ---------------------------
(***************************************************************************)
(* An instance of CollectorCycle for TLC: a clock that is set by one tick, *)
(* to and fro.                                                             *)
(***************************************************************************)
EXTENDS CollectorCycle

ToAndFro == {0, 1}
=============================================================================
