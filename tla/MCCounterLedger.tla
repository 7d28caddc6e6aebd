--------------------------- MODULE MCCounterLedger ---------------------------
(***************************************************************************)
(* CounterLedger for TLC, with Xray alone (host_enabled = false in the     *)
(* configuration).                                                         *)
(***************************************************************************)
EXTENDS CounterLedger

OnlyXray == {"xray"}

TwoInstants == {1, 2}
=============================================================================
