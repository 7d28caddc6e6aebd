-------------------------- MODULE MCDashboardClient --------------------------
(***************************************************************************)
(* An instance of DashboardClient for TLC: two ranges, requests of one     *)
(* tick, a refresh every two.                                              *)
(***************************************************************************)
EXTENDS DashboardClient

DayAndWeek == {"24", "168"}
=============================================================================
