----------------------------- MODULE MCDashboardAws -----------------------------
(***************************************************************************)
(* An instance of DashboardAws for TLC: polls that read both directions or *)
(* one, with and without the plan allocation of the instance.              *)
(***************************************************************************)
EXTENDS DashboardAws

SetBack == {-1}

Partly ==
    { [read |-> read, vouches |-> TRUE, allocated |-> read # {"in"}] :
        read \in {{"in"}, {"in", "out"}} }

\* calm is a ghost that only properties under Cadence look at, which this
\* instance's times do not keep: states that differ in it are one.
WithoutCalm == <<process, world, samples, page>>
=============================================================================
