----------------------------- MODULE MCAwsSnapshot -----------------------------
(***************************************************************************)
(* Instances of AwsSnapshot for TLC: the month's usage is read or not,     *)
(* and the health row vouches for whatever there is.                       *)
(***************************************************************************)
EXTENDS AwsSnapshot

BackAndForth == {-1, 1}

AllOrNothing ==
    { [read |-> read, vouches |-> TRUE, allocated |-> FALSE] :
        read \in {{}, {"in", "out"}} }
=============================================================================
