---------------------------- MODULE TrafficAccount ----------------------------
(***************************************************************************)
(* What the byte ledger promises, with no collector, cursor or clock in    *)
(* it.  Every source carries bytes; the account of a source only grows and *)
(* never passes what the source carried since it was first watched.  The   *)
(* one way an account gets smaller is that the whole ledger returns to an  *)
(* earlier state of itself, one of those it kept (a database backup, or    *)
(* what was on the disk when the power went).                              *)
(***************************************************************************)
EXTENDS Integers

CONSTANT Sources

VARIABLES carried,    \* bytes that really flowed, per source
          account,    \* bytes the ledger attributes to each source
          kept        \* earlier accounts the ledger may return to

vars == <<carried, account, kept>>

Zero == [s \in Sources |-> 0]

Init == carried = Zero /\ account = Zero /\ kept = {Zero}

\* One more byte crosses source s.
Carry(s) ==
    /\ carried' = [carried EXCEPT ![s] = @ + 1]
    /\ UNCHANGED <<account, kept>>

\* The ledger catches up with some of the traffic, never beyond it.
Attribute ==
    /\ account' \in [Sources -> Nat]
    /\ \A s \in Sources : account[s] <= account'[s] /\ account'[s] <= carried[s]
    /\ UNCHANGED <<carried, kept>>

\* The present account becomes one to return to; older ones may be dropped.
Keep ==
    /\ kept' \subseteq kept \cup {account}
    /\ UNCHANGED <<carried, account>>

Return ==
    /\ account' \in kept
    /\ UNCHANGED <<carried, kept>>

Next == (\E s \in Sources : Carry(s)) \/ Attribute \/ Keep \/ Return

Spec == Init /\ [][Next]_vars
=============================================================================
