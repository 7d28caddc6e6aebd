------------------------------- MODULE MCAwsPoll -------------------------------
(***************************************************************************)
(* An instance of AwsPoll for TLC: rules with every kind of field, and     *)
(* figures on and beside the limits; tokens are interchangeable.           *)
(***************************************************************************)
EXTENDS AwsPoll, TLC

TokenSymmetry == Permutations(Tokens)

Rule(state, protocol, from, to, cidrs, aliases) ==
    [state |-> state, protocol |-> protocol, from |-> from, to |-> to,
     cidrs |-> cidrs, ipv6Cidrs |-> Absent, aliases |-> aliases]

\* Ports 0 to 3; the policy has 1 and 2.
Shapes ==
    { Rule(state, protocol, from, to, {"world_ipv4"}, Absent) :
        state \in {"open", "closed", "other"}, protocol \in {"tcp", "udp", "all", "icmp", "other"},
        from \in {Absent, Garbled, 0, 1, 2}, to \in {Absent, Garbled, 1, 3, 4} }

Origins ==
    { [Rule("", protocol, 3, Absent, cidrs, aliases) EXCEPT !.ipv6Cidrs = ipv6Cidrs] :
        protocol \in {"tcp", "udp"},
        cidrs \in {Absent, Garbled, {}, {"private"}, {"restricted", "invalid_source"}},
        ipv6Cidrs \in {Absent, {}, {"world_ipv6", "private"}},
        aliases \in {Absent, Garbled, "none", "some"} }

Expected == Rule("open", "tcp", 1, 1, {"world_ipv4", "world_ipv6"}, "none")

MCFirewalls ==
    {<<>>, <<Garbled>>, <<Expected, Garbled>>}
      \cup { <<rule>> : rule \in Shapes \cup Origins }
      \cup { <<Expected, rule>> : rule \in Shapes \cup Origins }

MCFigures == SUBSET {Garbled, 0, 20, 50, 85}
=============================================================================
