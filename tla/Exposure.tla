------------------------------- MODULE Exposure -------------------------------
(***************************************************************************)
(* What NetworkCollector (network.py) makes of the lines of `ss -lntu`:    *)
(* listeners, drift from the configured ports, and five access paths.      *)
(***************************************************************************)
EXTENDS Naturals, Sequences

CONSTANTS
    PublicTcp,   \* expected_public_ports
    LoopbackTcp, \* expected_loopback_ports
    PublicUdp,   \* expected_public_udp_ports
    LoopbackUdp, \* expected_loopback_udp_ports
    MaxLines     \* 4096

Ports == 1..65535

ASSUME PolicyAssumption ==
    /\ PublicTcp \cup LoopbackTcp \cup PublicUdp \cup LoopbackUdp \subseteq Ports
    /\ MaxLines \in Nat

\* A line binds an address to a port; "name" is whatever is no IP address.
Address == {"localhost", "loopback", "link_local", "wildcard", "other", "name"}

Listener(transport, port, exposure) ==
    [transport |-> transport, port |-> port, exposure |-> exposure]

\* _classify_endpoint
ExposureOf(address) ==
    CASE address \in {"localhost", "loopback"} -> "loopback"
      [] address = "link_local" -> "link_local"
      [] OTHER -> "public"

\* parse_ss_listeners: a set, without lines of other sockets or bad ports.
Parsed(lines) ==
    {Listener(lines[i].transport, lines[i].port, ExposureOf(lines[i].address)) :
        i \in {k \in DOMAIN lines :
                 /\ k <= MaxLines
                 /\ lines[k].transport \in {"tcp", "udp"}
                 /\ lines[k].port \in Ports}}

----------------------------------------------------------------------------

\* DHCP clients listen for their servers.
Exempt == {68, 546}

\* Mutant of Unexpected: a port expected on the loopback is let pass.
UnexpectedAnywhere(listeners) ==
    {l \in listeners :
        /\ l.exposure = "public"
        /\ \/ l.transport = "tcp" /\ l.port \notin PublicTcp \cup LoopbackTcp
           \/ l.transport = "udp" /\ l.port \notin PublicUdp \cup Exempt}

Unexpected(listeners) ==
    {l \in listeners :
        /\ l.exposure = "public"
        /\ \/ l.transport = "tcp" /\ l.port \notin PublicTcp
           \/ l.transport = "udp" /\ l.port \notin PublicUdp \cup Exempt}

Expected ==
    {Listener("tcp", port, "public") : port \in PublicTcp}
      \cup {Listener("udp", port, "public") : port \in PublicUdp}
      \cup {Listener("tcp", port, "loopback") : port \in LoopbackTcp}
      \cup {Listener("udp", port, "loopback") : port \in LoopbackUdp}

Missing(listeners) == Expected \ listeners

ExposureState(listeners) ==
    IF Unexpected(listeners) # {} \/ Missing(listeners) # {} THEN "degraded" ELSE "healthy"

\* The five access paths, whatever the policy says of their ports.
ListenerPath ==
    [path_xray_listener       |-> Listener("tcp", 80, "public"),
     path_warp_proxy_listener |-> Listener("tcp", 1087, "loopback"),
     path_ssh                 |-> Listener("tcp", 22, "public"),
     path_stats_service       |-> Listener("tcp", 10084, "loopback"),
     path_private_dashboard   |-> Listener("tcp", 8787, "loopback")]

ListenerPaths == DOMAIN ListenerPath

\* listener_path
ListenerPathState(path, listeners) ==
    LET key == ListenerPath[path]
    IN  IF key \in listeners THEN "healthy"
        ELSE IF \E l \in listeners : l.transport = key.transport /\ l.port = key.port
             THEN "degraded" ELSE "unavailable"
=============================================================================
