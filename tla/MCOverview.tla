------------------------------- MODULE MCOverview -------------------------------
(***************************************************************************)
(* An instance of Overview for TLC: the ports of the program's defaults,   *)
(* and what may be found to listen and to answer.                          *)
(***************************************************************************)
EXTENDS Overview

Bind(transport, address, port) ==
    [transport |-> transport, address |-> address, port |-> port]

\* All but sshd and the StatsService.
Others ==
    << Bind("tcp", "wildcard", 80), Bind("tcp", "loopback", 8787),
       Bind("tcp", "localhost", 1087), Bind("udp", "wildcard", 68),
       Bind("udp", "link_local", 546), Bind("unix", "name", 0) >>

Ssh == Bind("tcp", "wildcard", 22)
Stats == Bind("tcp", "loopback", 10084)

Fine == Others \o <<Ssh, Stats, Bind("tcp", "other", 22)>>

MCInventories ==
    { Fine,
      Others \o <<Stats, Bind("tcp", "loopback", 22)>>,     \* sshd not public
      Others \o <<Ssh, Bind("udp", "other", 53)>>,            \* StatsService down
      Fine \o <<Bind("tcp", "name", 10084)>> }               \* and public, too

MCAnswers == { <<"garbled", "private">>, <<"private", "global", "global">> }

MCReactions ==
    { <<"refuses", "accepts">>, <<"silent", "accepts">> }
=============================================================================
