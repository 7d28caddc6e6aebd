------------------------------ MODULE PathProbes ------------------------------
(***************************************************************************)
(* The verdicts of PathProbeCollector (probes.py) on the three synthetic   *)
(* paths, from what DNS, the addresses it names and the WARP proxy answer. *)
(***************************************************************************)
EXTENDS Integers, Sequences, FiniteSets

\* The distinct addresses among the first 128 lines of `getent ahosts`, which
\* names each several times; "garbled" is no address.
Entry == {"global", "private", "garbled"}

\* What an address does when it is asked for a WebSocket upgrade.
Reaction == {"accepts", "refuses", "silent", "bad_tls", "declines"}

\* resolve_public_addresses gives at most four.
MaxAddresses == 4

\* How many it gives.  Failed answers have no entries.
Globals(entries) ==
    LET found == Cardinality({i \in DOMAIN entries : entries[i] = "global"})
    IN  IF found <= MaxAddresses THEN found ELSE MaxAddresses

DnsOk(entries) == Globals(entries) > 0

(***************************************************************************)
(* One turn of the loop in probe_websocket_upgrade.  A silent address uses *)
(* up the time there is, a TLS error or any response ends the probe, and   *)
(* after a refusal the next address is tried.                              *)
(***************************************************************************)
\* Mutant of Try: after a silent address there is another one to try.
TryOn(outcome, reaction) ==
    IF outcome # "trying" THEN outcome
    ELSE CASE reaction = "accepts" -> "accepted"
           [] reaction \in {"refuses", "silent"} -> "trying"
           [] reaction \in {"bad_tls", "declines"} -> "failed"

Try(outcome, reaction) ==
    IF outcome # "trying" THEN outcome
    ELSE CASE reaction = "accepts" -> "accepted"
           [] reaction = "refuses" -> "trying"
           [] reaction \in {"silent", "bad_tls", "declines"} -> "failed"

\* What has come of the probe after the first n addresses; the i-th that DNS
\* gives reacts with reactions[i].
WebSocketOk(entries, reactions) ==
    LET outcome[n \in 0..MaxAddresses] ==
            IF n = 0 THEN "trying" ELSE Try(outcome[n - 1], reactions[n])
    IN  outcome[Globals(entries)] = "accepted"

\* probe_warp_trace: status 200 and the marker; "off" is a trace without it.
WarpOk(trace) == trace = "on"
=============================================================================
