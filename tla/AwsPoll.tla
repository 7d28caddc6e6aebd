-------------------------------- MODULE AwsPoll --------------------------------
(***************************************************************************)
(* One poll of LightsailCollector (aws_lightsail.py), call by call: what   *)
(* it makes of the answers of Lightsail, which is external and may leave   *)
(* out, garble or refuse anything, and the health it reports.              *)
(***************************************************************************)
EXTENDS AlarmPages, Integers, Functions

CONSTANTS
    ExpectedPorts, \* _expected_public_tcp_ports
    MaxPort,       \* 65535
    CpuHigh,       \* _CPU_HIGH_PERCENT
    BurstLow,      \* _BURST_LOW_PERCENT
    Firewalls,     \* the port states the service may tell: sequences of rules
    Figures,       \* data points of a metric: sets of numbers, and Garbled
    Operator,      \* whether the plan allocation is configured
    Absent, Garbled \* of a field, a figure or a whole answer

ASSUME PollAssumption ==
    /\ MaxPort \in Nat /\ ExpectedPorts \subseteq 0..MaxPort
    /\ CpuHigh \in Nat /\ BurstLow \in Nat
    /\ Operator \in BOOLEAN
    /\ Absent # Garbled /\ Absent \notin Int /\ Garbled \notin Int
    /\ \A points \in Figures : points \subseteq Nat \cup {Garbled}

Calls == <<"get_instance", "get_instance_port_states", "network_in", "network_out",
           "cpu_utilization", "burst_capacity", "status_check_failed">>

Metrics == Range(Calls) \ {"get_instance", "get_instance_port_states"}

VARIABLES
    asked,    \* how many of the calls have been made
    answered, \* whether responses is not empty
    failures, missing, risks, \* whether these are not empty
    instance, \* instance_state: "running", "stopped" or "unknown"
    told      \* ghost: Lightsail has told all there is so far, and it is well

pollVars == <<asked, answered, failures, missing, risks, instance, told>>
vars == <<alarmVars, pollVars>>

----------------------------------------------------------------------------
(* The firewall. *)

World == {"world_ipv4", "world_ipv6"}

Given(field) == field \notin {Absent, Garbled}

\* _rule_scopes
Sources(rule) == UNION {field \in {rule.cidrs, rule.ipv6Cidrs} : Given(field)}

Scopes(rule) ==
    Sources(rule) \cup IF rule.aliases = "some" THEN {"managed_alias"} ELSE {}

BadScopes(rule) ==
    \/ Garbled \in {rule.cidrs, rule.ipv6Cidrs, rule.aliases}
    \/ "invalid_source" \in Scopes(rule)
    \/ Scopes(rule) = {}

\* _rule_descriptor
First(rule) == IF rule.from = Absent THEN -1 ELSE rule.from
Last(rule) == IF rule.to = Absent THEN First(rule) ELSE rule.to

ValidShape(rule) ==
    \/ rule.protocol \in {"all", "icmp"}
    \/ /\ rule.protocol \in {"tcp", "udp"}
       /\ First(rule) # Garbled /\ Last(rule) # Garbled
       /\ 0 <= First(rule) /\ First(rule) <= Last(rule) /\ Last(rule) <= MaxPort

\* Mutant of ExpectedRule: a range counts by its first port.
ExpectedByFirst(rule) ==
    ValidShape(rule) /\ rule.protocol = "tcp" /\ First(rule) \in ExpectedPorts

ExpectedRule(rule) ==
    /\ ValidShape(rule) /\ rule.protocol = "tcp"
    /\ First(rule) = Last(rule) /\ First(rule) \in ExpectedPorts

\* _safe_firewall: the rules it looks at, and its two counts.
Opening(rules) == {rule \in Range(rules) : rule # Garbled /\ rule.state \in {"open", ""}}

InvalidRules(rules) ==
    \/ \E rule \in Range(rules) : rule = Garbled \/ rule.state \notin {"open", "", "closed"}
    \/ \E rule \in Opening(rules) : BadScopes(rule) \/ ~ ValidShape(rule)

UnsafeRules(rules) ==
    \E rule \in Opening(rules) : Scopes(rule) \cap World # {} /\ ~ ExpectedRule(rule)

----------------------------------------------------------------------------

Init ==
    /\ AlarmInit
    /\ asked = 0
    /\ answered = FALSE /\ failures = FALSE /\ missing = FALSE /\ risks = FALSE
    /\ instance = "unknown"
    /\ told = TRUE

\* The next call is made, and an answer that is a mapping is looked at.
Answered(call, lacking, risky, well) ==
    /\ asked < Len(Calls) /\ Calls[asked + 1] = call
    /\ asked' = asked + 1
    /\ answered' = TRUE
    /\ missing' = (missing \/ lacking)
    /\ risks' = (risks \/ risky)
    /\ told' = (told /\ well)
    /\ UNCHANGED <<alarmVars, failures>>

\* _safe_instance_state, _safe_static_ip, _instance_plan_allocation_bytes
GetInstance(state, staticIp, allocated) ==
    /\ Answered("get_instance",
                state = "unknown" \/ staticIp = Absent \/ ~ (Operator \/ allocated),
                staticIp = FALSE,
                state = "running" /\ staticIp = TRUE /\ (Operator \/ allocated))
    /\ instance' = state

(***************************************************************************)
(* What the firewall lets in from the whole world, by transport and port:  *)
(* the ports of the policy, and no rule that might mean something else.    *)
(***************************************************************************)
Opens(rule, transport, port) ==
    /\ Sources(rule) \cap World # {}
    /\ \/ rule.protocol = "all"
       \/ rule.protocol = transport /\ First(rule) <= port /\ port <= Last(rule)

FirewallWell(rules) ==
    \A rule \in Range(rules) :
        /\ rule # Garbled
        /\ rule.state # "closed" =>
              /\ rule.state \in {"open", ""} /\ ValidShape(rule) /\ ~ BadScopes(rule)
              /\ \A transport \in {"tcp", "udp"}, port \in 0..MaxPort :
                    Opens(rule, transport, port) => transport = "tcp" /\ port \in ExpectedPorts

\* The port states are a sequence of rules, or no sequence.
GetPortStates(rules) ==
    /\ IF rules = Garbled
       THEN Answered("get_instance_port_states", TRUE, FALSE, FALSE)
       ELSE Answered("get_instance_port_states", InvalidRules(rules), UnsafeRules(rules),
                     FirewallWell(rules))
    /\ UNCHANGED instance

\* _metric_values: an answer without data points gives none, too.
Values(points) == points \ {Garbled}

GetMetric(call, points) ==
    /\ CASE call \in {"network_in", "network_out"} ->
              Answered(call, Values(points) = {}, FALSE, Values(points) # {})
         [] call = "cpu_utilization" ->
              Answered(call, Values(points) = {}, \E v \in Values(points) : v >= CpuHigh,
                       Values(points) # {} /\ \A v \in Values(points) : v < CpuHigh)
         [] call = "burst_capacity" ->
              Answered(call, Values(points) = {}, \E v \in Values(points) : v <= BurstLow,
                       Values(points) # {} /\ \A v \in Values(points) : v > BurstLow)
         [] call = "status_check_failed" ->
              Answered(call, Values(points) = {}, \E v \in Values(points) : v > 0,
                       Values(points) = {0})
    /\ UNCHANGED instance

\* The call raises.
CallFails ==
    /\ asked < Len(Calls)
    /\ asked' = asked + 1
    /\ failures' = TRUE
    /\ told' = FALSE
    /\ UNCHANGED <<alarmVars, answered, missing, risks, instance>>

\* There is no SDK, or no client: _unavailable.
NoClient ==
    /\ asked = 0
    /\ asked' = Len(Calls)
    /\ failures' = TRUE
    /\ told' = FALSE
    /\ ReadFails
    /\ UNCHANGED <<answered, missing, risks, instance>>

\* After the last call, get_alarms is one more.
GetAlarms ==
    /\ asked = Len(Calls)
    /\ ReadAlarms
    /\ UNCHANGED pollVars

NewPoll ==
    /\ NextPoll
    /\ asked' = 0
    /\ answered' = FALSE /\ failures' = FALSE /\ missing' = FALSE /\ risks' = FALSE
    /\ instance' = "unknown"
    /\ told' = TRUE

Next ==
    \/ \E state \in {"running", "stopped", "unknown"}, staticIp \in {TRUE, FALSE, Absent},
          allocated \in BOOLEAN : GetInstance(state, staticIp, allocated)
    \/ \E rules \in Firewalls \cup {Garbled} : GetPortStates(rules)
    \/ \E call \in Metrics, points \in Figures : GetMetric(call, points)
    \/ CallFails \/ NoClient \/ GetAlarms \/ NewPoll

Spec == Init /\ [][Next]_vars

----------------------------------------------------------------------------

\* The state in the health row, once all has been asked.
State ==
    IF instance = "stopped" \/ (~ answered /\ result = Failed) THEN "unavailable"
    ELSE IF failures \/ missing \/ risks \/ ~ Unremarkable THEN "degraded"
    ELSE "healthy"

(***************************************************************************)
(* A healthy row means that Lightsail has told of everything, completely,  *)
(* and that it is well: the instance runs behind a static address, its     *)
(* firewall opens to the world no port but those expected and has no rule  *)
(* that is not understood, the readable figures are within their limits,   *)
(* and all alarms there are, on whatever page, are OK.                     *)
(***************************************************************************)
HealthyMeansWell ==
    (result # NoResult /\ State = "healthy") =>
        told /\ Ended /\ \A i \in DOMAIN sent : sent[i] = "ok"

(***************************************************************************)
(* Why: what is not complete or not well leaves one of the three marks,    *)
(* and the alarms are read after everything else.                          *)
(***************************************************************************)
PollInv ==
    /\ AlarmInv
    /\ asked \in 0..Len(Calls)
    /\ answered \in BOOLEAN /\ failures \in BOOLEAN /\ missing \in BOOLEAN
    /\ risks \in BOOLEAN /\ told \in BOOLEAN
    /\ instance \in {"running", "stopped", "unknown"}
    /\ asked = 0 => told
    /\ told \/ failures \/ missing \/ risks \/ instance = "stopped"
    /\ page > 0 \/ result # NoResult => asked = Len(Calls)
=============================================================================
