------------------------------ MODULE AlarmPages ------------------------------
(***************************************************************************)
(* The alarms of the instance, read page by page: _collect_alarm_pages and *)
(* _safe_alarms (aws_lightsail.py).  The service is external and answers   *)
(* anything: pages of any length, further pages without end, a token it    *)
(* has given before, a page that is none, or an error.                     *)
(***************************************************************************)
EXTENDS Naturals, Sequences, FiniteSets

CONSTANTS
    MaxPages,   \* _MAX_ALARM_PAGES
    MaxAlarms,  \* _MAX_ALARMS, also the slice in _safe_alarms
    PageLength, \* bound: the longest page of the service
    Tokens,     \* page tokens
    NoToken,    \* the last page has none
    BadToken,   \* one that is too long or no string
    NoResult,   \* not finished
    Failed      \* get_alarms is one of the failures of the poll

ASSUME PagesAssumption ==
    /\ MaxPages \in Nat \ {0} /\ MaxAlarms \in Nat /\ PageLength \in Nat
    /\ NoToken \notin Tokens /\ BadToken \notin Tokens /\ NoToken # BadToken

VARIABLES
    states, \* alarm_states, not yet counted
    page,   \* the number of pages read
    asking, \* page_token
    seen,   \* seen_tokens
    result, \* what _safe_alarms makes of it, or the exception of a call
    sent,   \* ghost: all alarms the service has told of
    last    \* ghost: the token of its last page, NoResult before the first

alarmVars == <<states, page, asking, seen, result, sent, last>>

\* A malformed alarm becomes an entry without a state, which is "other" too.
AlarmState == {"ok", "alarm", "other"}
Pages == UNION {[1..n -> AlarmState] : n \in 0..PageLength}

Outcome ==
    [available : BOOLEAN, alarms : Nat, active : Nat, indeterminate : Nat,
     truncated : BOOLEAN]

ASSUME ResultAssumption ==
    /\ NoResult \notin Outcome /\ Failed \notin Outcome
    /\ NoResult # Failed /\ NoResult # NoToken

AlarmInit ==
    /\ states = <<>> /\ page = 0
    /\ asking = NoToken /\ seen = {}
    /\ result = NoResult
    /\ sent = <<>> /\ last = NoResult

----------------------------------------------------------------------------

Among(alarms, kind) == Cardinality({i \in DOMAIN alarms : alarms[i] = kind})

\* _safe_alarms
Evaluate(alarms, truncated) ==
    [available |-> TRUE, alarms |-> Len(alarms), active |-> Among(alarms, "alarm"),
     indeterminate |-> Among(alarms, "other"), truncated |-> truncated]

\* The answer {} of a first page that is none.
Unread ==
    [available |-> FALSE, alarms |-> 0, active |-> 0, indeterminate |-> 0,
     truncated |-> FALSE]

\* What of a page still fits.
Fitting(alarms) ==
    LET room == MaxAlarms - Len(states)
    IN  IF Len(alarms) <= room THEN alarms ELSE SubSeq(alarms, 1, room)

\* Mutant of Overfull: one too many is not noticed.
OverfullByTwo(alarms) == Len(states) + Len(alarms) > MaxAlarms + 1

\* An alarm is met for which there is no room.
Overfull(alarms) == Len(states) + Len(alarms) > MaxAlarms

\* Mutant of NoMore: a token that comes again is taken for the end.
NoMoreOrSeen(next) == next = NoToken \/ next \in seen

NoMore(next) == next = NoToken

\* A page that is a page: the loop goes on only with a new and proper token.
ReadPage(alarms, next) ==
    /\ result = NoResult
    /\ page < MaxPages
    /\ page' = page + 1
    /\ states' = states \o Fitting(alarms)
    /\ sent' = sent \o alarms
    /\ last' = next
    /\ \/ /\ NoMore(next)
          /\ result' = Evaluate(states', Overfull(alarms))
          /\ UNCHANGED <<asking, seen>>
       \/ /\ ~ NoMore(next)
          /\ next = BadToken \/ next \in seen \/ Overfull(alarms)
          /\ result' = Evaluate(states', TRUE)
          /\ UNCHANGED <<asking, seen>>
       \/ /\ ~ NoMore(next)
          /\ next # BadToken /\ next \notin seen /\ ~ Overfull(alarms)
          /\ asking' = next
          /\ seen' = seen \cup {next}
          /\ result' = IF page' = MaxPages THEN Evaluate(states', TRUE) ELSE NoResult

\* What is returned is no page: what came before it counts, as truncated.
ReadMalformed ==
    /\ result = NoResult
    /\ result' = IF states = <<>> THEN Unread ELSE Evaluate(states, TRUE)
    /\ UNCHANGED <<states, page, asking, seen, sent, last>>

\* The call raises, and with it all of get_alarms fails.
ReadFails ==
    /\ result = NoResult
    /\ result' = Failed
    /\ UNCHANGED <<states, page, asking, seen, sent, last>>

\* The next poll reads the pages from the start.
NextPoll ==
    /\ result # NoResult
    /\ states' = <<>> /\ page' = 0
    /\ asking' = NoToken /\ seen' = {}
    /\ result' = NoResult
    /\ sent' = <<>> /\ last' = NoResult

ReadAlarms ==
    \/ \E alarms \in Pages, next \in Tokens \cup {NoToken, BadToken} :
          ReadPage(alarms, next)
    \/ ReadMalformed \/ ReadFails

AlarmNext == ReadAlarms \/ NextPoll

AlarmSpec == AlarmInit /\ [][AlarmNext]_alarmVars

----------------------------------------------------------------------------
(* Properties. *)

\* get_alarms adds nothing to the failures, missing_data and risks of a poll.
Unremarkable ==
    /\ result \in Outcome
    /\ result.available /\ ~ result.truncated
    /\ result.active = 0 /\ result.indeterminate = 0

\* The service has said that there are no more.
Ended == last = NoToken

(***************************************************************************)
(* If the alarms give no cause to call the instance degraded, the service  *)
(* has been read to its end and all of its alarms, on whatever page, were  *)
(* OK: neither a limit that is met exactly, nor a token that comes again,  *)
(* nor a page lost half-way passes for the end of the list.                *)
(***************************************************************************)
QuietMeansQuiet ==
    Unremarkable => Ended /\ \A i \in DOMAIN sent : sent[i] = "ok"

(***************************************************************************)
(* Why: until there is a result nothing has been left out, and a result    *)
(* that is not marked as truncated has counted all there was.              *)
(***************************************************************************)
AlarmTypeOK ==
    /\ states \in Seq(AlarmState) /\ Len(states) <= MaxAlarms
    /\ page \in 0..MaxPages
    /\ asking \in Tokens \cup {NoToken} /\ seen \subseteq Tokens
    /\ result \in Outcome \cup {Failed, NoResult}
    /\ sent \in Seq(AlarmState)
    /\ last \in Tokens \cup {NoToken, BadToken, NoResult}

Counted ==
    (result \in Outcome /\ result.available) =>
        /\ result.active = Among(states, "alarm")
        /\ result.indeterminate = Among(states, "other")
        /\ ~ result.truncated => states = sent /\ Ended

AlarmInv ==
    /\ AlarmTypeOK
    /\ result = NoResult =>
          states = sent /\ ~ Ended /\ page < MaxPages /\ (asking = NoToken <=> page = 0)
    /\ Counted
=============================================================================
