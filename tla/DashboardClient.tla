--------------------------- MODULE DashboardClient ---------------------------
(***************************************************************************)
(* The page in the browser (static/app.js): it asks for the overview and   *)
(* for the chart of the selected range when it is loaded, every            *)
(* REFRESH_MS, when it becomes visible again and, the chart only, when a   *)
(* range is selected.  Requests overlap, nothing ties an answer to the     *)
(* newest request of its kind, and every answer is shown as it arrives.    *)
(*                                                                         *)
(* Time is in ticks.  A request is in flight for at most Timeout ticks,    *)
(* because fetchJSON aborts it; the server may answer, fail or be silent,  *)
(* and lose the connection between the head of an answer and its end.  The *)
(* status it tells may itself be unknown (_overall_health, web.py).        *)
(***************************************************************************)
EXTENDS Integers

CONSTANTS
    Ranges,     \* the buttons' data-hours
    Timeout,    \* the 8 seconds of fetchJSON
    Refresh,    \* REFRESH_MS
    Parallel,   \* bound: requests of one kind sent within a tick
    None        \* a model value: no chart, no notice

ASSUME ClientAssumption ==
    /\ Timeout \in Nat \ {0} /\ Refresh \in Nat /\ Timeout < Refresh
    /\ Parallel \in Nat \ {0}
    /\ None \notin Ranges \cup {"overview", "series"}
    /\ "overview" \notin Ranges

VARIABLES
    hours,      \* state.hours, the button shown as pressed
    points,     \* the range state.points is of, or None if it is empty
    status,     \* the status pill, known if it is one of setStatus's list
    notice,     \* what the line of the notice is about, or None
    flight,     \* how many requests of each kind and age are under way
    timer,      \* ticks since refreshTimer last fired
    hidden,     \* document.hidden
    server,     \* the status it tells, in time; or slow, or down
    settled,    \* ghost: ticks since the range was selected or the page shown
    calm        \* ghost: of these, ticks the server was well and told the same

vars == <<hours, points, status, notice, flight, timer, hidden, server, settled, calm>>

\* A server that is well answers in time and tells a status.
Telling == {"known", "unknown"}

Kinds == Ranges \cup {"overview"}
Requests == Kinds \X (0..Timeout)

\* An answer of before may come Timeout late, the refresh after it as well.
Patience == Timeout + Refresh + Timeout

TypeOK ==
    /\ hours \in Ranges
    /\ points \in Ranges \cup {None}
    /\ status \in Telling
    /\ notice \in {"overview", "series", None}
    /\ flight \in [Requests -> 0..Parallel]
    /\ timer \in 0..Refresh
    /\ hidden \in BOOLEAN
    /\ server \in Telling \cup {"slow", "down"}
    /\ settled \in 0..(Patience + 1) /\ calm \in 0..(Patience + 1)
    /\ calm > 0 => server \in Telling

Pending == {r \in Requests : flight[r] > 0}

Send(kinds) ==
    /\ \A kind \in kinds : flight[<<kind, 0>>] < Parallel
    /\ flight' = [r \in Requests |->
                    IF r \in kinds \X {0} THEN flight[r] + 1 ELSE flight[r]]

\* refreshSeries, up to its await: the range is taken when the request is sent.
RefreshSeries(range) == Send({range})

\* Mutant of RefreshAll: only a selection reads the chart.
RefreshOverviewOnly == Send({"overview"})

\* refreshAll: both requests go out at once.
RefreshAll == Send({"overview", hours})

\* The page is loaded; DOMContentLoaded has called refreshAll.
Init ==
    /\ hours \in Ranges
    /\ points = None
    /\ status = "unknown"
    /\ notice = None
    /\ flight = [r \in Requests |-> IF r \in {"overview", hours} \X {0} THEN 1 ELSE 0]
    /\ timer = 0
    /\ hidden = FALSE
    /\ server \in Telling \cup {"slow", "down"}
    /\ settled = 0 /\ calm = 0

SelectRange(range) ==
    /\ ~hidden
    /\ hours' = range
    /\ RefreshSeries(range)
    /\ settled' = 0 /\ calm' = 0
    /\ UNCHANGED <<points, status, notice, timer, hidden, server>>

\* Mutant of ShowOverview: the notice of an earlier failure stays.
ShowOverviewUnderNotice(said) ==
    /\ status' = said
    /\ UNCHANGED <<points, notice>>

\* renderOverview clears the notice first; a status that is none is unknown.
ShowOverview(said) ==
    /\ status' = said
    /\ notice' = None
    /\ UNCHANGED points

OverviewFails ==
    /\ status' = "unknown"
    /\ notice' = "overview"
    /\ UNCHANGED points

\* The chart of a range, or none of an answer without points.
ShowSeries(shown) ==
    /\ points' = shown
    /\ UNCHANGED <<status, notice>>

\* Mutant of SeriesFails: the old chart stays.
SeriesFailsKeeping ==
    /\ notice' = IF notice = None THEN "series" ELSE notice
    /\ UNCHANGED <<points, status>>

\* The chart is emptied; a notice that is shown already stays.
SeriesFails ==
    /\ points' = None
    /\ notice' = IF notice = None THEN "series" ELSE notice
    /\ UNCHANGED status

Ended(r) ==
    /\ flight' = [flight EXCEPT ![r] = @ - 1]
    /\ UNCHANGED <<hours, timer, hidden, server, settled, calm>>

\* What an answer to r may say: unless all was calm since r was sent, what is
\* told may have changed meanwhile, and back.
Said(r) == IF calm > r[2] THEN {server} ELSE Telling

\* An answer arrives, in any order.
Answer(r) ==
    /\ r \in Pending
    /\ server # "down"
    /\ IF r[1] = "overview" THEN \E said \in Said(r) : ShowOverview(said)
                            ELSE ShowSeries(r[1])
    /\ Ended(r)

Undelivered(r) ==
    /\ r \in Pending
    /\ server = "down" \/ (server = "slow" /\ r[2] = Timeout)

\* An error answer; or a lost connection, or the abort after Timeout, before
\* the head of an answer.
Fail(r) ==
    /\ Undelivered(r)
    /\ IF r[1] = "overview" THEN OverviewFails ELSE SeriesFails
    /\ Ended(r)

\* The same after the head of a good answer, or a body that cannot be parsed:
\* response.json().catch(() => ({})) makes it an answer that says nothing.
LoseBody(r) ==
    /\ Undelivered(r)
    /\ IF r[1] = "overview" THEN ShowOverview("unknown") ELSE ShowSeries(None)
    /\ Ended(r)

Later(ticks) == IF ticks > Patience THEN ticks ELSE ticks + 1

\* Time passes; a request at its timeout is aborted first, a due timer fires first.
Tick ==
    /\ timer < Refresh
    /\ \A r \in Pending : r[2] < Timeout
    /\ flight' = [r \in Requests |-> IF r[2] = 0 THEN 0 ELSE flight[<<r[1], r[2] - 1>>]]
    /\ timer' = timer + 1
    /\ settled' = IF hidden THEN 0 ELSE Later(settled)
    /\ calm' = IF hidden \/ server \notin Telling THEN 0 ELSE Later(calm)
    /\ UNCHANGED <<hours, points, status, notice, hidden, server>>

\* The interval: a hidden page asks for nothing.
TimerFires ==
    /\ timer = Refresh
    /\ timer' = 0
    /\ IF hidden THEN UNCHANGED flight ELSE RefreshAll
    /\ UNCHANGED <<hours, points, status, notice, hidden, server, settled, calm>>

Hide ==
    /\ ~hidden
    /\ hidden' = TRUE
    /\ settled' = 0 /\ calm' = 0
    /\ UNCHANGED <<hours, points, status, notice, flight, timer, server>>

\* visibilitychange
Show ==
    /\ hidden
    /\ hidden' = FALSE
    /\ RefreshAll
    /\ UNCHANGED <<hours, points, status, notice, timer, server, settled, calm>>

\* The server gets well, slow or down, or comes to tell another status.
ServerChange ==
    /\ server' \in (Telling \cup {"slow", "down"}) \ {server}
    /\ calm' = 0
    /\ UNCHANGED <<hours, points, status, notice, flight, timer, hidden, settled>>

Next ==
    \/ \E range \in Ranges : SelectRange(range)
    \/ \E r \in Requests : Answer(r) \/ Fail(r) \/ LoseBody(r)
    \/ Tick \/ TimerFires \/ Hide \/ Show \/ ServerChange

----------------------------------------------------------------------------
(***************************************************************************)
(* A slow answer for the range selected before may replace the chart of    *)
(* the one selected now, but not for longer than until the next refresh    *)
(* has been answered or given up.                                          *)
(***************************************************************************)
ChartOfSelection == settled > Patience => points \in {hours, None}

(***************************************************************************)
(* Once the server has answered in time, and told the same, for as long as *)
(* that takes, while the user looked at one range, the page shows what the *)
(* server tells and the chart of that range, and no notice: neither a      *)
(* late failure, an answer that was cut off and is shown as a status that  *)
(* is unknown, without a notice, nor one that was overtaken is left.       *)
(***************************************************************************)
ShowsTruth ==
    calm > Patience => points = hours /\ status = server /\ notice = None

(***************************************************************************)
(* Why: a request for another range is older than the selection, so it is  *)
(* gone Timeout after it; and a chart it has left is replaced by the       *)
(* refresh that is next then.                                              *)
(***************************************************************************)
OldRequestsOnly ==
    /\ hidden => settled = 0
    /\ \A r \in Pending : r[1] \in {hours, "overview"} \/ settled <= r[2]

NextRefreshCorrects ==
    points \notin {hours, None} =>
        \/ settled <= Timeout + timer
        \/ <<hours, timer>> \in Pending /\ settled <= Timeout + Refresh + timer

(***************************************************************************)
(* What is shown and not true is due to be replaced, by the next refresh,  *)
(* or by the request of the last one: it comes after the answers of        *)
(* before.                                                                 *)
(***************************************************************************)
Due(kind) ==
    \/ calm <= Timeout + timer
    \/ <<kind, timer>> \in Pending /\ calm <= Timeout + Refresh + timer

NextRefreshTells ==
    /\ calm <= settled
    /\ (status = server /\ notice = None) \/ Due("overview")
    /\ points = hours \/ Due(hours)

ClientInv ==
    TypeOK /\ OldRequestsOnly /\ NextRefreshCorrects /\ NextRefreshTells

(***************************************************************************)
(* Whatever failed, timed out, was cut off or arrived late before: once    *)
(* the server answers in time and tells the same, and the user looks at    *)
(* one range, the page comes to show that range, the status that is told   *)
(* and no notice, and stays so.                                            *)
(***************************************************************************)
Settles ==
    <>[](calm > 0) => <>[](points = hours /\ status = server /\ notice = None)

(***************************************************************************)
(* Time passes, a due timer fires, and a request ends at its timeout; a    *)
(* server that works answers at last, or it does not.  What the user and   *)
(* the server do is not fair.                                              *)
(***************************************************************************)
Spec ==
    /\ Init /\ [][Next]_vars
    /\ WF_vars(Tick) /\ WF_vars(TimerFires)
    /\ WF_vars(\E r \in Requests : Answer(r) \/ Fail(r) \/ LoseBody(r))
=============================================================================
