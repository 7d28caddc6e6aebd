----------------------------- MODULE DashboardAws -----------------------------
(***************************************************************************)
(* One request for the page while the collector works: overview (web.py)   *)
(* reads the clock, then the gauges, then the health rows.  Each SELECT is *)
(* a read of its own, so that commits fall between them.                   *)
(***************************************************************************)
EXTENDS AwsSnapshot

VARIABLES
    step,   \* the next step of the request
    asked,  \* `now`, and the real time at which it was read
    gauges, \* what _latest_gauges has returned
    health  \* what _latest_health has returned

page == <<step, asked, gauges, health>>
vars == <<awsVars, page>>

NoGauges == [name \in Names |-> NoRow]

PageTypeOK ==
    /\ step \in {"idle", "gauges", "health", "shown"}
    /\ asked \in [now : Int, real : Nat]
    /\ gauges \in [Names -> Snapshot \cup {NoRow}]
    /\ health \in Snapshot \cup {NoRow}

PageInit ==
    /\ step = "idle"
    /\ asked = [now |-> 0, real |-> 0]
    /\ gauges = NoGauges /\ health = NoRow

\* now = time.time()
ReadNow ==
    /\ step = "idle"
    /\ step' = "gauges"
    /\ asked' = [now |-> Wall, real |-> time]
    /\ UNCHANGED <<gauges, health>>

ReadGauges ==
    /\ step = "gauges"
    /\ step' = "health"
    /\ gauges' = LatestGauges
    /\ UNCHANGED <<asked, health>>

ReadHealth ==
    /\ step = "health"
    /\ step' = "shown"
    /\ health' = LatestHealth
    /\ UNCHANGED <<asked, gauges>>

\* The answer is sent, and forgotten.
Answer ==
    /\ step = "shown"
    /\ step' = "idle"
    /\ asked' = [now |-> 0, real |-> 0]
    /\ gauges' = NoGauges /\ health' = NoRow

PageNext == ReadNow \/ ReadGauges \/ ReadHealth \/ Answer

Init == AwsInit /\ PageInit

Next ==
    \/ AwsNext /\ UNCHANGED page
    \/ PageNext /\ UNCHANGED awsVars

Spec == Init /\ [][Next]_vars

OnPage == Shown(gauges, health, asked.now)

----------------------------------------------------------------------------
(* Properties. *)

(***************************************************************************)
(* All AWS figures of a page are from one poll, the one its service status *)
(* and the provenance of its plan are from, so that a sum is that of the   *)
(* directions beside it: commits between the SELECTs, partial polls that   *)
(* leave older rows behind, snapshots recorded again, pruning and another  *)
(* configuration after a restart mix nothing.                              *)
(***************************************************************************)
OnePoll == step = "shown" => \A name \in OnPage : gauges[name] = health

(***************************************************************************)
(* A figure on the page was read from Lightsail no longer ago than a       *)
(* reading is fresh, however often it was recorded again since, whatever   *)
(* batches were lost or processes restarted, and however the clock was set *)
(* (which gains no more than it is set by); and if the request was slow,   *)
(* not much after the page was asked for either.                           *)
(***************************************************************************)
FreshFigures ==
    step = "shown" =>
        \A name \in OnPage :
            /\ asked.real - gauges[name].real <= FreshFor + 2 * MaxOffset
            /\ gauges[name].real - asked.real <= Skew + 2 * MaxOffset

(***************************************************************************)
(* Why: the rows a request holds were all recorded, and a snapshot that is *)
(* recorded or held is known by its moment.                                *)
(***************************************************************************)
Held == ({gauges[name] : name \in Names} \cup {health}) \ {NoRow}

PageInv ==
    /\ AwsInv /\ PageTypeOK
    /\ Known(samples \cup Held)
    /\ step # "idle" => asked.real <= time /\ asked.now - asked.real \in Offsets
=============================================================================
