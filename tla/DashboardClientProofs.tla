------------------------ MODULE DashboardClientProofs ------------------------
(***************************************************************************)
(* Proofs about DashboardClient for every timeout, refresh interval, set   *)
(* of ranges and number of requests in flight.                             *)
(***************************************************************************)
EXTENDS DashboardClient, TLAPS

USE ClientAssumption

LEMMA InitClientInv == Init => ClientInv
<1> SUFFICES ASSUME Init PROVE ClientInv
  OBVIOUS
<1>1. TypeOK
  <2>1. flight \in [Requests -> 0..Parallel]
    BY DEF Init
  <2>2. 0 \in 0..Refresh /\ 0 \in 0..(Patience + 1)
    BY DEF Patience
  <2>3. calm = 0 /\ ~ (0 > 0)
    BY DEF Init
  <2>4. QED
    BY <2>1, <2>2, <2>3 DEF Init, TypeOK, Telling
<1>3. NextRefreshTells
  BY DEF Init, NextRefreshTells, Due
<1>4. OldRequestsOnly
  BY DEF Init, OldRequestsOnly, Pending, Requests
<1>5. NextRefreshCorrects
  BY DEF Init, NextRefreshCorrects
<1>6. QED
  BY <1>1, <1>3, <1>4, <1>5 DEF ClientInv

\* Sending only adds requests, of age zero.
LEMMA Sent ==
    ASSUME TypeOK, NEW kinds \in SUBSET Kinds, Send(kinds)
    PROVE  /\ flight' \in [Requests -> 0..Parallel]
           /\ Pending \subseteq Pending'
           /\ \A r \in Pending' : r \in Pending \/ r \in kinds \X {0}
           /\ \A kind \in kinds : <<kind, 0>> \in Pending'
<1>1. \A r \in Requests : flight[r] \in 0..Parallel
  BY DEF TypeOK
<1>2. \A kind \in kinds : <<kind, 0>> \in Requests
  BY DEF Requests
<1>3. \A r \in Requests : r \in kinds \X {0} => flight[r] < Parallel
  BY DEF Send
<1>4. \A r \in Requests : flight'[r] = IF r \in kinds \X {0} THEN flight[r] + 1
                                                             ELSE flight[r]
  BY DEF Send
<1>5. \A r \in Requests : flight'[r] \in 0..Parallel
  BY <1>1, <1>3, <1>4
<1>6. flight' \in [Requests -> 0..Parallel]
  BY <1>5 DEF Send
<1>7. QED
  BY <1>1, <1>2, <1>4, <1>6 DEF Pending

\* A request that ends leaves the others.
LEMMA EndedLeaves ==
    ASSUME TypeOK, NEW r \in Pending, Ended(r)
    PROVE  /\ flight' \in [Requests -> 0..Parallel]
           /\ Pending' \subseteq Pending
           /\ Pending \ {r} \subseteq Pending'
<1>1. r \in Requests /\ flight[r] \in 1..Parallel
  BY DEF TypeOK, Pending
<1>2. flight' \in [Requests -> 0..Parallel]
  BY <1>1 DEF TypeOK, Ended
<1>3. \A q \in Requests : flight'[q] = IF q = r THEN flight[q] - 1 ELSE flight[q]
  BY DEF Ended, TypeOK
<1>4. \A q \in Requests : flight[q] \in 0..Parallel
  BY DEF TypeOK
<1>5. QED
  BY <1>2, <1>3, <1>4 DEF Pending

\* Every request is a tick older; none of them is new.
LEMMA TickAges ==
    ASSUME TypeOK, Tick
    PROVE  /\ flight' \in [Requests -> 0..Parallel]
           /\ \A r \in Pending : r[2] < Timeout /\ <<r[1], r[2] + 1>> \in Pending'
           /\ \A r \in Pending' : r[2] > 0 /\ <<r[1], r[2] - 1>> \in Pending
<1>1. \A r \in Requests : r[1] \in Kinds /\ r[2] \in 0..Timeout /\ r = <<r[1], r[2]>>
  BY DEF Requests
<1>2. \A r \in Requests : r[2] # 0 => <<r[1], r[2] - 1>> \in Requests
  BY <1>1 DEF Requests
<1>3. \A r \in Requests : flight'[r] = IF r[2] = 0 THEN 0 ELSE flight[<<r[1], r[2] - 1>>]
  BY DEF Tick
<1>4. \A r \in Requests : flight'[r] \in 0..Parallel
  <2> TAKE r \in Requests
  <2>1. flight'[r] = IF r[2] = 0 THEN 0 ELSE flight[<<r[1], r[2] - 1>>]
    BY <1>3
  <2>2. CASE r[2] = 0
    BY <2>1, <2>2
  <2>3. CASE r[2] # 0
    <3>1. flight[<<r[1], r[2] - 1>>] \in 0..Parallel
      BY <1>2, <2>3 DEF TypeOK
    <3>2. QED
      BY <2>1, <2>3, <3>1
  <2>4. QED
    BY <2>2, <2>3
<1>5. flight' \in [Requests -> 0..Parallel]
  BY <1>4 DEF Tick
<1>6. ASSUME NEW r \in Pending
      PROVE  r[2] < Timeout /\ <<r[1], r[2] + 1>> \in Pending'
  <2>1. r \in Requests /\ r[2] < Timeout /\ flight[r] > 0
    BY DEF Tick, Pending
  <2>2. <<r[1], r[2] + 1>> \in Requests
    BY <1>1, <2>1 DEF Requests
  <2>3. flight'[<<r[1], r[2] + 1>>] = flight[<<r[1], r[2] + 1 - 1>>]
    BY <1>1, <1>3, <2>1, <2>2
  <2>4. <<r[1], r[2] + 1 - 1>> = r
    BY <1>1, <2>1
  <2>5. QED
    BY <2>1, <2>2, <2>3, <2>4 DEF Pending
<1>7. ASSUME NEW r \in Pending'
      PROVE  r[2] > 0 /\ <<r[1], r[2] - 1>> \in Pending
  BY <1>1, <1>2, <1>3 DEF Pending
<1>8. QED
  BY <1>5, <1>6, <1>7

\* What an action that shows an answer, or its failure, does besides.
LEMMA EndedKeeps ==
    ASSUME TypeOK, NEW r \in Requests, Answer(r) \/ Fail(r) \/ LoseBody(r)
    PROVE  /\ r \in Pending /\ Ended(r)
           /\ UNCHANGED <<hours, timer, hidden, server, settled, calm>>
           /\ r[1] = "overview" =>
                /\ UNCHANGED points
                /\ \/ status' \in Telling /\ notice' = None
                   \/ status' = "unknown" /\ notice' = "overview"
           /\ r[1] # "overview" =>
                /\ points' \in {r[1], None} /\ UNCHANGED status
                /\ notice' = notice \/ (notice = None /\ notice' = "series")
<1>1. \A said \in Said(r) : said \in Telling
  BY DEF Said, TypeOK, Patience, Requests
<1>2. CASE Answer(r)
  BY <1>1, <1>2 DEF Answer, Ended, ShowOverview, ShowSeries
<1>3. CASE Fail(r)
  BY <1>3 DEF Fail, Undelivered, Ended, OverviewFails, SeriesFails
<1>4. CASE LoseBody(r)
  BY <1>4 DEF LoseBody, Undelivered, Ended, ShowOverview, ShowSeries, Telling
<1>5. QED
  BY <1>2, <1>3, <1>4

LEMMA StepTypeOK == TypeOK /\ [Next]_vars => TypeOK'
<1> SUFFICES ASSUME TypeOK, [Next]_vars PROVE TypeOK'
  OBVIOUS
<1>1. ASSUME NEW range \in Ranges, SelectRange(range) PROVE TypeOK'
  <2>1. flight' \in [Requests -> 0..Parallel]
    BY <1>1, Sent DEF SelectRange, RefreshSeries, Kinds
  <2>2. 0 \in 0..(Patience + 1)
    BY DEF Patience
  <2>3. QED
    BY <1>1, <2>1, <2>2 DEF SelectRange, TypeOK
<1>2. ASSUME NEW r \in Requests, Answer(r) \/ Fail(r) \/ LoseBody(r) PROVE TypeOK'
  <2>1. flight' \in [Requests -> 0..Parallel]
    BY <1>2, EndedKeeps, EndedLeaves
  <2>2. r[1] # "overview" => r[1] \in Ranges
    BY DEF Requests, Kinds
  <2>3. /\ points' \in Ranges \cup {None}
        /\ status' \in Telling
        /\ notice' \in {"overview", "series", None}
    BY <1>2, <2>2, EndedKeeps DEF TypeOK, Telling
  <2>4. QED
    BY <1>2, <2>1, <2>3, EndedKeeps DEF TypeOK
<1>3. CASE Tick
  <2>1. flight' \in [Requests -> 0..Parallel]
    BY <1>3, TickAges
  <2>2. /\ timer' \in 0..Refresh /\ settled' \in 0..(Patience + 1)
        /\ calm' \in 0..(Patience + 1) /\ (calm' > 0 => server' \in Telling)
    BY <1>3 DEF Tick, TypeOK, Patience, Later
  <2>3. QED
    BY <1>3, <2>1, <2>2 DEF Tick, TypeOK
<1>4. CASE TimerFires
  <2>1. flight' \in [Requests -> 0..Parallel]
    BY <1>4, Sent DEF TimerFires, RefreshAll, Kinds, TypeOK
  <2>2. QED
    BY <1>4, <2>1 DEF TimerFires, TypeOK
<1>5. CASE Hide
  <2>1. 0 \in 0..(Patience + 1)
    BY DEF Patience
  <2>2. QED
    BY <1>5, <2>1 DEF Hide, TypeOK
<1>6. CASE Show
  <2>1. flight' \in [Requests -> 0..Parallel]
    BY <1>6, Sent DEF Show, RefreshAll, Kinds, TypeOK
  <2>2. QED
    BY <1>6, <2>1 DEF Show, TypeOK
<1>7. CASE ServerChange
  <2>1. 0 \in 0..(Patience + 1)
    BY DEF Patience
  <2>2. QED
    BY <1>7, <2>1 DEF ServerChange, TypeOK
<1>8. CASE UNCHANGED vars
  BY <1>8 DEF vars, TypeOK
<1>9. QED
  BY <1>1, <1>2, <1>3, <1>4, <1>5, <1>6, <1>7, <1>8 DEF Next

\* A request out at once belongs to the selected range, and an old one gets older.
LEMMA StepOldRequestsOnly ==
    TypeOK /\ OldRequestsOnly /\ [Next]_vars => OldRequestsOnly'
<1> SUFFICES ASSUME TypeOK, OldRequestsOnly, [Next]_vars
             PROVE  /\ hidden' => settled' = 0
                    /\ \A r \in Pending' : r[1] \in {hours', "overview"} \/ settled' <= r[2]
  BY DEF OldRequestsOnly
<1>0. \A r \in Requests : r[2] \in 0..Timeout
  BY DEF Requests
<1>1. ASSUME NEW r \in Requests, Answer(r) \/ Fail(r) \/ LoseBody(r) PROVE OldRequestsOnly'
  BY <1>1, EndedKeeps, EndedLeaves DEF OldRequestsOnly
<1>2. CASE Tick
  <2>1. ASSUME NEW r \in Pending'
        PROVE  r[1] \in {hours', "overview"} \/ settled' <= r[2]
    <3>1. <<r[1], r[2] - 1>> \in Pending
      BY <1>2, TickAges
    <3>2. r[1] \in {hours, "overview"} \/ settled <= r[2] - 1
      BY <3>1 DEF OldRequestsOnly
    <3>3. r[2] \in Nat
      BY <1>0 DEF Pending
    <3>4. settled' <= settled + 1 /\ hours' = hours
      BY <1>2 DEF Tick, TypeOK, Later
    <3>5. settled \in Nat /\ settled' \in Nat
      BY <1>2 DEF Tick, TypeOK, Patience, Later
    <3>6. QED
      BY <3>2, <3>3, <3>4, <3>5
  <2>2. QED
    BY <1>2, <2>1 DEF Tick
<1>3. ASSUME settled' = 0 PROVE OldRequestsOnly'
  BY <1>0, <1>3 DEF OldRequestsOnly, Pending
<1>4. CASE TimerFires
  <2>1. CASE hidden
    BY <1>3, <1>4, <2>1 DEF TimerFires, OldRequestsOnly
  <2>2. CASE ~hidden
    <3>1. \A r \in Pending' : r \in Pending \/ r \in {"overview", hours} \X {0}
      BY <1>4, <2>2, Sent DEF TimerFires, RefreshAll, Kinds, TypeOK
    <3>2. QED
      BY <1>4, <2>2, <3>1 DEF TimerFires, OldRequestsOnly
  <2>3. QED
    BY <2>1, <2>2 DEF OldRequestsOnly
<1>5. CASE Show
  BY <1>3, <1>5 DEF Show, OldRequestsOnly
<1>6. CASE Hide \/ \E range \in Ranges : SelectRange(range)
  BY <1>3, <1>6 DEF Hide, SelectRange, OldRequestsOnly
<1>7. CASE ServerChange \/ UNCHANGED vars
  <2>1. UNCHANGED <<flight, hidden, settled, hours>>
    BY <1>7 DEF ServerChange, vars
  <2>2. Pending' = Pending
    BY <2>1 DEF Pending
  <2>3. QED
    BY <2>1, <2>2 DEF OldRequestsOnly
<1>8. QED
  BY <1>1, <1>2, <1>4, <1>5, <1>6, <1>7 DEF Next, OldRequestsOnly

\* The chart of another range is due to be replaced.
LEMMA StepNextRefreshCorrects ==
    TypeOK /\ OldRequestsOnly /\ NextRefreshCorrects /\ [Next]_vars => NextRefreshCorrects'
<1> SUFFICES ASSUME TypeOK, OldRequestsOnly, NextRefreshCorrects, [Next]_vars,
                    points' \notin {hours', None}
             PROVE  \/ settled' <= Timeout + timer'
                    \/ <<hours', timer'>> \in Pending' /\ settled' <= Timeout + Refresh + timer'
  BY DEF NextRefreshCorrects
<1>0. /\ timer \in 0..Refresh /\ settled \in 0..(Timeout + Refresh + Timeout + 1)
      /\ \A r \in Requests : r[2] \in 0..Timeout
      /\ Timeout \in Nat /\ Refresh \in Nat /\ Timeout < Refresh
  BY DEF TypeOK, Patience, Requests
<1>1. ASSUME NEW r \in Requests, Answer(r) \/ Fail(r) \/ LoseBody(r)
      PROVE  \/ settled' <= Timeout + timer'
             \/ <<hours', timer'>> \in Pending' /\ settled' <= Timeout + Refresh + timer'
  <2>1. r \in Pending /\ UNCHANGED <<hours, timer, settled>> /\ Pending \ {r} \subseteq Pending'
    BY <1>1, EndedKeeps, EndedLeaves
  <2>2. CASE r[1] = "overview"
    <3>1. points' = points /\ r # <<hours, timer>>
      BY <1>1, <2>2, EndedKeeps DEF TypeOK
    <3>2. QED
      BY <2>1, <3>1 DEF NextRefreshCorrects
  <2>3. CASE r[1] # "overview"
    <3>1. r[1] # hours
      BY <1>1, <2>1, <2>3, EndedKeeps
    <3>2. settled <= r[2] /\ r[2] <= Timeout
      BY <1>0, <2>1, <2>3, <3>1 DEF OldRequestsOnly
    <3>3. QED
      BY <1>0, <2>1, <3>2
  <2>4. QED
    BY <2>2, <2>3
<1>2. CASE Tick
  <2>1. /\ timer' = timer + 1 /\ UNCHANGED <<hours, points>>
        /\ settled' <= settled + 1 /\ settled' \in Nat
    BY <1>0, <1>2 DEF Tick, Later
  <2>2. CASE settled <= Timeout + timer
    BY <1>0, <2>1, <2>2
  <2>3. CASE <<hours, timer>> \in Pending /\ settled <= Timeout + Refresh + timer
    <3>1. <<hours, timer + 1>> \in Pending'
      BY <1>2, <2>3, TickAges
    <3>2. QED
      BY <1>0, <2>1, <2>3, <3>1
  <2>4. QED
    BY <2>1, <2>2, <2>3 DEF NextRefreshCorrects
<1>3. ASSUME settled' = 0, timer' \in Nat PROVE settled' <= Timeout + timer'
  <2>1. \A t \in Nat : 0 <= Timeout + t
    BY <1>0
  <2>2. QED
    BY <1>3, <2>1
<1>4. CASE TimerFires
  <2>1. timer = Refresh /\ timer' = 0 /\ UNCHANGED <<hours, points, settled>>
    BY <1>4 DEF TimerFires
  <2>2. CASE hidden
    BY <1>0, <2>1, <2>2 DEF OldRequestsOnly
  <2>3. CASE ~hidden
    <3>1. <<hours, 0>> \in Pending'
      BY <1>4, <2>3, Sent DEF TimerFires, RefreshAll, Kinds, TypeOK
    <3>2. <<hours, timer>> \notin Pending
      BY <1>0, <2>1 DEF Pending, Requests
    <3>3. settled <= Timeout + Refresh
      BY <2>1, <3>2 DEF NextRefreshCorrects
    <3>4. QED
      BY <1>0, <2>1, <3>1, <3>3
  <2>4. QED
    BY <2>2, <2>3 DEF OldRequestsOnly
<1>5. CASE Show
  <2>1. settled' = 0 /\ timer' = timer
    BY <1>5 DEF Show, OldRequestsOnly
  <2>2. QED
    BY <1>0, <1>3, <2>1
<1>6. CASE Hide \/ \E range \in Ranges : SelectRange(range)
  BY <1>0, <1>3, <1>6 DEF Hide, SelectRange
<1>7. CASE ServerChange \/ UNCHANGED vars
  <2>1. UNCHANGED <<flight, settled, hours, points, timer>>
    BY <1>7 DEF ServerChange, vars
  <2>2. Pending' = Pending
    BY <2>1 DEF Pending
  <2>3. QED
    BY <2>1, <2>2 DEF NextRefreshCorrects
<1>8. QED
  BY <1>1, <1>2, <1>4, <1>5, <1>6, <1>7 DEF Next

\* What is shown and not true is due to be replaced.
LEMMA StepNextRefreshTells ==
    TypeOK /\ OldRequestsOnly /\ NextRefreshTells /\ [Next]_vars => NextRefreshTells'
<1> SUFFICES ASSUME TypeOK, OldRequestsOnly, NextRefreshTells, [Next]_vars
             PROVE  NextRefreshTells'
  OBVIOUS
<1>0. /\ timer \in 0..Refresh /\ settled \in Nat /\ calm \in Nat
      /\ calm <= settled /\ calm <= Timeout + Refresh + Timeout + 1
      /\ \A r \in Requests : r[2] \in 0..Timeout
      /\ Timeout \in Nat /\ Refresh \in Nat /\ Timeout < Refresh
  BY DEF TypeOK, Patience, Requests, NextRefreshTells
<1>1. ASSUME NEW r \in Requests, Answer(r) \/ Fail(r) \/ LoseBody(r)
      PROVE  NextRefreshTells'
  <2>1. /\ r \in Pending /\ UNCHANGED <<hours, timer, server, settled, calm>>
        /\ Pending \ {r} \subseteq Pending'
    BY <1>1, EndedKeeps, EndedLeaves
  <2>2. CASE calm <= Timeout
    BY <1>0, <2>1, <2>2 DEF NextRefreshTells, Due
  <2>3. CASE calm > Timeout
    <3>1. server \in Telling /\ calm > r[2]
      BY <1>0, <2>3 DEF TypeOK
    <3>2. Answer(r) /\ Said(r) = {server}
      BY <1>1, <3>1 DEF Fail, LoseBody, Undelivered, Said, Telling
    <3>3. \A kind \in Kinds : r[1] # kind /\ Due(kind) => Due(kind)'
      BY <2>1 DEF Due
    <3>4. CASE r[1] = "overview"
      <4>1. UNCHANGED points /\ status' = server /\ notice' = None
        BY <3>2, <3>4 DEF Answer, ShowOverview
      <4>2. hours \in Kinds /\ hours # "overview"
        BY DEF TypeOK, Kinds
      <4>3. QED
        BY <1>0, <2>1, <3>3, <3>4, <4>1, <4>2 DEF NextRefreshTells
    <3>5. CASE r[1] # "overview"
      <4>1. UNCHANGED <<status, notice>> /\ points' = r[1]
        BY <3>2, <3>5 DEF Answer, ShowSeries
      <4>2. r[1] = hours
        BY <1>0, <2>1, <2>3, <3>5 DEF OldRequestsOnly
      <4>3. "overview" \in Kinds
        BY DEF Kinds
      <4>4. QED
        BY <1>0, <2>1, <3>3, <3>5, <4>1, <4>2, <4>3 DEF NextRefreshTells
    <3>6. QED
      BY <3>4, <3>5
  <2>4. QED
    BY <1>0, <2>2, <2>3
<1>2. CASE Tick
  <2>1. /\ timer' = timer + 1 /\ UNCHANGED <<hours, points, status, notice, server>>
        /\ calm' <= calm + 1 /\ calm' \in Nat
    BY <1>0, <1>2 DEF Tick, Later
  <2>2. calm' <= settled'
    BY <1>0, <1>2 DEF Tick, Later, TypeOK, Patience
  <2>3. ASSUME NEW kind, Due(kind) PROVE Due(kind)'
    <3>1. CASE calm <= Timeout + timer
      BY <1>0, <2>1, <3>1 DEF Due
    <3>2. CASE <<kind, timer>> \in Pending /\ calm <= Timeout + Refresh + timer
      <4>1. <<kind, timer + 1>> \in Pending'
        BY <1>2, <3>2, TickAges
      <4>2. QED
        BY <1>0, <2>1, <3>2, <4>1 DEF Due
    <3>3. QED
      BY <2>3, <3>1, <3>2 DEF Due
  <2>4. QED
    BY <2>1, <2>2, <2>3 DEF NextRefreshTells
<1>3. ASSUME calm' = 0, timer' \in Nat, settled' \in Nat PROVE NextRefreshTells'
  <2>1. \A t \in Nat : 0 <= Timeout + t /\ 0 <= t
    BY <1>0
  <2>2. calm' <= settled' /\ calm' <= Timeout + timer'
    BY <1>3, <2>1
  <2>3. QED
    BY <2>2 DEF NextRefreshTells, Due
<1>4. CASE TimerFires
  <2>1. /\ timer = Refresh /\ timer' = 0
        /\ UNCHANGED <<hours, points, status, notice, server, settled, calm>>
    BY <1>4 DEF TimerFires
  <2>2. CASE hidden
    <3>1. settled = 0
      BY <2>2 DEF OldRequestsOnly
    <3>2. calm' = 0
      BY <1>0, <2>1, <3>1
    <3>3. QED
      BY <1>0, <1>3, <2>1, <3>2
  <2>3. CASE ~hidden
    <3>1. <<hours, 0>> \in Pending' /\ <<"overview", 0>> \in Pending'
      BY <1>4, <2>3, Sent DEF TimerFires, RefreshAll, Kinds, TypeOK
    <3>2. \A kind : <<kind, timer>> \notin Pending
      BY <1>0, <2>1 DEF Pending, Requests
    <3>3. \A kind : Due(kind) => calm <= Timeout + Refresh
      BY <2>1, <3>2 DEF Due
    <3>4. \A kind \in {"overview", hours} : Due(kind) => Due(kind)'
      BY <1>0, <2>1, <3>1, <3>3 DEF Due
    <3>5. QED
      BY <1>0, <2>1, <3>4 DEF NextRefreshTells
  <2>4. QED
    BY <2>2, <2>3 DEF TypeOK
<1>5. CASE Show
  <2>1. settled = 0
    BY <1>5 DEF Show, OldRequestsOnly
  <2>2. UNCHANGED <<settled, calm, timer>>
    BY <1>5 DEF Show
  <2>3. QED
    BY <1>0, <1>3, <2>1, <2>2
<1>6. CASE Hide \/ ServerChange \/ \E range \in Ranges : SelectRange(range)
  BY <1>0, <1>3, <1>6 DEF Hide, ServerChange, SelectRange
<1>7. CASE UNCHANGED vars
  <2>1. UNCHANGED <<flight, settled, calm, hours, points, status, notice, timer, server>>
    BY <1>7 DEF vars
  <2>2. Pending' = Pending
    BY <2>1 DEF Pending
  <2>3. QED
    BY <2>1, <2>2 DEF NextRefreshTells, Due
<1>8. QED
  BY <1>1, <1>2, <1>4, <1>5, <1>6, <1>7 DEF Next

\* The inductive invariant of the page: what is in flight is as old as it
\* says, and what is shown wrongly is about to be corrected.
THEOREM ClientInvariant == Spec => []ClientInv
<1>1. ClientInv /\ [Next]_vars => ClientInv'
  BY StepTypeOK, StepOldRequestsOnly, StepNextRefreshCorrects, StepNextRefreshTells
  DEF ClientInv
<1>2. QED
  BY <1>1, InitClientInv, PTL DEF Spec

\* The chart of a range selected before is not shown for longer than late
\* answers and one refresh take, for any of the page's times.
THEOREM ChartIsOfSelection == Spec => []ChartOfSelection
<1>1. ClientInv => ChartOfSelection
  <2> SUFFICES ASSUME ClientInv, settled > Patience, points \notin {hours, None} PROVE FALSE
    BY DEF ChartOfSelection
  <2>1. timer \in 0..Refresh /\ settled \in Nat
    BY DEF ClientInv, TypeOK, Patience
  <2>2. <<hours, timer>> \in Pending => timer <= Timeout
    BY DEF Pending, Requests
  <2>3. QED
    BY <2>1, <2>2, ClientAssumption DEF ClientInv, NextRefreshCorrects, Patience
<1>2. QED
  BY <1>1, ClientInvariant, PTL

\* A page that is looked at for long enough, with a server that is well and
\* tells the same, shows what it tells, for any of the page's times.
THEOREM PageShowsTruth == Spec => []ShowsTruth
<1>1. ClientInv => ShowsTruth
  <2> SUFFICES ASSUME ClientInv, calm > Patience
               PROVE  points = hours /\ status = server /\ notice = None
    BY DEF ShowsTruth
  <2>1. timer \in 0..Refresh /\ calm \in Nat
    BY DEF ClientInv, TypeOK, Patience
  <2>2. \A kind : <<kind, timer>> \in Pending => timer <= Timeout
    BY DEF Pending, Requests
  <2>3. \A kind : ~ Due(kind)
    BY <2>1, <2>2, ClientAssumption DEF Due, Patience
  <2>4. QED
    BY <2>3 DEF ClientInv, NextRefreshTells
<1>2. QED
  BY <1>1, ClientInvariant, PTL
=============================================================================
