---------------------------- MODULE ReadersProofs ----------------------------
(***************************************************************************)
(* What the readers of Views are shown, for any jobs, nodes, scrapers, rows    *)
(* and page sizes: the status of a node, the keyset pages of a listing, the     *)
(* dashboard and the scrape.                                                  *)
(***************************************************************************)
EXTENDS Views, FiniteSetTheorems, SequenceTheorems, TLAPS

\* A step of Views is one of its part, or leaves the part alone.
LEMMA ViewSteps ==
  ASSUME [ViewsNext]_<<view, deploymentVars, nodeVars, pageVars, tableVars>>
  PROVE  /\ NodeNext \/ UNCHANGED nodeVars
         /\ PagesNext \/ UNCHANGED pageVars
         /\ \/ view = "dashboard" /\ DashboardNext
            \/ view = "scrape" /\ ScrapeNext
            \/ UNCHANGED tableVars
         /\ UNCHANGED view
BY Zenon DEF ViewsNext

-----------------------------------------------------------------------------
(* The status of a node *)

\* The variables have their types.
NodeTyped ==
  /\ node # Deleted => node \in NodeRow
  /\ agent \in AgentState
  /\ other \in OtherState

\* A stamp is younger than its call, and a call the ticker has not fired in ends,
\* if it ends now, in the tick it began in.
CallsInTime ==
  /\ agent.call = "stamped" => agent.stamp <= agent.waited
  /\ agent.call # "none" /\ ~agent.due => agent.waited + agent.next <= Tick

\* How old last_seen_at is when no call was in trouble: a heartbeat and a claim take
\* a tick each, and one more comes before the next heartbeat is recorded.
NoneInTrouble ==
  agent.bad = 0 =>
    /\ agent.call # "none" => agent.waited <= Tick
    /\ agent.call = "none" /\ agent.due => node.age <= 2 * Tick
    /\ agent.call = "none" /\ ~agent.due => node.age + agent.next <= Tick
    /\ agent.call \in {"sent", "stamped"} => node.age <= 2 * Tick + agent.waited
    /\ agent.call = "recorded" => node.age <= agent.waited
    /\ agent.call = "claim" => node.age <= Tick + agent.waited
    /\ agent.call = "claim" /\ ~agent.due => node.age + agent.next <= Tick

\* And when one was: the call under way, or one before it.
OneInTrouble ==
  agent.bad = 1 =>
    /\ agent.call = "none" /\ agent.due => node.age <= 5 * Tick
    /\ agent.call = "none" /\ ~agent.due => node.age + agent.next <= 3 * Tick
    /\ agent.call \in {"sent", "stamped"} /\ agent.waited <= Tick =>
         node.age <= 5 * Tick + agent.waited
    /\ agent.call \in {"sent", "stamped"} /\ agent.waited > Tick =>
         node.age <= 2 * Tick + agent.waited
    /\ agent.call = "recorded" => agent.waited > Tick /\ node.age <= agent.waited
    /\ agent.call = "claim" /\ agent.waited <= Tick =>
         agent.due /\ node.age <= 3 * Tick + agent.waited
    /\ agent.call = "claim" /\ agent.waited > Tick => node.age <= Tick + agent.waited

AgeIsKept ==
  /\ NodeTyped
  /\ CallsInTime
  /\ node # Deleted /\ ~other.stale => NoneInTrouble /\ OneInTrouble

\* It holds in a new database and with an agent that has yet to start.
LEMMA AgeInit == ViewsInit => AgeIsKept
<1> SUFFICES ASSUME ViewsInit PROVE AgeIsKept
  OBVIOUS
<1>1. /\ node = Deleted \/ node \in [stored : {"online"}, age : 0 .. MaxAge]
      /\ NoAgent
  BY DEF ViewsInit, NodeInit
<1>2. /\ agent.call = "none" /\ agent.due = TRUE /\ agent.bad = 2
      /\ NodeTyped
  BY <1>1, TickAssumption
     DEF NoAgent, NodeTyped, NodeRow, AgentState, OtherState, MaxAge, Fresh, CallTimeout,
         Enough
<1> QED
  BY <1>2 DEF AgeIsKept, CallsInTime, NoneInTrouble, OneInTrouble

\* The parts of the variables, as numbers and Booleans.
LEMMA NodeParts ==
  ASSUME NodeTyped
  PROVE  /\ Tick \in Nat /\ Tick >= 1
         /\ agent.call \in {"none", "sent", "stamped", "recorded", "claim"}
         /\ agent.waited \in Nat /\ agent.waited <= 3 * Tick
         /\ agent.stamp \in Nat /\ agent.stamp <= 3 * Tick
         /\ agent.next \in Nat /\ agent.next >= 1 /\ agent.next <= Tick
         /\ agent.due \in BOOLEAN /\ agent.bad \in {0, 1, 2}
         /\ agent = [call |-> agent.call, waited |-> agent.waited, stamp |-> agent.stamp,
                     next |-> agent.next, due |-> agent.due, bad |-> agent.bad]
         /\ other.open \in BOOLEAN /\ other.stale \in BOOLEAN
         /\ other.age \in Nat /\ other.age <= 6 * Tick + 1
         /\ other = [open |-> other.open, age |-> other.age, stale |-> other.stale]
         /\ node # Deleted =>
              /\ node.stored \in {"online", "draining"}
              /\ node.age \in Nat /\ node.age <= 6 * Tick + 1
              /\ node = [stored |-> node.stored, age |-> node.age]
<1>1. Tick \in Nat /\ Tick >= 1 /\ 3 * Tick \in Nat /\ 6 * Tick + 1 \in Nat
  BY TickAssumption
<1>2. agent \in AgentState /\ other \in OtherState /\ (node # Deleted => node \in NodeRow)
  BY DEF NodeTyped
<1>3. node # Deleted =>
              /\ node.stored \in {"online", "draining"}
              /\ node.age \in Nat /\ node.age <= 6 * Tick + 1
              /\ node = [stored |-> node.stored, age |-> node.age]
  BY <1>1, <1>2 DEF NodeRow, MaxAge, Fresh
<1>4. /\ other.open \in BOOLEAN /\ other.stale \in BOOLEAN
      /\ other.age \in Nat /\ other.age <= 6 * Tick + 1
      /\ other = [open |-> other.open, age |-> other.age, stale |-> other.stale]
  BY <1>1, <1>2 DEF OtherState, MaxAge, Fresh
<1>5. /\ agent.call \in {"none", "sent", "stamped", "recorded", "claim"}
      /\ agent.waited \in 0 .. 3 * Tick
      /\ agent.stamp \in 0 .. 3 * Tick
      /\ agent.next \in 1 .. Tick
      /\ agent.due \in BOOLEAN /\ agent.bad \in 0 .. 2
  BY <1>2 DEF AgentState, CallTimeout, Enough
<1>6. agent = [call |-> agent.call, waited |-> agent.waited, stamp |-> agent.stamp,
               next |-> agent.next, due |-> agent.due, bad |-> agent.bad]
  BY <1>2 DEF AgentState
<1>7. /\ agent.waited \in Nat /\ agent.waited <= 3 * Tick
      /\ agent.stamp \in Nat /\ agent.stamp <= 3 * Tick
      /\ agent.next \in Nat /\ agent.next >= 1 /\ agent.next <= Tick
      /\ agent.bad \in {0, 1, 2}
  BY <1>1, <1>5
<1> QED
  BY <1>1, <1>3, <1>4, <1>5, <1>6, <1>7

\* What an agent's ticks and calls can be.
Timed(call, waited, stamp, next, ticked, bad) ==
  /\ Tick \in Nat /\ Tick >= 1
  /\ call \in {"none", "sent", "stamped", "recorded", "claim"}
  /\ waited \in Nat /\ waited <= 3 * Tick /\ stamp \in Nat /\ stamp <= 3 * Tick
  /\ next \in Nat /\ next >= 1 /\ next <= Tick
  /\ ticked \in BOOLEAN /\ bad \in {0, 1, 2}

\* And back.
LEMMA NodeTypes ==
  ASSUME NEW call, NEW waited, NEW stamp, NEW next, NEW ticked, NEW bad,
         Timed(call, waited, stamp, next, ticked, bad)
  PROVE  [call |-> call, waited |-> waited, stamp |-> stamp, next |-> next, due |-> ticked,
          bad |-> bad] \in AgentState
<1>1. /\ call \in {"none", "sent", "stamped", "recorded", "claim"}
      /\ waited \in 0 .. 3 * Tick /\ stamp \in 0 .. 3 * Tick /\ next \in 1 .. Tick
      /\ ticked \in BOOLEAN /\ bad \in 0 .. 2
  BY DEF Timed
<1> QED
  BY <1>1 DEF AgentState, CallTimeout, Enough

\* A unit of time.
LEMMA ElapseKeeps ==
  ASSUME AgeIsKept, Elapse
  PROVE  AgeIsKept'
<1> DEFINE calling == agent.call # "none"
           next == IF agent.next = 1 THEN Tick ELSE agent.next - 1
           ticked == agent.due \/ agent.next = 1
           waited == IF calling THEN agent.waited + 1 ELSE agent.waited
           stamp == IF agent.call = "stamped" THEN agent.stamp + 1 ELSE agent.stamp
           bad == IF calling /\ agent.waited = Tick /\ agent.bad < 2
                    THEN agent.bad + 1 ELSE agent.bad
<1>1. NodeTyped /\ CallsInTime
  BY DEF AgeIsKept
<1>2. /\ agent.due => calling
      /\ calling => agent.waited < 3 * Tick
  BY DEF Elapse, CallTimeout
<1>3. agent' = [call |-> agent.call, waited |-> waited, stamp |-> stamp, next |-> next,
                due |-> ticked, bad |-> bad]
  <2>1. agent' = [agent EXCEPT !.next = next, !.due = ticked, !.waited = waited,
                               !.stamp = stamp,
                               !.bad = IF calling /\ agent.waited = Tick
                                         THEN Grown(agent.bad, Enough) ELSE agent.bad]
    BY Zenon DEF Elapse
  <2>2. (IF calling /\ agent.waited = Tick THEN Grown(agent.bad, Enough) ELSE agent.bad)
          = bad
    BY <1>1, NodeParts DEF Grown, Enough
  <2> HIDE DEF next, ticked, waited, stamp, bad
  <2>3. agent' = [agent EXCEPT !.next = next, !.due = ticked, !.waited = waited,
                               !.stamp = stamp, !.bad = bad]
    BY <2>1, <2>2
  <2>4. agent = [call |-> agent.call, waited |-> agent.waited, stamp |-> agent.stamp,
                 next |-> agent.next, due |-> agent.due, bad |-> agent.bad]
    BY <1>1, NodeParts
  <2> QED
    BY <2>3, <2>4, Zenon
<1>4. /\ agent'.call = agent.call /\ agent'.waited = waited /\ agent'.stamp = stamp
      /\ agent'.next = next /\ agent'.due = ticked /\ agent'.bad = bad
  BY <1>3
<1>5. /\ waited \in Nat /\ waited <= 3 * Tick /\ next \in Nat /\ next >= 1
      /\ next <= Tick /\ ticked \in BOOLEAN /\ bad \in {0, 1, 2}
      /\ stamp \in Nat /\ stamp <= 3 * Tick
  BY <1>1, <1>2, NodeParts DEF CallsInTime
<1>6. agent' \in AgentState
  <2> HIDE DEF next, ticked, waited, stamp, bad
  <2>1. /\ Tick \in Nat /\ Tick >= 1
        /\ agent.call \in {"none", "sent", "stamped", "recorded", "claim"}
    BY <1>1, NodeParts
  <2>2. Timed(agent.call, waited, stamp, next, ticked, bad)
    BY <1>5, <2>1 DEF Timed
  <2>3. [call |-> agent.call, waited |-> waited, stamp |-> stamp, next |-> next,
         due |-> ticked, bad |-> bad] \in AgentState
    BY <2>2, NodeTypes
  <2> QED
    BY ONLY <1>3, <2>3
<1>7. CallsInTime'
  <2>1. ASSUME agent'.call = "stamped" PROVE agent'.stamp <= agent'.waited
    <3>1. agent.call = "stamped" /\ agent.stamp <= agent.waited
      BY <1>1, <1>4, <2>1 DEF CallsInTime
    <3> QED
      BY <1>1, <1>4, <3>1, NodeParts
  <2>2. ASSUME agent'.call # "none", ~agent'.due
        PROVE  agent'.waited + agent'.next <= Tick
    <3>1. ~agent.due /\ agent.next # 1 /\ calling
      BY <1>4, <2>2
    <3>2. agent.waited + agent.next <= Tick
      BY <1>1, <3>1 DEF CallsInTime
    <3> QED
      BY <1>1, <1>4, <3>1, <3>2, NodeParts
  <2> QED
    BY <2>1, <2>2 DEF CallsInTime
<1>8. other' \in OtherState /\ other'.stale = other.stale
  BY <1>1, NodeParts DEF Elapse, Grown, OtherState, MaxAge, Fresh
<1>9. node' # Deleted => /\ node # Deleted /\ node' \in NodeRow
                         /\ node'.age \in Nat /\ node'.age <= node.age + 1
  <2>1. CASE node # Deleted
    <3>1. node' = [stored |-> node.stored, age |-> Grown(node.age, MaxAge)]
      BY <1>1, <2>1, NodeParts DEF Elapse
    <3>2. /\ Grown(node.age, MaxAge) \in 0 .. MaxAge
          /\ Grown(node.age, MaxAge) <= node.age + 1
      BY <1>1, <2>1, NodeParts DEF Grown, MaxAge, Fresh
    <3> QED
      BY <1>1, <2>1, <3>1, <3>2, NodeParts DEF NodeRow
  <2> QED
    BY <2>1 DEF Elapse
<1>10. ASSUME node' # Deleted, ~other'.stale
       PROVE  NoneInTrouble' /\ OneInTrouble'
  <2>1. /\ NoneInTrouble /\ OneInTrouble
        /\ node.age \in Nat /\ node'.age \in Nat /\ node'.age <= node.age + 1
    BY <1>1, <1>8, <1>9, <1>10, NodeParts DEF AgeIsKept
  <2>2. CASE agent.call = "none"
    <3>1. ~agent.due /\ ~calling
      BY <1>2, <2>2
    <3>2. /\ agent'.call = "none" /\ agent'.bad = agent.bad
          /\ ~agent'.due => agent'.next = agent.next - 1
          /\ agent'.due => agent.next = 1
      BY <1>4, <3>1, <2>2
    <3>3. Tick \in Nat /\ agent.next \in Nat /\ agent.next <= Tick
      BY <1>1, NodeParts
    <3> QED
      BY <2>1, <2>2, <3>1, <3>2, <3>3 DEF NoneInTrouble, OneInTrouble
  <2>3. CASE calling
    <3>1. /\ Tick \in Nat /\ agent.next \in Nat /\ agent.next >= 1
          /\ agent.waited \in Nat /\ agent.bad \in {0, 1, 2}
          /\ agent.call \in {"none", "sent", "stamped", "recorded", "claim"}
      BY <1>1, NodeParts
    <3>2. /\ agent'.call = agent.call /\ agent'.waited = agent.waited + 1
          /\ ~agent'.due => ~agent.due /\ agent'.next = agent.next - 1
          /\ agent.due => agent'.due
          /\ agent'.bad = IF agent.waited = Tick /\ agent.bad < 2
                            THEN agent.bad + 1 ELSE agent.bad
      BY <1>4, <2>3
    <3>3. ~agent.due => agent.waited + agent.next <= Tick
      BY <1>1, <2>3 DEF CallsInTime
    <3>4. agent.waited = Tick => agent.due
      BY <3>1, <3>3
    <3>5. NoneInTrouble'
      BY <2>1, <2>3, <3>1, <3>2, <3>3 DEF NoneInTrouble
    <3>6. OneInTrouble'
      BY <2>1, <2>3, <3>1, <3>2, <3>4 DEF NoneInTrouble, OneInTrouble
    <3> QED
      BY <3>5, <3>6
  <2> QED
    BY <2>2, <2>3
<1> QED
  BY <1>6, <1>7, <1>8, <1>9, <1>10 DEF AgeIsKept, NodeTyped

\* A call begins, is stamped, recorded or answered, or fails.
LEMMA CallsKeep ==
  ASSUME AgeIsKept,
         \/ SendHeartbeat \/ Stamp \/ RecordHeartbeat \/ HeartbeatAnswered
         \/ ClaimAnswered \/ CallFails
  PROVE  AgeIsKept'
<1>1. NodeTyped /\ CallsInTime
  BY DEF AgeIsKept
<1>2. \A call \in {"none", "sent", "stamped", "recorded", "claim"} :
        Calls(call) = [call |-> call, waited |-> 0, stamp |-> 0, next |-> agent.next,
                       due |-> agent.due, bad |-> agent.bad]
  <2>1. agent = [call |-> agent.call, waited |-> agent.waited, stamp |-> agent.stamp,
                 next |-> agent.next, due |-> agent.due, bad |-> agent.bad]
    BY <1>1, NodeParts
  <2>2. ASSUME NEW call, NEW a,
               a = [agent EXCEPT !.call = call, !.waited = 0, !.stamp = 0]
        PROVE  a = [call |-> call, waited |-> 0, stamp |-> 0, next |-> agent.next,
                    due |-> agent.due, bad |-> agent.bad]
    BY <2>1, <2>2, Zenon
  <2>3. \A call : Calls(call) = [agent EXCEPT !.call = call, !.waited = 0, !.stamp = 0]
    BY DEF Calls
  <2> QED
    BY <2>2, <2>3
<1>3. \A waited, bad : \A call \in {"none", "sent", "stamped", "recorded", "claim"},
                          ticked \in BOOLEAN :
        waited \in {0, agent.waited} /\ bad \in {0, 1, 2} =>
          [call |-> call, waited |-> waited, stamp |-> 0, next |-> agent.next,
           due |-> ticked, bad |-> bad] \in AgentState
  <2>1. /\ Tick \in Nat /\ Tick >= 1 /\ 0 \in Nat /\ 0 <= 3 * Tick
        /\ agent.waited \in Nat /\ agent.waited <= 3 * Tick
        /\ agent.next \in Nat /\ agent.next >= 1 /\ agent.next <= Tick
    BY <1>1, NodeParts
  <2> SUFFICES ASSUME NEW waited \in {0, agent.waited}, NEW bad \in {0, 1, 2},
                      NEW call \in {"none", "sent", "stamped", "recorded", "claim"},
                      NEW ticked \in BOOLEAN
               PROVE  [call |-> call, waited |-> waited, stamp |-> 0,
                       next |-> agent.next, due |-> ticked, bad |-> bad] \in AgentState
    OBVIOUS
  <2>2. Timed(call, waited, 0, agent.next, ticked, bad)
    BY <2>1 DEF Timed
  <2> QED
    BY <2>2, NodeTypes
<1>4. CASE SendHeartbeat
  <2>1. /\ agent.call = "none" /\ agent.due /\ node' = node /\ other' = other
        /\ agent' = [call |-> "sent", waited |-> 0, stamp |-> 0, next |-> agent.next,
                     due |-> FALSE, bad |-> agent.bad]
    <3>1. agent = [call |-> agent.call, waited |-> agent.waited, stamp |-> agent.stamp,
                   next |-> agent.next, due |-> agent.due, bad |-> agent.bad]
      BY <1>1, NodeParts
    <3>2. agent' = [agent EXCEPT !.call = "sent", !.waited = 0, !.stamp = 0,
                                 !.due = FALSE]
      BY <1>4 DEF SendHeartbeat
    <3>3. agent.call = "none" /\ agent.due /\ node' = node /\ other' = other
      BY <1>4 DEF SendHeartbeat
    <3> QED
      BY <3>1, <3>2, <3>3, Zenon
  <2>2. NodeTyped'
    BY <1>1, <1>3, <2>1, NodeParts DEF NodeTyped
  <2> QED
    BY <1>1, <2>1, <2>2, NodeParts
       DEF AgeIsKept, CallsInTime, NoneInTrouble, OneInTrouble
<1>5. CASE Stamp
  <2>1. /\ agent.call = "sent" /\ node' = node /\ other' = other
        /\ agent' = [call |-> "stamped", waited |-> agent.waited, stamp |-> 0,
                     next |-> agent.next, due |-> agent.due, bad |-> agent.bad]
    BY <1>1, <1>5, NodeParts DEF Stamp
  <2>2. NodeTyped'
    BY <1>1, <1>3, <2>1, NodeParts DEF NodeTyped
  <2> QED
    BY <1>1, <2>1, <2>2, NodeParts
       DEF AgeIsKept, CallsInTime, NoneInTrouble, OneInTrouble
<1>6. CASE RecordHeartbeat
  <2>1. /\ agent.call = "stamped" /\ node # Deleted
        /\ node' = [stored |-> node.stored, age |-> agent.stamp]
        /\ other' = [open |-> other.open, age |-> other.age, stale |-> FALSE]
        /\ agent' = [call |-> "recorded", waited |-> agent.waited, stamp |-> 0,
                     next |-> agent.next, due |-> agent.due,
                     bad |-> IF agent.waited > Tick THEN 1 ELSE 0]
    BY <1>1, <1>6, NodeParts DEF RecordHeartbeat
  <2>2. agent' \in AgentState
    BY <1>1, <1>3, <2>1, NodeParts
  <2>3. other' \in OtherState
    BY <1>1, <2>1 DEF NodeTyped, OtherState
  <2>4. node' \in NodeRow
    BY <1>1, <2>1, NodeParts DEF NodeRow, MaxAge, Fresh
  <2> QED
    BY <1>1, <2>1, <2>2, <2>3, <2>4, NodeParts
       DEF AgeIsKept, NodeTyped, CallsInTime, NoneInTrouble, OneInTrouble
<1>7. CASE HeartbeatAnswered
  <2>1. PICK call \in {"claim", "none"} :
          /\ agent.call = "recorded" /\ node' = node /\ other' = other
          /\ agent' = [call |-> call, waited |-> 0, stamp |-> 0, next |-> agent.next,
                       due |-> agent.due, bad |-> agent.bad]
    BY <1>2, <1>7 DEF HeartbeatAnswered
  <2>2. NodeTyped'
    BY <1>1, <1>3, <2>1, NodeParts DEF NodeTyped
  <2> QED
    BY <1>1, <2>1, <2>2, NodeParts
       DEF AgeIsKept, CallsInTime, NoneInTrouble, OneInTrouble
<1>8. CASE ClaimAnswered
  <2>1. /\ agent.call = "claim" /\ node' = node /\ other' = other
        /\ agent' = [call |-> "none", waited |-> 0, stamp |-> 0, next |-> agent.next,
                     due |-> agent.due, bad |-> agent.bad]
    BY <1>2, <1>8 DEF ClaimAnswered
  <2>2. NodeTyped'
    BY <1>1, <1>3, <2>1, NodeParts DEF NodeTyped
  <2> QED
    BY <1>1, <2>1, <2>2, NodeParts
       DEF AgeIsKept, CallsInTime, NoneInTrouble, OneInTrouble
<1>9. CASE CallFails
  <2> DEFINE bad == IF agent.waited <= Tick /\ agent.bad < 2
                      THEN agent.bad + 1 ELSE agent.bad
  <2>1. (IF agent.waited <= Tick THEN Grown(agent.bad, Enough) ELSE agent.bad) = bad
    BY <1>1, NodeParts DEF Grown, Enough
  <2>2. /\ agent.call # "none" /\ node' = node
        /\ agent' = [call |-> "none", waited |-> 0, stamp |-> 0, next |-> agent.next,
                     due |-> agent.due, bad |-> bad]
    <3>1. agent' = [Calls("none") EXCEPT !.bad = bad]
      <4>1. agent' = [Calls("none") EXCEPT
               !.bad = IF agent.waited <= Tick THEN Grown(agent.bad, Enough)
                                               ELSE agent.bad]
        BY <1>2, <1>9 DEF CallFails
      <4> QED
        BY <2>1, <4>1
    <3> QED
      BY <1>2, <1>9, <3>1 DEF CallFails
  <2>3. bad \in {0, 1, 2}
    BY <1>1, NodeParts
  <2>4. agent' \in AgentState
    BY <1>1, <1>3, <2>2, <2>3, NodeParts
  <2>5. other' \in OtherState /\ other'.stale = other.stale
    <3>1. CASE other' = other
      BY <1>1, <3>1 DEF NodeTyped
    <3>2. CASE other' = [other EXCEPT !.open = TRUE, !.age = agent.stamp]
      <4>1. agent.stamp \in 0 .. MaxAge
        BY <1>1, NodeParts DEF MaxAge, Fresh
      <4> QED
        BY <1>1, <3>2, <4>1 DEF NodeTyped, OtherState
    <3> QED
      BY <1>9, <3>1, <3>2 DEF CallFails
  <2> QED
    BY <1>1, <2>2, <2>3, <2>4, <2>5, NodeParts
       DEF AgeIsKept, NodeTyped, CallsInTime, NoneInTrouble, OneInTrouble
<1> QED
  BY <1>4, <1>5, <1>6, <1>7, <1>8, <1>9

\* A row that is younger than before, or is not, is none the worse for it.
LEMMA OthersKeep ==
  ASSUME AgeIsKept, PushMetrics \/ OtherEnds \/ Drain \/ Undrain \/ DeleteNode
  PROVE  AgeIsKept'
<1>1. NodeTyped /\ CallsInTime /\ agent' = agent
  BY DEF AgeIsKept, PushMetrics, OtherEnds, Drain, Undrain, DeleteNode
<1>2. /\ other' \in OtherState
      /\ node' # Deleted => /\ node # Deleted /\ node' \in NodeRow
                            /\ ~other'.stale => /\ ~other.stale
                                                /\ node'.age <= node.age
  <2>1. CASE PushMetrics
    <3>1. /\ node' = node /\ node \in NodeRow
          /\ other' = [other EXCEPT !.open = TRUE, !.age = 0]
      BY <1>1, <2>1 DEF PushMetrics, NodeTyped
    <3>2. 0 \in 0 .. MaxAge /\ other \in OtherState
      BY <1>1, NodeParts DEF NodeTyped, MaxAge, Fresh
    <3>3. other' \in OtherState /\ other'.stale = other.stale
      BY <3>1, <3>2 DEF OtherState
    <3>4. node # Deleted => node.age \in Nat
      BY <1>1, NodeParts
    <3> QED
      BY <2>1, <3>1, <3>3, <3>4 DEF PushMetrics
  <2>2. CASE OtherEnds
    <3>1. 0 \in 0 .. MaxAge /\ other.age \in 0 .. MaxAge
      BY <1>1, NodeParts DEF MaxAge, Fresh
    <3>2. CASE node' = node /\ other' = [other EXCEPT !.open = FALSE, !.age = 0]
      <4>1. other \in OtherState /\ (node # Deleted => node \in NodeRow)
        BY <1>1 DEF NodeTyped
      <4>2. other' \in OtherState /\ other'.stale = other.stale
        BY <3>1, <3>2, <4>1 DEF OtherState
      <4>3. node # Deleted => node.age \in Nat
        BY <1>1, NodeParts
      <4> QED
        BY <3>2, <4>1, <4>2, <4>3
    <3>3. CASE /\ node # Deleted
               /\ node' = [node EXCEPT !.age = other.age]
               /\ other' = [open |-> FALSE, age |-> 0,
                            stale |-> other.stale \/ other.age > node.age]
      <4>1. other' \in OtherState
        BY <3>1, <3>3 DEF OtherState
      <4>2. node' \in NodeRow /\ node'.age = other.age
        BY <1>1, <3>1, <3>3 DEF NodeTyped, NodeRow
      <4>3. ~other'.stale => ~other.stale /\ ~(other.age > node.age)
        BY <3>3
      <4> QED
        BY <1>1, <3>3, <4>1, <4>2, <4>3, NodeParts
    <3> QED
      BY <2>2, <3>2, <3>3 DEF OtherEnds
  <2>3. CASE Drain \/ Undrain \/ DeleteNode
    BY <1>1, <2>3, NodeParts DEF Drain, Undrain, DeleteNode, NodeTyped, NodeRow
  <2> QED
    BY <2>1, <2>2, <2>3
<1>3. ASSUME node' # Deleted, ~other'.stale
      PROVE  NoneInTrouble' /\ OneInTrouble'
  <2>1. /\ NoneInTrouble /\ OneInTrouble
        /\ node.age \in Nat /\ node'.age \in Nat /\ node'.age <= node.age
    BY <1>1, <1>2, <1>3, NodeParts DEF AgeIsKept, NodeRow
  <2> QED
    BY <1>1, <2>1, NodeParts DEF NoneInTrouble, OneInTrouble
<1> QED
  BY <1>1, <1>2, <1>3 DEF AgeIsKept, NodeTyped, CallsInTime

\* Every step keeps it.
LEMMA AgeNext == AgeIsKept /\ (NodeNext \/ UNCHANGED nodeVars) => AgeIsKept'
<1>1. AgeIsKept /\ UNCHANGED nodeVars => AgeIsKept'
  BY DEF nodeVars, AgeIsKept, NodeTyped, CallsInTime, NoneInTrouble, OneInTrouble
<1> QED
  BY <1>1, ElapseKeeps, CallsKeep, OthersKeep DEF NodeNext

\* However finely time is told, one call in trouble does not make
\* compute_node_status say offline: it takes a second one, or a stamp that is
\* committed after a newer one.
THEOREM OfflineTakesTwo == ViewsSpec => []OfflineNeedsTrouble
<1>1. AgeIsKept => OfflineNeedsTrouble
  <2> SUFFICES ASSUME AgeIsKept, node # Deleted, ~(node.age <= 6 * Tick),
                      agent.bad # 2, ~other.stale
               PROVE  FALSE
    BY NodeParts DEF AgeIsKept, OfflineNeedsTrouble, ComputeNodeStatus, Fresh, Enough
  <2> QED
    BY NodeParts DEF AgeIsKept, CallsInTime, NoneInTrouble, OneInTrouble
<1>2. AgeIsKept /\ [ViewsNext]_<<view, deploymentVars, nodeVars, pageVars, tableVars>>
        => AgeIsKept'
  BY ViewSteps, AgeNext
<1> QED
  BY <1>1, <1>2, AgeInit, PTL DEF ViewsSpec

-----------------------------------------------------------------------------
(* The pages of a listing: the order of a page *)

PagesTyped ==
  /\ time \in 0 .. MaxTime
  /\ rows \in [Ids -> Row \cup {Unused}]
  /\ cursor \in CursorKeys \cup {Start, End}
  /\ shown \in Seq(Ids)
  /\ due \subseteq Ids

\* A row that others can see.
Committed(i) == rows[i] # Unused /\ rows[i].committed

\* The rows a query finds are rows of the table.
LEMMA FoundRows ==
  ASSUME PagesTyped
  PROVE  /\ Found \subseteq Ids /\ IsFiniteSet(Found)
         /\ \A i \in Ids : Committed(i) =>
              i \in Nat /\ rows[i] \in Row /\ rows[i].at \in 0 .. MaxTime
         /\ \A i \in Found : Visible(i) /\ Committed(i)
<1>1. Found \subseteq Ids
  BY DEF Found
<1>2. IsFiniteSet(Found)
  BY <1>1, PagesAssumption, FS_Subset
<1>3. \A i \in Found : Visible(i) /\ Committed(i)
  BY DEF Found, Visible, Committed
<1>4. ASSUME NEW i \in Ids, Committed(i)
      PROVE  i \in Nat /\ rows[i] \in Row /\ rows[i].at \in 0 .. MaxTime
  BY <1>4, PagesAssumption DEF PagesTyped, Committed, Row
<1> QED
  BY <1>1, <1>2, <1>3, <1>4

\* created_at and id order the committed rows strictly and totally.
LEMMA NewerIsAnOrder ==
  ASSUME PagesTyped
  PROVE  /\ \A i, j \in Ids : Committed(i) /\ Committed(j) =>
              /\ ~(Newer(i, j) /\ Newer(j, i))
              /\ Newer(i, j) \/ Newer(j, i) \/ i = j
              /\ Below(Key(i), Key(j)) <=> Newer(j, i)
         /\ \A i, j, k \in Ids : Committed(i) /\ Committed(j) /\ Committed(k) =>
              (Newer(i, j) /\ Newer(j, k) => Newer(i, k))
<1>1. \A i \in Ids : Committed(i) => i \in Nat /\ rows[i].at \in Nat
  <2>1. \A i \in Ids : Committed(i) => i \in Nat /\ rows[i].at \in 0 .. MaxTime
    BY FoundRows
  <2> QED
    BY <2>1, PagesAssumption
<1> QED
  BY <1>1 DEF Newer, Below, Key

\* A newer row has a lower rank, and the ranks number the rows found from 0.
LEMMA Ranks ==
  ASSUME PagesTyped
  PROVE  /\ \A i, j \in Found : Newer(i, j) => Rank(i) < Rank(j)
         /\ \A i \in Found : Rank(i) \in 0 .. Cardinality(Found) - 1
         /\ \A i, j \in Found : Rank(i) = Rank(j) => i = j
         /\ \A n \in 0 .. Cardinality(Found) - 1 : \E i \in Found : Rank(i) = n
<1> DEFINE above(i) == {j \in Found : Newer(j, i)}
           N == Cardinality(Found)
           f == [i \in Found |-> Rank(i)]
<1>1. /\ Found \subseteq Ids /\ IsFiniteSet(Found) /\ N \in Nat
      /\ \A i \in Found : Committed(i)
  BY FoundRows, FS_CardinalityType
<1>2. \A i \in Found : /\ above(i) \in SUBSET Found /\ IsFiniteSet(above(i))
                       /\ Rank(i) = Cardinality(above(i)) /\ Rank(i) \in Nat
                       /\ i \notin above(i)
  <2>1. \A i \in Found : ~Newer(i, i)
    BY <1>1, NewerIsAnOrder
  <2> QED
    BY <2>1, <1>1, FS_Subset, FS_CardinalityType DEF Rank
<1>3. ASSUME NEW i \in Found, NEW j \in Found, Newer(i, j)
      PROVE  Rank(i) < Rank(j)
  <2>1. above(i) \in SUBSET above(j)
    BY <1>1, <1>3, NewerIsAnOrder
  <2>2. above(i) # above(j)
    BY <1>2, <1>3
  <2> HIDE DEF above
  <2> QED
    BY <2>1, <2>2, <1>2, FS_Subset
<1>4. ASSUME NEW i \in Found
      PROVE  Rank(i) \in 0 .. N - 1
  <2>1. above(i) # Found
    BY <1>2
  <2> HIDE DEF above, N
  <2>2. Cardinality(above(i)) <= N /\ Cardinality(above(i)) # N
    BY <2>1, <1>1, <1>2, FS_Subset DEF N
  <2> QED
    BY <2>2, <1>1, <1>2
<1>5. ASSUME NEW i \in Found, NEW j \in Found, Rank(i) = Rank(j)
      PROVE  i = j
  <2>1. Newer(i, j) \/ Newer(j, i) \/ i = j
    BY <1>1, NewerIsAnOrder
  <2> QED
    <3>1. Rank(i) \in Nat /\ Rank(j) \in Nat
      BY <1>2
    <3>2. ~(Rank(i) < Rank(j)) /\ ~(Rank(j) < Rank(i))
      BY <3>1, <1>5
    <3> QED
      BY <2>1, <3>2, <1>3
<1>6. \A n \in 0 .. N - 1 : \E i \in Found : Rank(i) = n
  <2> DEFINE S == 0 .. N - 1
  <2>1. IsFiniteSet(S) /\ Cardinality(S) = N
    <3>1. N - 1 \in Int /\ N \in Nat
      BY <1>1
    <3> HIDE DEF N
    <3>2. IsFiniteSet(0 .. N - 1)
          /\ Cardinality(0 .. N - 1) = IF 0 > N - 1 THEN 0 ELSE (N - 1) - 0 + 1
      BY <3>1, FS_Interval
    <3> QED
      BY <3>1, <3>2
  <2>2. f \in Injection(Found, S)
    BY <1>4, <1>5 DEF Injection, IsInjective
  <2> HIDE DEF f, S, N
  <2>3. f \in Surjection(Found, S)
    BY <2>1, <2>2, FS_Injection DEF N
  <2>4. \A n \in S : \E i \in Found : f[i] = n
    BY <2>3 DEF Surjection
  <2> QED
    BY <2>4 DEF f, S
<1> QED
  BY <1>3, <1>4, <1>5, <1>6

\* A page has the newest of the rows found, newest first; what it leaves out is
\* older than its last row, and then the page is full.
LEMMA PageIsSorted ==
  ASSUME PagesTyped
  PROVE  /\ Listed \in Seq(Ids) /\ Len(Listed) \in Nat /\ Len(Listed) <= Limit
         /\ \A n \in 1 .. Len(Listed) : Listed[n] \in Found
         /\ \A m, n \in 1 .. Len(Listed) : m < n => Newer(Listed[m], Listed[n])
         /\ \A i \in Found :
              \/ \E n \in 1 .. Len(Listed) : Listed[n] = i
              \/ Len(Listed) = Limit /\ Newer(Listed[Limit], i)
<1> DEFINE N == Cardinality(Found)
           size == IF N < Limit THEN N ELSE Limit
           e(n) == CHOOSE i \in Found : Rank(i) = n - 1
<1>1. Listed = [n \in 1 .. size |-> e(n)]
  BY DEF Listed
<1>2. N \in Nat /\ Limit \in Nat \ {0} /\ Found \subseteq Ids
  BY FoundRows, FS_CardinalityType, PagesAssumption
<1>3. \A i \in Found : Committed(i)
  BY FoundRows
<1> HIDE DEF N
<1>4. size \in Nat /\ size <= Limit /\ size <= N /\ (size = N \/ size = Limit)
  BY <1>2
<1>5. ASSUME NEW n \in 1 .. size
      PROVE  e(n) \in Found /\ Rank(e(n)) = n - 1
  <2>1. n - 1 \in 0 .. N - 1
    BY <1>2, <1>4
  <2>2. \E i \in Found : Rank(i) = n - 1
    BY <2>1, Ranks DEF N
  <2> QED
    BY <2>2
<1> HIDE DEF e, size
<1>6. Listed \in Seq(Ids) /\ Len(Listed) = size
  <2>1. Listed \in [1 .. size -> Ids]
    BY <1>1, <1>2, <1>5
  <2> QED
    BY <2>1, <1>4
<1>7. \A n \in 1 .. size : Listed[n] \in Found /\ Rank(Listed[n]) = n - 1
  BY <1>1, <1>5
<1>8. ASSUME NEW m \in 1 .. size, NEW n \in 1 .. size, m < n
      PROVE  Newer(Listed[m], Listed[n])
  <2>1. ~(Rank(Listed[n]) < Rank(Listed[m])) /\ Rank(Listed[n]) # Rank(Listed[m])
    BY <1>4, <1>7, <1>8
  <2>2. ~Newer(Listed[n], Listed[m]) /\ Listed[n] # Listed[m]
    BY <2>1, <1>7, Ranks
  <2> QED
    BY <2>2, <1>2, <1>3, <1>7, NewerIsAnOrder
<1>9. ASSUME NEW i \in Found, \A n \in 1 .. size : Listed[n] # i
      PROVE  size = Limit /\ Newer(Listed[Limit], i)
  <2>1. Rank(i) \in 0 .. N - 1
    BY Ranks DEF N
  <2>2. ~(Rank(i) < size)
    <3>1. SUFFICES ASSUME Rank(i) < size PROVE FALSE
      OBVIOUS
    <3>2. Rank(i) + 1 \in 1 .. size
      BY <3>1, <2>1, <1>2, <1>4
    <3>3. Listed[Rank(i) + 1] \in Found /\ Rank(Listed[Rank(i) + 1]) = Rank(i)
      BY <3>2, <2>1, <1>2, <1>7
    <3>4. Listed[Rank(i) + 1] = i
      BY <3>3, Ranks
    <3> QED
      BY <3>2, <3>4, <1>9
  <2>3. size = Limit
    BY <2>1, <2>2, <1>2, <1>4
  <2>4. /\ Limit \in 1 .. size /\ Listed[Limit] \in Found
        /\ Rank(Listed[Limit]) = Limit - 1
    BY <2>3, <1>2, <1>7
  <2>5. ~(Rank(i) < Rank(Listed[Limit])) /\ i # Listed[Limit]
    BY <2>1, <2>2, <2>3, <2>4, <1>2, <1>9
  <2>6. ~Newer(i, Listed[Limit])
    BY <2>4, <2>5, Ranks
  <2> QED
    BY <2>3, <2>4, <2>5, <2>6, <1>2, <1>3, NewerIsAnOrder
<1> QED
  BY <1>4, <1>6, <1>7, <1>8, <1>9

-----------------------------------------------------------------------------
(* The pages of a listing: what is still due *)

\* What was shown stays a row, at its place.
ShownStay == \A n \in DOMAIN shown : Committed(shown[n])

\* The cursor is the key of the last row shown.
CursorIsLast ==
  /\ cursor = Start => shown = << >> /\ due = {}
  /\ cursor \in CursorKeys => shown # << >> /\ cursor = Key(shown[Len(shown)])

\* A row that is due was shown or is below the cursor.
DueIsAhead ==
  \A i \in due :
    /\ Visible(i)
    /\ \/ \E n \in DOMAIN shown : shown[n] = i
       \/ cursor \in CursorKeys /\ Below(Key(i), cursor)

PagesInv ==
  PagesTyped /\ ShownStay /\ PagesDescend /\ CursorIsLast /\ DueIsAhead

\* The steps of other transactions: a row that is committed stays where it is.
LEMMA RowsInv ==
  ASSUME PagesInv, PagesTyped', UNCHANGED <<cursor, shown>>, due' \subseteq due,
         \A i \in Ids : Committed(i) => Committed(i)' /\ rows'[i].at = rows[i].at,
         \A i \in due' : Visible(i)'
  PROVE  PagesInv'
<1>1. /\ DOMAIN shown = 1 .. Len(shown) /\ Len(shown) \in Nat
      /\ \A n \in DOMAIN shown : shown[n] \in Ids /\ Committed(shown[n])
  BY DEF PagesInv, PagesTyped, ShownStay
<1>2. ShownStay'
  BY <1>1 DEF ShownStay
<1>3. PagesDescend'
  BY <1>1 DEF PagesInv, PagesDescend, Newer
<1>4. CursorIsLast'
  <2>1. CASE cursor \in CursorKeys
    <3>1. shown # << >> /\ cursor = Key(shown[Len(shown)])
      BY <2>1 DEF PagesInv, CursorIsLast
    <3>2. Len(shown) \in DOMAIN shown
      BY <3>1, <1>1 DEF PagesInv, PagesTyped
    <3>3. Key(shown[Len(shown)])' = Key(shown[Len(shown)])
      BY <3>2, <1>1 DEF Key
    <3> QED
      BY <2>1, <3>1, <3>3, NoneIsARow DEF CursorIsLast
  <2>2. CASE cursor \notin CursorKeys
    BY <2>2 DEF PagesInv, CursorIsLast
  <2> QED
    BY <2>1, <2>2
<1>5. DueIsAhead'
  <2>1. ASSUME NEW i \in due'
        PROVE  \/ \E n \in DOMAIN shown : shown[n] = i
               \/ cursor \in CursorKeys /\ Below(Key(i)', cursor)
    <3>1. i \in due /\ i \in Ids /\ Committed(i)
      BY <2>1 DEF PagesInv, PagesTyped, DueIsAhead, Visible, Committed
    <3>2. Key(i)' = Key(i)
      BY <3>1 DEF Key
    <3> QED
      BY <3>1, <3>2 DEF PagesInv, DueIsAhead
  <2> QED
    BY <2>1 DEF DueIsAhead, Below
<1> QED
  BY <1>2, <1>3, <1>4, <1>5 DEF PagesInv

\* Each of those steps is one.
LEMMA OthersInv ==
  ASSUME PagesInv, NEW i \in Ids, Insert(i) \/ Commit(i) \/ Rollback(i) \/ Move(i)
  PROVE  PagesInv'
<1>1. /\ rows \in [Ids -> Row \cup {Unused}] /\ time \in 0 .. MaxTime /\ PagesTyped
      /\ UNCHANGED <<time, cursor, shown>>
  BY DEF PagesInv, PagesTyped, Insert, Commit, Rollback, Move
<1>2. \A j \in due : Visible(j)
  BY DEF PagesInv, DueIsAhead
<1>3. CASE Insert(i)
  <2>1. PICK m \in BOOLEAN :
          rows' = [rows EXCEPT ![i] = [at |-> time, committed |-> FALSE, matches |-> m]]
    BY <1>3 DEF Insert
  <2>2. rows[i] = Unused /\ due' = due
    BY <1>3 DEF Insert
  <2>3. [at |-> time, committed |-> FALSE, matches |-> m] \in Row
    BY <1>1 DEF Row
  <2>4. /\ rows' \in [Ids -> Row \cup {Unused}]
        /\ \A j \in Ids : j # i => rows'[j] = rows[j]
    BY <2>1, <2>3, <1>1
  <2>5. PagesTyped'
    BY <2>2, <2>4, <1>1 DEF PagesTyped
  <2>6. \A j \in Ids : Committed(j) => Committed(j)' /\ rows'[j].at = rows[j].at
    BY <2>2, <2>4 DEF Committed
  <2>7. \A j \in due' : Visible(j)'
    BY <2>2, <2>4, <1>1, <1>2 DEF Visible, PagesTyped
  <2> QED
    BY <2>2, <2>5, <2>6, <2>7, <1>1, RowsInv
<1>4. CASE Commit(i)
  <2>1. /\ rows[i] \in Row /\ rows[i] # Unused /\ ~rows[i].committed /\ due' = due
        /\ rows' = [rows EXCEPT ![i] = [rows[i] EXCEPT !.committed = TRUE]]
    BY <1>1, <1>4 DEF Commit
  <2>2. [rows[i] EXCEPT !.committed = TRUE] \in Row
    BY <2>1 DEF Row
  <2>3. /\ rows' \in [Ids -> Row \cup {Unused}]
        /\ \A j \in Ids : j # i => rows'[j] = rows[j]
    BY <2>1, <2>2, <1>1
  <2>4. PagesTyped'
    BY <2>1, <2>3, <1>1 DEF PagesTyped
  <2>5. \A j \in Ids : Committed(j) => Committed(j)' /\ rows'[j].at = rows[j].at
    BY <2>1, <2>3 DEF Committed
  <2>6. \A j \in due' : Visible(j)'
    BY <2>1, <2>3, <1>1, <1>2 DEF Visible, PagesTyped
  <2> QED
    BY <2>1, <2>4, <2>5, <2>6, <1>1, RowsInv
<1>5. CASE Rollback(i)
  <2>1. /\ rows[i] # Unused /\ ~rows[i].committed /\ due' = due
        /\ rows' = [rows EXCEPT ![i] = Unused]
    BY <1>5 DEF Rollback
  <2>2. /\ rows' \in [Ids -> Row \cup {Unused}]
        /\ \A j \in Ids : j # i => rows'[j] = rows[j]
    BY <2>1, <1>1
  <2>3. PagesTyped'
    BY <2>1, <2>2, <1>1 DEF PagesTyped
  <2>4. \A j \in Ids : Committed(j) => Committed(j)' /\ rows'[j].at = rows[j].at
    BY <2>1, <2>2 DEF Committed
  <2>5. \A j \in due' : Visible(j)'
    BY <2>1, <2>2, <1>1, <1>2 DEF Visible, PagesTyped
  <2> QED
    BY <2>1, <2>3, <2>4, <2>5, <1>1, RowsInv
<1>6. CASE Move(i)
  <2> DEFINE moved == [rows[i] EXCEPT !.matches = ~rows[i].matches]
  <2>1. /\ rows[i] \in Row /\ rows[i] # Unused /\ rows[i].committed /\ due' = due \ {i}
        /\ rows' = [rows EXCEPT ![i] = moved]
    BY <1>1, <1>6 DEF Move
  <2>2. moved \in Row /\ moved.at = rows[i].at /\ moved.committed
    <3> DEFINE m == ~rows[i].matches
    <3>1. m \in BOOLEAN
      OBVIOUS
    <3> HIDE DEF m
    <3>2. moved = [rows[i] EXCEPT !.matches = m]
      BY DEF m
    <3> HIDE DEF moved
    <3> QED
      BY <2>1, <3>1, <3>2 DEF Row
  <2> HIDE DEF moved
  <2>3. /\ rows' \in [Ids -> Row \cup {Unused}] /\ rows'[i] = moved
        /\ \A j \in Ids : j # i => rows'[j] = rows[j]
    BY <2>1, <2>2, <1>1
  <2>4. PagesTyped'
    BY <2>1, <2>3, <1>1 DEF PagesTyped
  <2>5. moved # Unused
    BY <2>2, NoneIsARow
  <2>6. \A j \in Ids : Committed(j) => Committed(j)' /\ rows'[j].at = rows[j].at
    BY <2>1, <2>2, <2>3, <2>5 DEF Committed
  <2>7. \A j \in due' : Visible(j)'
    BY <2>1, <2>3, <1>1, <1>2 DEF Visible, PagesTyped
  <2> QED
    BY <2>1, <2>4, <2>6, <2>7, <1>1, RowsInv
<1> QED
  BY <1>3, <1>4, <1>5, <1>6

\* A page continues where the last one ended.
LEMMA ReadPageInv ==
  ASSUME PagesInv, ReadPage
  PROVE  PagesInv'
<1> DEFINE L == Listed
           k == Len(shown)
           full == Len(L) = Limit
<1>1. /\ PagesTyped /\ UNCHANGED <<time, rows>> /\ cursor # End
      /\ shown \in Seq(Ids) /\ k \in Nat /\ DOMAIN shown = 1 .. k
      /\ shown' = shown \o L
      /\ due' = IF cursor = Start THEN {i \in Ids : Visible(i)} ELSE due
  BY DEF PagesInv, PagesTyped, ReadPage
<1>2. cursor' = IF full THEN Key(L[Len(L)]) ELSE End
  BY DEF ReadPage, Last
<1>3. /\ L \in Seq(Ids) /\ Len(L) \in Nat /\ Len(L) <= Limit
      /\ \A n \in 1 .. Len(L) : L[n] \in Found
      /\ \A m, n \in 1 .. Len(L) : m < n => Newer(L[m], L[n])
      /\ \A i \in Found : \/ \E n \in 1 .. Len(L) : L[n] = i
                          \/ full /\ Newer(L[Limit], i)
  BY <1>1, PageIsSorted
<1>4. Found \subseteq Ids /\ \A i \in Found : Visible(i) /\ Committed(i)
  BY <1>1, FoundRows
<1> HIDE DEF L
<1>5. /\ shown' \in Seq(Ids) /\ Len(shown') = k + Len(L)
      /\ DOMAIN shown' = 1 .. k + Len(L)
      /\ \A n \in 1 .. k + Len(L) :
           shown'[n] = IF n <= k THEN shown[n] ELSE L[n - k]
  BY <1>1, <1>3
<1>6. Limit \in Nat \ {0}
  BY PagesAssumption
<1>7. \A i \in Ids : Committed(i) => Key(i) \in CursorKeys
  BY <1>1, FoundRows DEF Key, CursorKeys
<1>8. full => L[Limit] \in Found /\ cursor' = Key(L[Limit]) /\ cursor' \in CursorKeys
  BY <1>2, <1>3, <1>4, <1>6, <1>7
<1>9. cursor = Start \/ (cursor \in CursorKeys /\ cursor # Start)
  BY <1>1, NoneIsARow DEF PagesTyped
<1>10. PagesTyped'
  BY <1>1, <1>2, <1>5, <1>8 DEF PagesTyped
<1>11. \A n \in 1 .. k : shown[n] \in Ids /\ Committed(shown[n])
  BY <1>1 DEF PagesInv, ShownStay
<1>12. ShownStay'
  <2>1. \A n \in 1 .. k + Len(L) : Committed(shown'[n])
    <3>1. ASSUME NEW n \in 1 .. k + Len(L), ~(n <= k)
          PROVE  Committed(shown'[n])
      <4>1. n - k \in 1 .. Len(L) /\ shown'[n] = L[n - k]
        BY <3>1, <1>1, <1>3, <1>5
      <4> QED
        BY <4>1, <1>3, <1>4
    <3> QED
      BY <3>1, <1>1, <1>5, <1>11
  <2> QED
    BY <2>1, <1>1, <1>5 DEF ShownStay, Committed
<1>13. ASSUME NEW m \in 1 .. k, NEW i \in Found
       PROVE  Newer(shown[m], i)
  <2>1. shown # << >> /\ cursor # Start
    BY <1>1, <1>13 DEF PagesInv, CursorIsLast
  <2>2. cursor = Key(shown[k]) /\ k \in 1 .. k
    BY <2>1, <1>1, <1>9, <1>13 DEF PagesInv, CursorIsLast
  <2>3. Below(Key(i), Key(shown[k]))
    BY <2>1, <2>2 DEF Found
  <2>4. /\ shown[k] \in Ids /\ Committed(shown[k]) /\ shown[m] \in Ids
        /\ Committed(shown[m]) /\ i \in Ids /\ Committed(i)
    BY <2>2, <1>4, <1>11
  <2>5. Newer(shown[k], i)
    BY <2>3, <2>4, <1>1, NewerIsAnOrder
  <2>6. m = k \/ Newer(shown[m], shown[k])
    <3>1. m \in 1 .. k /\ k \in Nat /\ m \in DOMAIN shown /\ k \in DOMAIN shown
      BY <2>2, <1>1, <1>13
    <3> HIDE DEF k
    <3>2. m < k \/ m = k
      BY <3>1
    <3> QED
      BY <3>1, <3>2 DEF PagesInv, PagesDescend
  <2> QED
    BY <2>4, <2>5, <2>6, <1>1, NewerIsAnOrder
<1>14. PagesDescend'
  <2>1. ASSUME NEW m \in 1 .. k + Len(L), NEW n \in 1 .. k + Len(L), m < n
        PROVE  Newer(shown'[m], shown'[n])
    <3>1. CASE n <= k
      <4>1. m \in 1 .. k /\ n \in 1 .. k /\ shown'[m] = shown[m] /\ shown'[n] = shown[n]
        BY <2>1, <3>1, <1>1, <1>3, <1>5
      <4> QED
        BY <2>1, <4>1, <1>1 DEF PagesInv, PagesDescend
    <3>2. CASE m <= k /\ ~(n <= k)
      <4>1. /\ m \in 1 .. k /\ n - k \in 1 .. Len(L)
            /\ shown'[m] = shown[m] /\ shown'[n] = L[n - k]
        BY <2>1, <3>2, <1>1, <1>3, <1>5
      <4> QED
        BY <4>1, <1>3, <1>13
    <3>3. CASE ~(m <= k) /\ ~(n <= k)
      <4>1. /\ m - k \in 1 .. Len(L) /\ n - k \in 1 .. Len(L) /\ m - k < n - k
            /\ shown'[m] = L[m - k] /\ shown'[n] = L[n - k]
        BY <2>1, <3>3, <1>1, <1>3, <1>5
      <4> QED
        BY <4>1, <1>3
    <3> QED
      BY <3>1, <3>2, <3>3, <2>1, <1>1
  <2>2. \A m, n \in DOMAIN shown' : m < n => Newer(shown'[m], shown'[n])
    BY <2>1, <1>5
  <2>3. rows' = rows
    BY <1>1
  <2> QED
    BY <2>2, <2>3 DEF PagesDescend, Newer
<1>15. CursorIsLast'
  <2>1. CASE full
    <3>1. /\ Len(shown') = k + Limit /\ Limit \in 1 .. Len(L)
          /\ k + Limit \in 1 .. k + Len(L)
          /\ ~(k + Limit <= k) /\ (k + Limit) - k = Limit
      BY <2>1, <1>1, <1>5, <1>6
    <3>2. shown'[Len(shown')] = L[Limit] /\ shown' # << >>
      BY <3>1, <1>5, <1>6, <1>1
    <3>3. cursor' # Start /\ cursor' = Key(L[Limit])
      BY <2>1, <1>8, NoneIsARow
    <3> QED
      BY <3>2, <3>3, <1>1 DEF CursorIsLast, Key
  <2>2. CASE ~full
    BY <2>2, <1>2, NoneIsARow DEF CursorIsLast
  <2> QED
    BY <2>1, <2>2
<1>16. ASSUME NEW i \in due'
       PROVE  /\ Visible(i)
              /\ \/ \E n \in DOMAIN shown' : shown'[n] = i
                 \/ cursor' \in CursorKeys /\ Below(Key(i), cursor')
  <2>1. i \in Ids /\ Visible(i) /\ Committed(i)
    BY <1>1, <1>16 DEF PagesInv, PagesTyped, DueIsAhead, Visible, Committed
  <2>2. CASE \E n \in DOMAIN shown : shown[n] = i
    <3>1. PICK n \in 1 .. k : shown[n] = i
      BY <2>2, <1>1
    <3>2. n \in 1 .. k + Len(L) /\ shown'[n] = i
      BY <3>1, <1>1, <1>3, <1>5
    <3> QED
      BY <2>1, <3>2, <1>5
  <2>3. CASE ~ \E n \in DOMAIN shown : shown[n] = i
    <3>1. i \in Found
      BY <2>1, <2>3, <1>1, <1>9, <1>16 DEF PagesInv, DueIsAhead, Found
    <3>2. CASE \E n \in 1 .. Len(L) : L[n] = i
      <4>1. PICK n \in 1 .. Len(L) : L[n] = i
        BY <3>2
      <4>2. /\ k + n \in 1 .. k + Len(L) /\ ~(k + n <= k) /\ (k + n) - k = n
        BY <4>1, <1>1, <1>3
      <4> QED
        BY <2>1, <4>1, <4>2, <1>5
    <3>3. CASE full /\ Newer(L[Limit], i)
      <4>1. L[Limit] \in Ids /\ Committed(L[Limit]) /\ cursor' = Key(L[Limit])
        BY <3>3, <1>4, <1>8
      <4>2. Below(Key(i), Key(L[Limit]))
        BY <2>1, <3>3, <4>1, <1>1, NewerIsAnOrder
      <4> QED
        BY <2>1, <3>3, <4>1, <4>2, <1>8
    <3> QED
      BY <3>1, <3>2, <3>3, <1>3
  <2> QED
    BY <2>2, <2>3
<1>17. DueIsAhead'
  BY <1>1, <1>16 DEF DueIsAhead, Visible, Below, Key
<1> QED
  BY <1>10, <1>12, <1>14, <1>15, <1>17 DEF PagesInv

\* No row is there before the first transaction, and no page before the first one.
LEMMA PagesInitInv == ViewsInit => PagesInv
<1> SUFFICES ASSUME PagesInit PROVE PagesInv
  BY DEF ViewsInit
<1>1. PagesTyped
  BY PagesAssumption DEF PagesInit, PagesTyped
<1> QED
  BY <1>1, NoneIsARow
     DEF PagesInit, PagesInv, ShownStay, PagesDescend, CursorIsLast, DueIsAhead

\* Every step of Views keeps the invariant.
LEMMA PagesNextInv ==
  PagesInv /\ [ViewsNext]_<<view, deploymentVars, nodeVars, pageVars, tableVars>>
    => PagesInv'
<1> SUFFICES ASSUME PagesInv,
                    [ViewsNext]_<<view, deploymentVars, nodeVars, pageVars, tableVars>>
             PROVE  PagesInv'
  OBVIOUS
<1>1. PagesNext \/ UNCHANGED pageVars
  BY Zenon DEF ViewsNext
<1>2. CASE ReadPage
  BY <1>2, ReadPageInv
<1>3. CASE ClockTicks \/ UNCHANGED pageVars
  <2>1. /\ UNCHANGED <<rows, cursor, shown, due>>
        /\ time' = time \/ (time < MaxTime /\ time' = time + 1)
    BY <1>3 DEF ClockTicks, pageVars
  <2>2. PagesTyped'
    BY <2>1, PagesAssumption DEF PagesInv, PagesTyped
  <2>3. \A i \in Ids : Committed(i) => Committed(i)' /\ rows'[i].at = rows[i].at
    BY <2>1 DEF Committed
  <2>4. \A i \in due' : Visible(i)'
    BY <2>1 DEF PagesInv, DueIsAhead, Visible
  <2> QED
    BY <2>1, <2>2, <2>3, <2>4, RowsInv
<1>4. CASE \E i \in Ids : Insert(i) \/ Commit(i) \/ Rollback(i) \/ Move(i)
  BY <1>4, OthersInv
<1> QED
  BY <1>1, <1>2, <1>3, <1>4 DEF PagesNext

\* The cursors of list_filtered: rows come newest first across the pages and none
\* twice, whatever is inserted, committed late or rolled back meanwhile.
THEOREM PagesAreInOrder == ViewsSpec => []PagesDescend
<1>1. PagesInv => PagesDescend
  BY DEF PagesInv
<1> QED
  BY <1>1, PagesInitInv, PagesNextInv, PTL DEF ViewsSpec

\* A row that was there before the first page and matched all along is on one of
\* the pages, for any page size and however many rows share its created_at.
THEOREM PagesAreComplete == ViewsSpec => []NothingDueIsSkipped
<1>1. PagesInv => NothingDueIsSkipped
  BY NoneIsARow DEF PagesInv, DueIsAhead, NothingDueIsSkipped, Range
<1> QED
  BY <1>1, PagesInitInv, PagesNextInv, PTL DEF ViewsSpec

-----------------------------------------------------------------------------
(* The dashboard *)

JobRow == [status : JobStatuses, old : BOOLEAN]

TablesTyped ==
  /\ jobs \in [Jobs -> JobRow]
  /\ nodes \subseteq Nodes /\ telemetry \subseteq Nodes

\* assert_transition lets nobody out of a terminal status.
LEMMA TerminalStays ==
  \A from \in TerminalStatuses : \A to : ~AssertTransition(from, to)
BY DEF TerminalStatuses, AssertTransition, AllowedTransitions, QUEUED, RUNNING,
       COMPLETED, FAILED, CANCELLED

\* A job that is not over takes a transition.
JobMoves ==
  \E j \in Jobs, s \in JobStatuses :
    /\ jobs[j].status \notin TerminalStatuses
    /\ jobs' = [jobs EXCEPT ![j] = [status |-> s, old |-> FALSE]]

\* The jobs and nodes keep their types.
LEMMA TablesTypedInv ==
  ASSUME TablesTyped, DashboardNext \/ ScrapeNext \/ UNCHANGED tableVars
  PROVE  /\ TablesTyped'
         /\ JobMoves \/ UNCHANGED jobs
<1>1. CASE \E j \in Jobs : Transition(j)
  <2>1. PICK j \in Jobs : Transition(j)
    BY <1>1
  <2>2. PICK s \in JobStatuses :
          /\ AssertTransition(jobs[j].status, s)
          /\ jobs' = [jobs EXCEPT ![j] = [status |-> s, old |-> FALSE]]
    BY <2>1 DEF Transition
  <2>3. jobs[j].status \notin TerminalStatuses
    BY <2>2, TerminalStays
  <2>4. [status |-> s, old |-> FALSE] \in JobRow
    BY DEF JobRow
  <2>5. UNCHANGED <<nodes, telemetry>>
    BY <2>1 DEF Transition
  <2> QED
    BY <2>2, <2>3, <2>4, <2>5 DEF JobMoves, TablesTyped
<1>2. CASE \E n \in Nodes : Register(n) \/ RecordMetrics(n) \/ RemoveNode(n)
  BY <1>2 DEF Register, RecordMetrics, RemoveNode, TablesTyped
<1>3. CASE \/ DashboardStatement
           \/ \E s \in Scrapers : BeginScrape(s) \/ ScrapeSelect(s) \/ ScrapeSet(s)
  <2>1. UNCHANGED <<jobs, nodes, telemetry>>
    BY <1>3 DEF DashboardStatement, BeginScrape, ScrapeSelect, ScrapeSet
  <2> QED
    BY <2>1 DEF TablesTyped
<1>4. CASE UNCHANGED tableVars
  BY <1>4 DEF tableVars, TablesTyped
<1> QED
  BY <1>1, <1>2, <1>3, <1>4 DEF DashboardNext, ScrapeNext

\* The jobs the dashboard is due to show: each was live when the first statement
\* ran and is in its figure, or was over by then, and is in the figure of its status
\* once that statement has run.  A job counted as over is over for good.
Counted ==
  LET done == dashboard.counted
  IN  /\ dashboard \in [counted : Seq(SUBSET Jobs), due : SUBSET Jobs]
      /\ Len(done) <= 5
      /\ done = << >> => dashboard.due = {}
      /\ \A j \in dashboard.due :
           /\ ~jobs[j].old
           /\ j \in done[1] \/ jobs[j].status \in TerminalStatuses
           /\ \A n \in 2 .. 4 :
                n <= Len(done) /\ j \notin done[1] /\ jobs[j].status \in Statements[n]
                  => j \in done[n]
      /\ \A n \in 2 .. 4 :
           n <= Len(done) =>
             \A j \in done[n] : jobs[j].status \in TerminalStatuses /\ ~jobs[j].old
      /\ Len(done) = 5 => \A n \in 2 .. 4 : done[n] \subseteq done[5]

\* Each statement counts what there is.
LEMMA StatementInv ==
  ASSUME TablesTyped, Counted, DashboardStatement
  PROVE  Counted'
<1> DEFINE done == dashboard.counted
           n == Len(done) + 1
           seen == {j \in Jobs : jobs[j].status \in Statements[n] /\ ~jobs[j].old}
           owed == IF n = 1 THEN {j \in Jobs : ~jobs[j].old} ELSE dashboard.due
<1>1. /\ done \in Seq(SUBSET Jobs) /\ dashboard.due \subseteq Jobs
      /\ Len(done) \in Nat /\ seen \subseteq Jobs
  BY DEF Counted
<1>2. n \in 1 .. 5 /\ jobs' = jobs
  BY <1>1 DEF DashboardStatement, Statements
<1>3. dashboard' = [counted |-> Append(done, seen), due |-> owed]
  BY DEF DashboardStatement
<1>4. /\ dashboard'.counted = Append(done, seen) /\ dashboard'.due = owed
      /\ owed \subseteq Jobs
      /\ Append(done, seen) \in Seq(SUBSET Jobs)
      /\ Len(Append(done, seen)) = n
      /\ Append(done, seen)[n] = seen
      /\ \A m \in 1 .. 5 : m < n => Append(done, seen)[m] = done[m]
  BY <1>1, <1>2, <1>3
<1>5. /\ Statements[1] = JobStatuses \ TerminalStatuses
      /\ \A m \in 2 .. 4 : Statements[m] \subseteq TerminalStatuses
      /\ Statements[5] = TerminalStatuses
  BY DEF Statements, JobStatuses, TerminalStatuses, QUEUED, RUNNING, COMPLETED, FAILED,
         CANCELLED
<1>6. \A j \in Jobs : jobs[j].status \in JobStatuses
  BY DEF TablesTyped, JobRow
<1> DEFINE done1 == Append(done, seen)
<1> HIDE DEF done1, owed
<1>7. ASSUME NEW j \in owed
      PROVE  /\ ~jobs[j].old
             /\ j \in done1[1] \/ jobs[j].status \in TerminalStatuses
             /\ \A m \in 2 .. 4 :
                  m <= n /\ j \notin done1[1] /\ jobs[j].status \in Statements[m]
                    => j \in done1[m]
  <2>1. CASE n = 1
    BY <2>1, <1>4, <1>5, <1>6 DEF owed, done1
  <2>2. CASE n # 1
    <3>1. /\ ~jobs[j].old
          /\ j \in done[1] \/ jobs[j].status \in TerminalStatuses
          /\ \A m \in 2 .. 4 :
               m <= Len(done) /\ j \notin done[1] /\ jobs[j].status \in Statements[m]
                 => j \in done[m]
      BY <2>2 DEF owed, Counted
    <3>2. done1[1] = done[1]
      BY <2>2, <1>2, <1>4 DEF done1
    <3>3. ASSUME NEW m \in 2 .. 4,
                 m <= n, j \notin done1[1], jobs[j].status \in Statements[m]
          PROVE  j \in done1[m]
      <4>1. CASE m = n
        BY <4>1, <3>1, <3>3, <1>4 DEF done1
      <4>2. CASE m < n
        BY <4>2, <3>1, <3>2, <3>3, <1>1, <1>2, <1>4 DEF done1
      <4> QED
        BY <4>1, <4>2, <3>3, <1>2
    <3> QED
      BY <3>1, <3>2, <3>3
  <2> QED
    BY <2>1, <2>2
<1>8. ASSUME NEW m \in 2 .. 4, m <= n, NEW j \in done1[m]
      PROVE  jobs[j].status \in TerminalStatuses /\ ~jobs[j].old /\ j \in Jobs
  <2>1. CASE m = n
    BY <2>1, <1>4, <1>5, <1>8 DEF done1
  <2>2. CASE m < n
    <3>1. j \in done[m] /\ m <= Len(done)
      BY <2>2, <1>1, <1>4, <1>8 DEF done1
    <3> QED
      BY <3>1, <1>1 DEF Counted
  <2> QED
    BY <2>1, <2>2, <1>2, <1>8
<1>9. n = 5 => \A m \in 2 .. 4 : done1[m] \subseteq done1[5]
  <2>1. ASSUME n = 5, NEW m \in 2 .. 4, NEW j \in done1[m]
        PROVE  j \in done1[5]
    BY <2>1, <1>4, <1>5, <1>8 DEF done1
  <2> QED
    BY <2>1
<1>10. done1 # << >> /\ done1 \in Seq(SUBSET Jobs) /\ Len(done1) = n
  <2>1. done1 \in Seq(SUBSET Jobs) /\ Len(done1) = n
    BY <1>4 DEF done1
  <2>2. Len(<< >>) = 0 /\ n # 0
    BY <1>2
  <2> HIDE DEF n
  <2> QED
    BY <2>1, <2>2
<1>11. dashboard' = [counted |-> done1, due |-> owed] /\ owed \subseteq Jobs
  BY <1>3, <1>4 DEF done1
<1>12. /\ dashboard'.counted = done1 /\ dashboard'.due = owed
       /\ dashboard' \in [counted : Seq(SUBSET Jobs), due : SUBSET Jobs]
  BY <1>10, <1>11
<1> HIDE DEF n
<1>13. /\ n \in Nat /\ n <= 5 /\ jobs' = jobs /\ Len(done1) = n /\ done1 # << >>
  BY <1>2, <1>10
<1> QED
  BY <1>7, <1>8, <1>9, <1>12, <1>13 DEF Counted

\* While the statements run a job moves on, or is over and stays as it is.
LEMMA CountedInv ==
  ASSUME TablesTyped, Counted, DashboardNext \/ ScrapeNext \/ UNCHANGED tableVars
  PROVE  Counted'
<1>1. CASE DashboardStatement
  BY <1>1, StatementInv
<1>2. CASE UNCHANGED dashboard
  <2>1. JobMoves \/ UNCHANGED jobs
    BY TablesTypedInv
  <2>2. \A j \in Jobs :
          /\ ~jobs[j].old => ~jobs'[j].old
          /\ jobs[j].status \in TerminalStatuses => jobs'[j].status = jobs[j].status
    BY <2>1 DEF JobMoves, TablesTyped, JobRow
  <2>3. dashboard.due \subseteq Jobs /\ \A n \in 1 .. Len(dashboard.counted) :
          dashboard.counted[n] \subseteq Jobs
    BY DEF Counted
  <2>4. ASSUME NEW j \in dashboard.due
        PROVE  /\ ~jobs'[j].old
               /\ j \in dashboard.counted[1] \/ jobs'[j].status \in TerminalStatuses
               /\ \A n \in 2 .. 4 :
                    /\ n <= Len(dashboard.counted) /\ j \notin dashboard.counted[1]
                    /\ jobs'[j].status \in Statements[n]
                    => j \in dashboard.counted[n]
    BY <2>2, <2>3 DEF Counted
  <2>5. ASSUME NEW n \in 2 .. 4, n <= Len(dashboard.counted),
               NEW j \in dashboard.counted[n]
        PROVE  jobs'[j].status \in TerminalStatuses /\ ~jobs'[j].old
    <3>1. j \in Jobs /\ jobs[j].status \in TerminalStatuses /\ ~jobs[j].old
      BY <2>3, <2>5 DEF Counted
    <3> QED
      BY <3>1, <2>2
  <2> QED
    BY <1>2, <2>4, <2>5 DEF Counted
<1>3. DashboardStatement \/ UNCHANGED dashboard
  BY DEF DashboardNext, ScrapeNext, Transition, Register, RecordMetrics, RemoveNode,
         BeginScrape, ScrapeSelect, ScrapeSet, tableVars
<1> QED
  BY <1>1, <1>2, <1>3

\* Nothing is counted at first.
LEMMA TablesInitInv == ViewsInit => TablesTyped /\ Counted
<1> SUFFICES ASSUME ViewsInit PROVE TablesTyped /\ Counted
  OBVIOUS
<1>1. TablesInit /\ jobs \in [Jobs -> JobRow]
  <2>1. CASE DashboardInit
    <3>1. \A s \in JobStatuses, o \in BOOLEAN : [status |-> s, old |-> o] \in JobRow
      BY DEF JobRow
    <3> QED
      BY <2>1, <3>1 DEF DashboardInit
  <2>2. CASE ScrapeInit
    <3>1. [status |-> QUEUED, old |-> FALSE] \in JobRow
      BY DEF JobRow, JobStatuses
    <3> QED
      BY <2>2, <3>1 DEF ScrapeInit
  <2> QED
    BY <2>1, <2>2 DEF ViewsInit
<1> QED
  BY <1>1 DEF TablesInit, TablesTyped, Counted

\* AdminService.dashboard counts the live jobs before those that are over: no job
\* slips between its statements, and the GPU-hours leave out none of those counted.
THEOREM DashboardIsComplete == ViewsSpec => []DashboardMissesNothing
<1>1. Counted => DashboardMissesNothing
  <2> SUFFICES ASSUME Counted, Len(dashboard.counted) = 5
               PROVE  LET done == dashboard.counted
                      IN  /\ dashboard.due \subseteq UNION {done[n] : n \in 1 .. 4}
                          /\ done[2] \cup done[3] \cup done[4] \subseteq done[5]
    BY DEF DashboardMissesNothing, Statements
  <2>1. ASSUME NEW j \in dashboard.due
        PROVE  \E n \in 1 .. 4 : j \in dashboard.counted[n]
    <3>1. CASE j \in dashboard.counted[1]
      BY <3>1
    <3>2. CASE j \notin dashboard.counted[1]
      <4>1. \E n \in 2 .. 4 : jobs[j].status \in Statements[n]
        BY <3>2 DEF Counted, Statements, TerminalStatuses
      <4> QED
        BY <3>2, <4>1 DEF Counted
    <3> QED
      BY <3>1, <3>2
  <2> QED
    BY <2>1 DEF Counted
<1>2. TablesTyped /\ Counted
        /\ [ViewsNext]_<<view, deploymentVars, nodeVars, pageVars, tableVars>>
        => TablesTyped' /\ Counted'
  BY ViewSteps, TablesTypedInv, CountedInv
<1> QED
  BY <1>1, <1>2, TablesInitInv, PTL DEF ViewsSpec

-----------------------------------------------------------------------------
(* The scrape *)

\* What a statement of a scrape may read.
Samples == SUBSET ((Jobs \X JobStatuses) \cup Nodes)

ScrapeRow ==
  [next : 0 .. 4, read : Samples, pending : BOOLEAN, alone : BOOLEAN,
   got : Seq(Samples), answer : Seq(Samples)]

ScrapesTyped ==
  /\ gauges \in [{"jobs", "nodes", "telemetry"} -> Samples]
  /\ scrapes \in [Scrapers -> ScrapeRow]
  /\ \A s \in Scrapers : scrapes[s].pending => UnderWay(s)

\* Nobody else is under way while a scrape runs that is alone so far.
NobodyElse ==
  \A s, q \in Scrapers : scrapes[s].alone /\ UnderWay(s) /\ UnderWay(q) => q = s

\* The gauges of a scrape that is alone so far are those it has set since it
\* cleared them, and what it answers is what it read.
GaugesAreRead ==
  \A s \in Scrapers :
    LET r == scrapes[s] IN
    r.alone =>
      /\ r.next \in 1 .. 3 =>
           /\ gauges["telemetry"] = {}
           /\ Len(r.got) = r.next - 1
           /\ \A n \in 1 .. r.next - 1 : r.got[n] = gauges[Sampled[n]]
      /\ r.next = 4 => r.answer = r.got

ScrapeInv == ScrapesTyped /\ NobodyElse /\ GaugesAreRead

\* A scrape begins: it clears what the others had set, and they are no longer alone.
LEMMA BeginScrapeInv ==
  ASSUME ScrapeInv, NEW s \in Scrapers, BeginScrape(s)
  PROVE  ScrapeInv'
<1> DEFINE begun == [NotBegun EXCEPT !.next = 1,
                                     !.alone = ~ \E q \in Scrapers : UnderWay(q)]
           beside(r) == [scrapes[r] EXCEPT !.alone = scrapes[r].alone /\ ~UnderWay(r)]
<1>1. /\ scrapes \in [Scrapers -> ScrapeRow]
      /\ gauges' = [t \in {"jobs", "nodes", "telemetry"} |-> {}]
      /\ scrapes' = [r \in Scrapers |-> IF r = s THEN begun ELSE beside(r)]
  BY DEF ScrapeInv, ScrapesTyped, BeginScrape, Cleared, NoSamples
<1>2. {} \in Samples /\ << >> \in Seq(Samples)
  BY DEF Samples
<1>3. /\ begun \in ScrapeRow /\ begun.next = 1 /\ ~begun.pending /\ begun.got = << >>
      /\ begun.alone = ~ \E q \in Scrapers : UnderWay(q)
  <2> DEFINE lone == ~ \E q \in Scrapers : UnderWay(q)
  <2>1. lone \in BOOLEAN
    OBVIOUS
  <2> HIDE DEF lone
  <2>2. NotBegun \in ScrapeRow /\ ~NotBegun.pending /\ NotBegun.got = << >>
    BY <1>2 DEF NotBegun, ScrapeRow
  <2>3. begun = [NotBegun EXCEPT !.next = 1, !.alone = lone]
    BY DEF lone
  <2> HIDE DEF begun
  <2>4. begun \in ScrapeRow /\ begun.next = 1
    <3> DEFINE first == [NotBegun EXCEPT !.next = 1]
    <3>1. first \in ScrapeRow /\ first.next = 1
      BY <2>2 DEF ScrapeRow
    <3>2. begun = [first EXCEPT !.alone = lone]
      BY <2>3
    <3> HIDE DEF first
    <3> QED
      BY <2>1, <3>1, <3>2 DEF ScrapeRow
  <2>5. ~begun.pending /\ begun.got = << >> /\ begun.alone = lone
    <3>1. begun.pending = NotBegun.pending
      BY <2>2, <2>3 DEF ScrapeRow
    <3>2. begun.got = NotBegun.got
      BY <2>2, <2>3 DEF ScrapeRow
    <3>3. begun.alone = lone
      BY <2>2, <2>3 DEF ScrapeRow
    <3> QED
      BY <2>2, <3>1, <3>2, <3>3
  <2> QED
    BY <2>4, <2>5 DEF lone
<1>4. \A r \in Scrapers :
        /\ beside(r) \in ScrapeRow
        /\ beside(r).next = scrapes[r].next /\ beside(r).pending = scrapes[r].pending
        /\ beside(r).got = scrapes[r].got /\ beside(r).answer = scrapes[r].answer
        /\ beside(r).alone <=> scrapes[r].alone /\ ~UnderWay(r)
  BY <1>1 DEF ScrapeRow
<1> HIDE DEF begun, beside
<1>5. \A r \in Scrapers : scrapes'[r] = IF r = s THEN begun ELSE beside(r)
  BY <1>1
<1>6. ScrapesTyped'
  <2>1. gauges' \in [{"jobs", "nodes", "telemetry"} -> Samples]
    BY <1>1, <1>2
  <2>2. scrapes' \in [Scrapers -> ScrapeRow]
    BY <1>1, <1>3, <1>4
  <2>3. \A r \in Scrapers : scrapes'[r].pending => scrapes'[r].next \in 1 .. 3
    BY <1>3, <1>4, <1>5 DEF ScrapeInv, ScrapesTyped, UnderWay
  <2> QED
    BY <2>1, <2>2, <2>3 DEF ScrapesTyped, UnderWay
<1>7. NobodyElse'
  <2>1. SUFFICES ASSUME NEW r \in Scrapers, NEW q \in Scrapers, r # q,
                        scrapes'[r].alone, scrapes'[r].next \in 1 .. 3,
                        scrapes'[q].next \in 1 .. 3
                 PROVE  FALSE
    BY DEF NobodyElse, UnderWay
  <2>2. CASE r = s
    <3>1. UnderWay(q)
      BY <2>1, <2>2, <1>4, <1>5 DEF UnderWay
    <3> QED
      BY <2>1, <2>2, <3>1, <1>3, <1>5
  <2>3. CASE r # s
    <3>1. UnderWay(r)
      BY <2>1, <2>3, <1>4, <1>5 DEF UnderWay
    <3> QED
      BY <2>1, <2>3, <3>1, <1>4, <1>5
  <2> QED
    BY <2>2, <2>3
<1>8. GaugesAreRead'
  <2>1. SUFFICES ASSUME NEW r \in Scrapers, scrapes'[r].alone
                 PROVE  LET q == scrapes'[r] IN
                        /\ q.next \in 1 .. 3 =>
                             /\ gauges'["telemetry"] = {}
                             /\ Len(q.got) = q.next - 1
                             /\ \A n \in 1 .. q.next - 1 :
                                  q.got[n] = gauges'[Sampled[n]]
                        /\ q.next = 4 => q.answer = q.got
    BY DEF GaugesAreRead
  <2>2. CASE r = s
    BY <2>2, <1>1, <1>3, <1>5
  <2>3. CASE r # s
    <3>1. scrapes[r].alone /\ ~UnderWay(r) /\ scrapes'[r] = beside(r)
      BY <2>1, <2>3, <1>4, <1>5
    <3> QED
      BY <3>1, <1>4 DEF ScrapeInv, GaugesAreRead, UnderWay
  <2> QED
    BY <2>2, <2>3
<1> QED
  BY <1>6, <1>7, <1>8 DEF ScrapeInv

\* A statement reads the tables into the scrape alone.
LEMMA ScrapeSelectInv ==
  ASSUME TablesTyped, ScrapeInv, NEW s \in Scrapers, ScrapeSelect(s)
  PROVE  ScrapeInv'
<1> DEFINE seen == Select(Sampled[scrapes[s].next])
           read == [scrapes[s] EXCEPT !.pending = TRUE, !.read = seen]
<1>1. /\ scrapes \in [Scrapers -> ScrapeRow] /\ UnderWay(s)
      /\ scrapes' = [scrapes EXCEPT ![s] = read] /\ gauges' = gauges
  BY DEF ScrapeInv, ScrapesTyped, ScrapeSelect
<1>2. seen \in Samples
  <2>1. JobSamples \in Samples /\ nodes \in Samples /\ telemetry \in Samples
    BY DEF TablesTyped, JobRow, JobSamples, Samples
  <2>2. Sampled[scrapes[s].next] \in {"jobs", "nodes", "telemetry"}
    BY <1>1 DEF UnderWay, Sampled
  <2> QED
    BY <2>1, <2>2 DEF Select
<1> HIDE DEF seen
<1>3. /\ read \in ScrapeRow /\ read.next = scrapes[s].next
      /\ read.got = scrapes[s].got /\ read.answer = scrapes[s].answer
      /\ read.alone = scrapes[s].alone
  BY <1>1, <1>2 DEF ScrapeRow
<1> HIDE DEF read
<1>4. \A r \in Scrapers :
        /\ scrapes'[r].next = scrapes[r].next /\ scrapes'[r].got = scrapes[r].got
        /\ scrapes'[r].answer = scrapes[r].answer
        /\ scrapes'[r].alone = scrapes[r].alone
        /\ r # s => scrapes'[r] = scrapes[r]
  BY <1>1, <1>3
<1>5. ScrapesTyped'
  BY <1>1, <1>3, <1>4 DEF ScrapeInv, ScrapesTyped, UnderWay
<1>6. NobodyElse' /\ GaugesAreRead'
  BY <1>1, <1>4 DEF ScrapeInv, NobodyElse, GaugesAreRead, UnderWay
<1> QED
  BY <1>5, <1>6 DEF ScrapeInv

\* A scrape sets the gauges of what it read, and after the last of them answers.
LEMMA ScrapeSetInv ==
  ASSUME ScrapeInv, NEW s \in Scrapers, ScrapeSet(s)
  PROVE  ScrapeInv'
<1> DEFINE old == scrapes[s]
           table == Sampled[old.next]
           set == [gauges EXCEPT ![table] = IF table = "telemetry"
                                            THEN gauges[table] \cup old.read
                                            ELSE old.read]
           answer == IF table = "telemetry" THEN [n \in 1 .. 3 |-> set[Sampled[n]]]
                                            ELSE old.answer
           new == [old EXCEPT !.pending = FALSE, !.next = old.next + 1,
                              !.got = Append(old.got, old.read), !.answer = answer]
<1>1. /\ scrapes \in [Scrapers -> ScrapeRow] /\ UnderWay(s) /\ old.pending
      /\ gauges \in [{"jobs", "nodes", "telemetry"} -> Samples]
      /\ gauges' = set /\ scrapes' = [scrapes EXCEPT ![s] = new]
  BY DEF ScrapeInv, ScrapesTyped, ScrapeSet
<1>2. /\ old.next \in 1 .. 3 /\ old.read \in Samples /\ old.got \in Seq(Samples)
      /\ old.answer \in Seq(Samples) /\ old \in ScrapeRow
  BY <1>1 DEF UnderWay, ScrapeRow
<1>3. /\ table \in {"jobs", "nodes", "telemetry"}
      /\ old.next = 1 => table = "jobs"
      /\ old.next = 2 => table = "nodes"
      /\ old.next = 3 => table = "telemetry"
  BY <1>2 DEF Sampled
<1>4. /\ set \in [{"jobs", "nodes", "telemetry"} -> Samples]
      /\ \A t \in {"jobs", "nodes", "telemetry"} :
           set[t] = IF t = table
                    THEN IF t = "telemetry" THEN gauges[t] \cup old.read ELSE old.read
                    ELSE gauges[t]
  BY <1>1, <1>2, <1>3 DEF Samples
<1> HIDE DEF set
<1>5. [n \in 1 .. 3 |-> set[Sampled[n]]]
        = <<set["jobs"], set["nodes"], set["telemetry"]>>
  BY DEF Sampled
<1>6. answer \in Seq(Samples)
  BY <1>2, <1>4, <1>5
<1> HIDE DEF answer
<1>7. /\ new \in ScrapeRow /\ new.next = old.next + 1 /\ ~new.pending
      /\ new.alone = old.alone /\ new.got = Append(old.got, old.read)
      /\ new.answer = answer
  <2> DEFINE got1 == Append(old.got, old.read)
  <2>1. got1 \in Seq(Samples) /\ old.next + 1 \in 0 .. 4
    BY <1>2
  <2> HIDE DEF got1, old
  <2> QED
    BY <2>1, <1>2, <1>6 DEF ScrapeRow, got1
<1> HIDE DEF new, old, table
<1>8. \A r \in Scrapers : scrapes'[r] = IF r = s THEN new ELSE scrapes[r]
  BY <1>1
<1>9. ScrapesTyped'
  <2>1. \A r \in Scrapers : scrapes'[r].pending => scrapes'[r].next \in 1 .. 3
    BY <1>7, <1>8 DEF ScrapeInv, ScrapesTyped, UnderWay
  <2> QED
    BY <2>1, <1>1, <1>4, <1>7 DEF ScrapesTyped, UnderWay
<1>10. NobodyElse'
  <2>1. \A r \in Scrapers : /\ scrapes'[r].alone = scrapes[r].alone
                            /\ scrapes'[r].next \in 1 .. 3 => UnderWay(r)
    BY <1>1, <1>7, <1>8 DEF UnderWay, old
  <2> QED
    BY <2>1 DEF ScrapeInv, NobodyElse, UnderWay
<1>11. GaugesAreRead'
  <2>1. SUFFICES ASSUME NEW r \in Scrapers, scrapes'[r].alone
                 PROVE  LET q == scrapes'[r] IN
                        /\ q.next \in 1 .. 3 =>
                             /\ gauges'["telemetry"] = {}
                             /\ Len(q.got) = q.next - 1
                             /\ \A n \in 1 .. q.next - 1 :
                                  q.got[n] = gauges'[Sampled[n]]
                        /\ q.next = 4 => q.answer = q.got
    BY DEF GaugesAreRead
  <2>2. CASE r # s
    <3>1. scrapes'[r] = scrapes[r] /\ scrapes[r].alone
      BY <2>1, <2>2, <1>8
    <3>2. ~UnderWay(r)
      BY <3>1, <2>2, <1>1 DEF ScrapeInv, NobodyElse
    <3> QED
      BY <3>1, <3>2 DEF ScrapeInv, GaugesAreRead, UnderWay
  <2>3. CASE r = s
    <3>1. scrapes'[r] = new /\ old.alone /\ old = scrapes[s]
      BY <2>1, <2>3, <1>7, <1>8 DEF old
    <3>2. /\ gauges["telemetry"] = {}
          /\ Len(old.got) = old.next - 1
          /\ \A n \in 1 .. old.next - 1 : old.got[n] = gauges[Sampled[n]]
      BY <3>1, <1>2 DEF ScrapeInv, GaugesAreRead
    <3>3. /\ new.got \in Seq(Samples) /\ Len(new.got) = old.next
          /\ \A n \in 1 .. old.next :
               new.got[n] = IF n = old.next THEN old.read ELSE old.got[n]
      BY <3>2, <1>2, <1>7
    <3>4. \A n \in 1 .. old.next : new.got[n] = set[Sampled[n]]
      <4>1. set[table] = old.read /\ \A n \in 1 .. 3 : n < old.next =>
              set[Sampled[n]] = gauges[Sampled[n]]
        <5>1. set[table] = old.read
          BY <3>2, <1>3, <1>4
        <5>2. CASE old.next = 1
          BY <5>1, <5>2
        <5>3. CASE old.next = 2
          BY <5>1, <5>3, <1>3, <1>4 DEF Sampled
        <5>4. CASE old.next = 3
          BY <5>1, <5>4, <1>3, <1>4 DEF Sampled
        <5> QED
          BY <5>2, <5>3, <5>4, <1>2
      <4>2. table = Sampled[old.next]
        BY DEF table
      <4> QED
        BY <3>2, <3>3, <4>1, <4>2, <1>2
    <3>5. CASE old.next < 3
      <4>1. set["telemetry"] = {}
        BY <3>2, <3>5, <1>2, <1>3, <1>4
      <4>2. new.next - 1 = old.next /\ new.next # 4
        BY <3>5, <1>2, <1>7
      <4>3. /\ gauges'["telemetry"] = {}
            /\ Len(new.got) = new.next - 1
            /\ \A n \in 1 .. new.next - 1 : new.got[n] = gauges'[Sampled[n]]
        BY <3>3, <3>4, <4>1, <4>2, <1>1
      <4> QED
        BY <3>1, <4>2, <4>3
    <3>6. CASE old.next = 3
      <4>1. /\ answer = <<set["jobs"], set["nodes"], set["telemetry"]>>
            /\ answer \in Seq(Samples)
        BY <3>6, <1>3, <1>5, <1>6 DEF answer
      <4>2. new.got = answer
        <5>1. Len(answer) = 3 /\ \A n \in 1 .. 3 : answer[n] = set[Sampled[n]]
          BY <4>1 DEF Sampled
        <5> QED
          BY <3>3, <3>4, <3>6, <4>1, <5>1, SeqEqual
      <4>3. new.next = 4 /\ new.answer = new.got
        <5>1. new.next = 3 + 1
          BY <3>6, <1>7
        <5>2. new.answer = answer
          BY <1>7
        <5> QED
          BY <5>1, <5>2, <4>2
      <4> QED
        BY <3>1, <4>3
    <3> QED
      BY <3>5, <3>6, <1>2
  <2> QED
    BY <2>2, <2>3
<1> QED
  BY <1>9, <1>10, <1>11 DEF ScrapeInv

\* Every step keeps it.
LEMMA ScrapeNextInv ==
  ASSUME TablesTyped, ScrapeInv, DashboardNext \/ ScrapeNext \/ UNCHANGED tableVars
  PROVE  ScrapeInv'
<1>1. CASE \E s \in Scrapers : BeginScrape(s) \/ ScrapeSelect(s) \/ ScrapeSet(s)
  BY <1>1, BeginScrapeInv, ScrapeSelectInv, ScrapeSetInv
<1>2. CASE UNCHANGED <<gauges, scrapes>>
  BY <1>2 DEF ScrapeInv, ScrapesTyped, NobodyElse, GaugesAreRead, UnderWay
<1>3. \/ \E s \in Scrapers : BeginScrape(s) \/ ScrapeSelect(s) \/ ScrapeSet(s)
      \/ UNCHANGED <<gauges, scrapes>>
  BY DEF DashboardNext, ScrapeNext, DashboardStatement, Transition, Register,
         RecordMetrics, RemoveNode, tableVars
<1> QED
  BY <1>1, <1>2, <1>3

\* No scrape has begun at first.
LEMMA ScrapeInitInv == ViewsInit => ScrapeInv
<1> SUFFICES ASSUME ViewsInit PROVE ScrapeInv
  OBVIOUS
<1>1. gauges = NoSamples /\ scrapes = [s \in Scrapers |-> NotBegun]
  BY DEF ViewsInit, DashboardInit, ScrapeInit, TablesInit
<1>2. NotBegun \in ScrapeRow /\ NotBegun.next = 0 /\ ~NotBegun.pending
  BY DEF NotBegun, ScrapeRow, Samples
<1> QED
  BY <1>1, <1>2
     DEF ScrapeInv, ScrapesTyped, NobodyElse, GaugesAreRead, UnderWay, NoSamples,
         Samples

\* refresh_platform_gauges clears every gauge first and nothing is awaited between
\* the last set and the rendering: a scrape that no other overlaps answers what it
\* read.
THEOREM LoneScrapeIsExact == ViewsSpec => []AloneScrapeIsExact
<1>1. ScrapeInv => AloneScrapeIsExact
  BY DEF ScrapeInv, GaugesAreRead, AloneScrapeIsExact
<1>2. TablesTyped /\ ScrapeInv
        /\ [ViewsNext]_<<view, deploymentVars, nodeVars, pageVars, tableVars>>
        => TablesTyped' /\ ScrapeInv'
  BY ViewSteps, TablesTypedInv, ScrapeNextInv
<1> QED
  BY <1>1, <1>2, TablesInitInv, ScrapeInitInv, PTL DEF ViewsSpec
=============================================================================
