----------------------------- MODULE FleetProofs -----------------------------
(***************************************************************************)
(* Safety of Fleet for any jobs, agents and cancels in flight, and however   *)
(* many messages are lost and agents restarted.                             *)
(***************************************************************************)
EXTENDS Fleet, TLAPS

TypeOK ==
  /\ status \in [Jobs -> JobStatuses \cup {"absent"}]
  /\ holder \in [Jobs -> Nodes \cup {NULL}]
  /\ charges \in [Jobs -> Nat]
  /\ cancel \in [Jobs -> BOOLEAN]
  /\ seen \in [Cancels -> Reads \cup {NULL}]
  /\ tick \in [Nodes -> Ticks]
  /\ run \in [Nodes -> [Jobs -> Stages]]
  /\ runningID \in [Nodes -> Jobs \cup {NULL}]
  /\ late \subseteq Requests
  /\ faults \in Nat

Works(n, j) == run[n][j] \in Working

\* A job to be started has no goroutine that could still report it.
GivenIsFresh ==
  \A n \in Nodes, j \in Jobs : Given(n, j) => ~Works(n, j)

\* Between the check of a claim an agent waits for and the assignment, nothing the
\* agent works on runs in the tables.
FreeRunsNothing ==
  \A n \in Nodes, j \in Jobs :
    tick[n].at = "free" /\ Works(n, j) => status[j] # RUNNING

\* A completion that was given up is of a job no agent has in its hands any more,
\* and that has not been reported yet.
LateIsOver ==
  \A r \in late : r.kind = "complete" =>
    /\ holder[r.job] = r.node /\ charges[r.job] = 0
    /\ status[r.job] \in {RUNNING, CANCELLED}
    /\ \A n \in Nodes : ~InHands(n, r.job)

\* There is one such completion of a job at most.
OneReport ==
  \A r, q \in late :
    r.kind = "complete" /\ q.kind = "complete" /\ r.job = q.job => r = q

\* The job an agent was told to cancel was its own, and if the agent works on it,
\* what else it works on is cancelled.
ToldRan ==
  \A n \in Nodes, k \in Jobs :
    tick[n] = Told("decide", k) =>
      /\ cancel[k] /\ holder[k] = n /\ status[k] \notin {"absent", QUEUED}
      /\ Works(n, k) => \A j \in Jobs : Works(n, j) => j = k \/ status[j] = CANCELLED

\* complete_job bills a job once, whether its report comes in time or late and
\* whatever cancels overtake it; a job that has not ended is not billed.
BilledOnce ==
  \A j \in Jobs :
    charges[j] <= 1 /\ (status[j] \notin TerminalStatuses => charges[j] = 0)

Inv ==
  /\ TypeOK
  /\ RunsAreAssigned
  /\ AgentRunsOneJob
  /\ GivenIsFresh
  /\ FreeRunsNothing
  /\ LateIsOver
  /\ OneReport
  /\ ToldRan
  /\ BilledOnce

-----------------------------------------------------------------------------
(* What the parts of an action do *)

\* The statuses differ from each other.
LEMMA StatusFacts ==
  /\ RUNNING \notin TerminalStatuses /\ QUEUED \notin TerminalStatuses
  /\ "absent" \notin TerminalStatuses
  /\ RUNNING # QUEUED /\ RUNNING # CANCELLED /\ QUEUED # CANCELLED
  /\ CANCELLED \in TerminalStatuses
  /\ {"absent", QUEUED} \cap {RUNNING, CANCELLED} = {}
  /\ TerminalStatuses \cup {QUEUED, RUNNING} = JobStatuses
BY DEF TerminalStatuses, JobStatuses, QUEUED, RUNNING, COMPLETED, FAILED, CANCELLED

\* A goroutine is at work, absent, or about to return.
LEMMA StageFacts ==
  /\ {"starting", "running", "killed", "reporting"} \subseteq Working
  /\ TerminalStatuses \subseteq Working
  /\ Working \subseteq Stages /\ {"none", "returning"} \subseteq Stages \ Working
  /\ "killed" \notin TerminalStatuses \cup {"none", "starting", "running", "reporting",
                                            "returning"}
BY DEF Working, Stages, TerminalStatuses, COMPLETED, FAILED, CANCELLED

\* The states of a ticker.
LEMMA TickFacts ==
  /\ \A at \in {"idle", "heartbeat", "claim", "free"} :
       Waiting(at) \in Ticks /\ Waiting(at).at = at
  /\ \A j \in Jobs \cup {NULL} :
       /\ Told("decide", j) \in Ticks
       /\ Told("decide", j).at = "decide" /\ Told("decide", j).job = j
  /\ \A j \in Jobs :
       /\ Told("start", j) \in Ticks
       /\ Told("start", j).at = "start" /\ Told("start", j).job = j
  /\ \A t \in Ticks : t.at = "start" => t.job \in Jobs /\ t = Told("start", t.job)
  /\ \A t \in Ticks : t.at = "decide" =>
       t.job \in Jobs \cup {NULL} /\ t = Told("decide", t.job)
  /\ \A at \in {"idle", "heartbeat", "claim", "free"}, j \in Jobs :
       Waiting(at) # Told("start", j) /\ Waiting(at) # Told("decide", j)
BY DEF Waiting, Told, Ticks

\* A tick that goes on changes one agent's ticker.
LEMMA TickEffect ==
  ASSUME TypeOK, NEW n \in Nodes, NEW at \in Ticks, TickAt(n, at)
  PROVE  /\ tick' \in [Nodes -> Ticks]
         /\ \A m \in Nodes : tick'[m] = IF m = n THEN at ELSE tick[m]
BY DEF TypeOK, TickAt

\* A goroutine that goes on changes one agent's work on one job.
LEMMA RunEffect ==
  ASSUME TypeOK, NEW n \in Nodes, NEW j \in Jobs, NEW stage \in Stages,
         RunAt(n, j, stage)
  PROVE  /\ run' \in [Nodes -> [Jobs -> Stages]]
         /\ \A m \in Nodes, k \in Jobs :
              run'[m][k] = IF m = n /\ k = j THEN stage ELSE run[m][k]
BY DEF TypeOK, RunAt

\* A claim that is granted starts a queued job, which nobody has in hand.
LEMMA ClaimEffect ==
  ASSUME Inv, NEW n \in Nodes, NEW j \in Jobs, ClaimNextForNode(n, j)
  PROVE  /\ status' \in [Jobs -> JobStatuses \cup {"absent"}]
         /\ holder' \in [Jobs -> Nodes \cup {NULL}]
         /\ charges' = charges
         /\ status[j] = QUEUED
         /\ \A k \in Jobs : status'[k] = IF k = j THEN RUNNING ELSE status[k]
         /\ \A k \in Jobs : holder'[k] = IF k = j THEN n ELSE holder[k]
         /\ \A m \in Nodes : ~InHands(m, j)
         /\ charges[j] = 0
         /\ \A r \in late : r.kind = "complete" => r.job # j
<1>1. /\ status[j] = QUEUED
      /\ status' = [status EXCEPT ![j] = RUNNING]
      /\ holder' = [holder EXCEPT ![j] = n]
      /\ charges' = charges
  BY DEF ClaimNextForNode
<1>2. /\ \A k \in Jobs : status'[k] = IF k = j THEN RUNNING ELSE status[k]
      /\ \A k \in Jobs : holder'[k] = IF k = j THEN n ELSE holder[k]
      /\ status' \in [Jobs -> JobStatuses \cup {"absent"}]
      /\ holder' \in [Jobs -> Nodes \cup {NULL}]
  BY <1>1, StatusFacts DEF Inv, TypeOK
<1>3. \A m \in Nodes : ~InHands(m, j)
  BY <1>1, StatusFacts DEF Inv, RunsAreAssigned
<1>4. charges[j] = 0
  BY <1>1, StatusFacts DEF Inv, BilledOnce
<1>5. \A r \in late : r.kind = "complete" => r.job # j
  BY <1>1, StatusFacts DEF Inv, LateIsOver
<1> QED BY <1>1, <1>2, <1>3, <1>4, <1>5

\* What complete_job writes, whatever the row has become.
LEMMA CompletesEffect ==
  ASSUME TypeOK, NEW j \in Jobs, NEW outcome \in TerminalStatuses, Completes(j, outcome)
  PROVE  /\ status' \in [Jobs -> JobStatuses \cup {"absent"}]
         /\ charges' \in [Jobs -> Nat]
         /\ holder' = holder
         /\ \A k \in Jobs : status'[k] = IF k = j THEN outcome ELSE status[k]
         /\ \A k \in Jobs : charges'[k] = IF k = j THEN charges[k] + 1 ELSE charges[k]
BY StatusFacts DEF TypeOK, Completes

\* A report is read for a job that runs on its node, or refused.
LEMMA OutcomesFacts ==
  ASSUME TypeOK, NEW n \in Nodes, NEW j \in Jobs
  PROVE  /\ Outcomes(n, j) \subseteq TerminalStatuses
         /\ Outcomes(n, j) = {} => ~(status[j] = RUNNING /\ holder[j] = n)
BY DEF Outcomes, GetRunningForNode, TypeOK, TerminalStatuses

\* What a late completion is about.
LEMMA RequestFacts ==
  ASSUME NEW r \in Requests, r.kind = "complete"
  PROVE  /\ r.node \in Nodes /\ r.job \in Jobs
         /\ r.at \in {"reporting"} \cup TerminalStatuses
         /\ \A at \in TerminalStatuses :
              LET q == [r EXCEPT !.at = at] IN
                q \in Requests /\ q.kind = r.kind /\ q.node = r.node /\ q.job = r.job
BY DEF Requests

\* What an agent gives up.
LEMMA GivenUpFacts ==
  ASSUME TypeOK, NEW n \in Nodes
  PROVE  /\ tick[n].at \in {"claim", "free"} =>
              ClaimOf(n) \in Requests /\ ClaimOf(n).kind = "claim"
         /\ \A j \in Jobs : /\ ReportOf(n, j) \in Requests
                            /\ ReportOf(n, j).node = n /\ ReportOf(n, j).job = j
BY DEF TypeOK, ClaimOf, ReportOf, Requests

-----------------------------------------------------------------------------
(* Steps that leave the control plane alone *)

\* Nothing that happens to an agent breaks the invariant, as long as it takes up no
\* job but the one it was given, is told nothing untrue, and gives up only reports
\* of what it was working on.
LEMMA AgentStep ==
  ASSUME Inv, UNCHANGED <<lifecycle, requests>>,
         tick' \in [Nodes -> Ticks],
         run' \in [Nodes -> [Jobs -> Stages]],
         runningID' \in [Nodes -> Jobs \cup {NULL}],
         late' \subseteq Requests, faults' \in Nat,
         \A n \in Nodes, j \in Jobs : InHands(n, j)' => InHands(n, j),
         GivenIsFresh', FreeRunsNothing', ToldRan',
         \A r \in late' : r.kind = "complete" =>
           \/ \E q \in late : q.kind = "complete" /\ q.job = r.job /\ q.node = r.node
           \/ InHands(r.node, r.job) /\ ~InHands(r.node, r.job)',
         OneReport'
  PROVE  Inv'
<1> USE DEF lifecycle, requests
<1>1. TypeOK'
  BY DEF Inv, TypeOK
<1>2. BilledOnce'
  BY DEF Inv, BilledOnce
<1>3. RunsAreAssigned'
  BY DEF Inv, RunsAreAssigned
<1>4. AgentRunsOneJob'
  BY DEF Inv, AgentRunsOneJob
<1>5. LateIsOver'
  <2> SUFFICES ASSUME NEW r \in late', r.kind = "complete"
               PROVE  /\ holder[r.job] = r.node /\ charges[r.job] = 0
                      /\ status[r.job] \in {RUNNING, CANCELLED}
                      /\ \A n \in Nodes : ~InHands(n, r.job)'
    BY DEF LateIsOver
  <2>1. r.node \in Nodes /\ r.job \in Jobs
    BY RequestFacts
  <2>2. CASE \E q \in late : q.kind = "complete" /\ q.job = r.job /\ q.node = r.node
    BY <2>1, <2>2 DEF Inv, LateIsOver
  <2>3. CASE InHands(r.node, r.job) /\ ~InHands(r.node, r.job)'
    <3>1. \A n \in Nodes : InHands(n, r.job) => n = r.node
      BY <2>1, <2>3 DEF Inv, RunsAreAssigned
    <3> QED BY <2>1, <2>3, <3>1 DEF Inv, RunsAreAssigned
  <2> QED BY <2>2, <2>3
<1> QED BY <1>1, <1>2, <1>3, <1>4, <1>5 DEF Inv

\* Requests that go on or end, with no new report among them, are still one a job.
LEMMA NoNewReport ==
  ASSUME Inv, \A r \in late' : r \in late \/ r.kind # "complete"
  PROVE  /\ OneReport'
         /\ \A r \in late' : r.kind = "complete" => \E q \in late :
              q.kind = "complete" /\ q.job = r.job /\ q.node = r.node
BY DEF Inv, OneReport

\* A tick that goes on without a job or an order, and not to an assignment.
LEMMA TickStep ==
  ASSUME Inv, NEW n \in Nodes, NEW at \in {"idle", "heartbeat", "claim"},
         TickAt(n, Waiting(at)),
         UNCHANGED <<lifecycle, requests, run, runningID>>,
         late' \subseteq Requests, faults' \in Nat,
         \A r \in late' : r \in late \/ r.kind # "complete"
  PROVE  Inv'
<1>0. TypeOK
  BY DEF Inv
<1>1. /\ tick' \in [Nodes -> Ticks]
      /\ \A m \in Nodes : tick'[m] = IF m = n THEN Waiting(at) ELSE tick[m]
      /\ Waiting(at).at = at
      /\ \A j \in Jobs : Waiting(at) # Told("start", j) /\ Waiting(at) # Told("decide", j)
  BY <1>0, TickEffect, TickFacts
<1>2. \A m \in Nodes, j \in Jobs : InHands(m, j)' => InHands(m, j)
  BY <1>1 DEF InHands, Given
<1>3. GivenIsFresh' /\ FreeRunsNothing' /\ ToldRan'
  <2>1. GivenIsFresh'
    BY <1>1 DEF Inv, GivenIsFresh, Given, Works
  <2>2. FreeRunsNothing'
    BY <1>1 DEF Inv, FreeRunsNothing, Works, lifecycle
  <2>3. ToldRan'
    BY <1>1 DEF Inv, ToldRan, Works, lifecycle, requests
  <2> QED BY <2>1, <2>2, <2>3
<1>4. run' \in [Nodes -> [Jobs -> Stages]] /\ runningID' \in [Nodes -> Jobs \cup {NULL}]
  BY <1>0 DEF TypeOK
<1> QED BY <1>1, <1>2, <1>3, <1>4, NoNewReport, AgentStep

\* A goroutine that goes on with its job, or is done with it; only a report that
\* fails leaves a request behind.
LEMMA RunStep ==
  ASSUME Inv, NEW n \in Nodes, NEW j \in Jobs, NEW stage \in Stages,
         RunAt(n, j, stage), UNCHANGED <<lifecycle, requests, tick>>,
         runningID' \in [Nodes -> Jobs \cup {NULL}], faults' \in Nat,
         stage \in Working => Works(n, j),
         \/ late' = late
         \/ late' = late \cup {ReportOf(n, j)} /\ Works(n, j) /\ stage \notin Working
  PROVE  Inv'
<1>0. TypeOK
  BY DEF Inv
<1>1. /\ run' \in [Nodes -> [Jobs -> Stages]]
      /\ \A m \in Nodes, k \in Jobs :
           run'[m][k] = IF m = n /\ k = j THEN stage ELSE run[m][k]
  BY <1>0, RunEffect
<1>2. \A m \in Nodes, k \in Jobs : Works(m, k)' => Works(m, k)
  BY <1>1 DEF Works
<1>3. /\ \A m \in Nodes, k \in Jobs : InHands(m, k)' => InHands(m, k)
      /\ \A m \in Nodes, k \in Jobs : Given(m, k)' <=> Given(m, k)
  BY <1>2 DEF InHands, Given, Works
<1>4. GivenIsFresh' /\ FreeRunsNothing' /\ ToldRan'
  <2>1. GivenIsFresh'
    BY <1>2, <1>3 DEF Inv, GivenIsFresh
  <2>2. FreeRunsNothing'
    BY <1>2 DEF Inv, FreeRunsNothing, lifecycle
  <2>3. ToldRan'
    BY <1>2 DEF Inv, ToldRan, lifecycle, requests
  <2> QED BY <2>1, <2>2, <2>3
<1>5. CASE late' = late
  <2>1. late' \subseteq Requests
    BY <1>0, <1>5 DEF TypeOK
  <2>2. tick' \in [Nodes -> Ticks]
    BY <1>0 DEF TypeOK
  <2> QED BY <1>1, <1>3, <1>4, <1>5, <2>1, <2>2, NoNewReport, AgentStep
<1>6. CASE late' = late \cup {ReportOf(n, j)} /\ Works(n, j) /\ stage \notin Working
  <2>1. /\ ReportOf(n, j) \in Requests
        /\ ReportOf(n, j).node = n /\ ReportOf(n, j).job = j
    BY <1>0, GivenUpFacts
  <2>2. late' \subseteq Requests /\ tick' \in [Nodes -> Ticks]
    BY <1>0, <1>6, <2>1 DEF TypeOK
  <2>3. InHands(n, j) /\ ~InHands(n, j)'
    BY <1>1, <1>3, <1>6 DEF InHands, Works, Inv, GivenIsFresh
  <2>4. \A r \in late : r.kind = "complete" => r.job # j
    BY <2>3 DEF Inv, LateIsOver
  <2>5. OneReport'
    BY <1>6, <2>1, <2>4 DEF Inv, OneReport
  <2>6. \A r \in late' : r.kind = "complete" =>
           \/ \E q \in late : q.kind = "complete" /\ q.job = r.job /\ q.node = r.node
           \/ InHands(r.node, r.job) /\ ~InHands(r.node, r.job)'
    BY <1>6, <2>1, <2>3
  <2> QED BY <1>1, <1>3, <1>4, <2>2, <2>5, <2>6, AgentStep
<1> QED BY <1>5, <1>6

\* The agent only starts to wait, or its tick is over.
LEMMA WaitingSteps ==
  ASSUME Inv, NEW n \in Nodes, Heartbeat(n) \/ HeartbeatLost(n) \/ ClaimLost(n)
  PROVE  Inv'
<1>0. TypeOK
  BY DEF Inv
<1>1. CASE Heartbeat(n)
  <2>1. /\ TickAt(n, Waiting("heartbeat")) /\ late' = late /\ faults' = faults
        /\ UNCHANGED <<lifecycle, requests, run, runningID>>
    BY <1>1 DEF Heartbeat, faulty
  <2>2. late' \subseteq Requests /\ faults' \in Nat
    BY <1>0, <2>1 DEF TypeOK
  <2> QED BY <2>1, <2>2, TickStep
<1>2. CASE HeartbeatLost(n)
  <2>1. /\ TickAt(n, Waiting("idle")) /\ late' = late /\ faults' = faults + 1
        /\ UNCHANGED <<lifecycle, requests, run, runningID>>
    BY <1>2 DEF HeartbeatLost, Faulty
  <2>2. late' \subseteq Requests /\ faults' \in Nat
    BY <1>0, <2>1 DEF TypeOK
  <2> QED BY <2>1, <2>2, TickStep
<1>3. CASE ClaimLost(n)
  <2>1. /\ TickAt(n, Waiting("idle")) /\ faults' = faults + 1
        /\ UNCHANGED <<lifecycle, requests, run, runningID>>
        /\ \/ late' = late
           \/ tick[n].at \in {"claim", "free"} /\ late' = late \cup {ClaimOf(n)}
    BY <1>3 DEF ClaimLost, Faulty
  <2>2. \/ late' = late
        \/ /\ late' = late \cup {ClaimOf(n)}
           /\ ClaimOf(n) \in Requests /\ ClaimOf(n).kind = "claim"
    BY <1>0, <2>1, GivenUpFacts
  <2>3. /\ late' \subseteq Requests /\ faults' \in Nat
        /\ \A r \in late' : r \in late \/ r.kind # "complete"
    BY <1>0, <2>1, <2>2 DEF TypeOK
  <2> QED BY <2>1, <2>3, TickStep
<1> QED BY <1>1, <1>2, <1>3

\* The goroutine goes on, and holds its job until a report of it was answered, or
\* given up.
LEMMA JobSteps ==
  ASSUME Inv, NEW n \in Nodes, NEW j \in Jobs,
         \/ JobStarted(n, j) \/ ContainerEnded(n, j) \/ CompleteRead(n, j)
         \/ JobReturned(n, j) \/ CompleteLost(n, j)
  PROVE  Inv'
<1>0. /\ TypeOK /\ run[n][j] \in Stages
      /\ runningID \in [Nodes -> Jobs \cup {NULL}] /\ faults \in Nat
  BY DEF Inv, TypeOK
<1>1. CASE JobStarted(n, j)
  <2>1. /\ run[n][j] = "starting" /\ RunAt(n, j, "running")
        /\ runningID' = [runningID EXCEPT ![n] = j]
        /\ UNCHANGED <<lifecycle, requests, tick>> /\ late' = late /\ faults' = faults
    BY <1>1 DEF JobStarted, faulty
  <2>2. Works(n, j) /\ "running" \in Stages
    BY <2>1, StageFacts DEF Works
  <2>3. runningID' \in [Nodes -> Jobs \cup {NULL}] /\ faults' \in Nat
    BY <1>0, <2>1
  <2> QED BY <2>1, <2>2, <2>3, RunStep
<1>2. CASE ContainerEnded(n, j)
  <2>1. /\ run[n][j] \in {"running", "killed"} /\ RunAt(n, j, "reporting")
        /\ UNCHANGED <<lifecycle, requests, tick>>
        /\ runningID' = runningID /\ late' = late /\ faults' = faults
    BY <1>2 DEF ContainerEnded, faulty
  <2>2. Works(n, j) /\ "reporting" \in Stages
    BY <2>1, StageFacts DEF Works
  <2>3. runningID' \in [Nodes -> Jobs \cup {NULL}] /\ faults' \in Nat
    BY <1>0, <2>1
  <2> QED BY <2>1, <2>2, <2>3, RunStep
<1>3. CASE CompleteRead(n, j)
  <2>1. PICK stage \in {"returning"} \cup TerminalStatuses : RunAt(n, j, stage)
    BY <1>0, <1>3, OutcomesFacts DEF CompleteRead
  <2>2. /\ run[n][j] = "reporting"
        /\ UNCHANGED <<lifecycle, requests, tick>>
        /\ runningID' = runningID /\ late' = late /\ faults' = faults
    BY <1>3 DEF CompleteRead, faulty
  <2>3. Works(n, j) /\ stage \in Stages
    BY <2>2, StageFacts DEF Works
  <2>4. runningID' \in [Nodes -> Jobs \cup {NULL}] /\ faults' \in Nat
    BY <1>0, <2>2
  <2> QED BY <2>1, <2>2, <2>3, <2>4, RunStep
<1>4. CASE JobReturned(n, j)
  <2>1. /\ RunAt(n, j, "none")
        /\ runningID' = [runningID EXCEPT ![n] = NULL]
        /\ UNCHANGED <<lifecycle, requests, tick>> /\ late' = late /\ faults' = faults
    BY <1>4 DEF JobReturned, faulty
  <2>2. "none" \in Stages \ Working
    BY StageFacts
  <2>3. runningID' \in [Nodes -> Jobs \cup {NULL}] /\ faults' \in Nat
    BY <1>0, <2>1
  <2> QED BY <2>1, <2>2, <2>3, RunStep
<1>5. CASE CompleteLost(n, j)
  <2>1. /\ run[n][j] \in {"reporting"} \cup TerminalStatuses
        /\ RunAt(n, j, "returning") /\ faults' = faults + 1
        /\ UNCHANGED <<lifecycle, requests, tick>> /\ runningID' = runningID
        /\ late' = late \/ late' = late \cup {ReportOf(n, j)}
    BY <1>5 DEF CompleteLost, Faulty
  <2>2. Works(n, j) /\ "returning" \in Stages \ Working
    BY <2>1, StageFacts DEF Works
  <2>3. runningID' \in [Nodes -> Jobs \cup {NULL}] /\ faults' \in Nat
    BY <1>0, <2>1
  <2> QED BY <2>1, <2>2, <2>3, RunStep
<1> QED BY <1>1, <1>2, <1>3, <1>4, <1>5

\* What the heartbeat handler answers is true when it answers, and remains so: the
\* agent takes up nothing until it has decided.
LEMMA HeartbeatAnsweredInv ==
  ASSUME Inv, NEW n \in Nodes, HeartbeatAnswered(n)
  PROVE  Inv'
<1>0. TypeOK
  BY DEF Inv
<1>1. PICK told \in Jobs \cup {NULL} :
        /\ TickAt(n, Told("decide", told))
        /\ told # NULL => status[told] = RUNNING /\ holder[told] = n /\ cancel[told]
  BY DEF HeartbeatAnswered, GetRunningForNode
<1>2. /\ UNCHANGED <<lifecycle, requests, run, runningID>>
      /\ late' = late /\ faults' = faults
  BY DEF HeartbeatAnswered, faulty
<1>3. /\ tick' \in [Nodes -> Ticks]
      /\ \A m \in Nodes : tick'[m] = IF m = n THEN Told("decide", told) ELSE tick[m]
      /\ Told("decide", told).at = "decide" /\ Told("decide", told).job = told
      /\ \A k \in Jobs : Told("decide", told) # Told("start", k)
  <2>1. \A k \in Jobs : Told("decide", told).at # Told("start", k).at
    BY TickFacts
  <2> QED BY <1>0, <1>1, <2>1, TickEffect, TickFacts
<1>4. \A m \in Nodes, j \in Jobs : InHands(m, j)' => InHands(m, j)
  BY <1>2, <1>3 DEF InHands, Given
<1>5. GivenIsFresh'
  BY <1>2, <1>3 DEF Inv, GivenIsFresh, Given, Works
<1>6. FreeRunsNothing'
  BY <1>2, <1>3 DEF Inv, FreeRunsNothing, Works, lifecycle
<1>7. ToldRan'
  <2> SUFFICES ASSUME NEW m \in Nodes, NEW k \in Jobs, tick'[m] = Told("decide", k)
               PROVE  /\ cancel[k] /\ holder[k] = m /\ status[k] \notin {"absent", QUEUED}
                      /\ Works(m, k) => \A j \in Jobs :
                           Works(m, j) => j = k \/ status[j] = CANCELLED
    BY <1>2 DEF ToldRan, Works, lifecycle, requests
  <2>1. CASE m # n
    BY <1>3, <2>1 DEF Inv, ToldRan
  <2>2. CASE m = n
    <3>1. k = told /\ told # NULL
      <4>1. Told("decide", k).job = k /\ tick'[n] = Told("decide", told)
        BY <1>3, <2>2, TickFacts
      <4> QED BY <4>1, <1>3, <2>2, FleetAssumption
    <3>2. status[k] = RUNNING /\ holder[k] = n /\ cancel[k]
      BY <1>1, <3>1
    <3>3. \A j \in Jobs : Works(n, j) => InHands(n, j) /\ status[j] \in {RUNNING, CANCELLED}
      BY DEF Inv, RunsAreAssigned, InHands, Works
    <3>4. ASSUME Works(n, k), NEW j \in Jobs, Works(n, j), status[j] # CANCELLED
          PROVE  j = k
      BY <3>2, <3>3, <3>4 DEF Inv, AgentRunsOneJob
    <3> QED BY <2>2, <3>2, <3>4, StatusFacts
  <2> QED BY <2>1, <2>2
<1>8. /\ run' \in [Nodes -> [Jobs -> Stages]] /\ runningID' \in [Nodes -> Jobs \cup {NULL}]
      /\ late' \subseteq Requests /\ faults' \in Nat
  BY <1>0, <1>2 DEF TypeOK
<1>9. \A r \in late' : r \in late \/ r.kind # "complete"
  BY <1>2
<1> QED BY <1>2, <1>3, <1>4, <1>5, <1>6, <1>7, <1>8, <1>9, NoNewReport, AgentStep

\* A claim goes on only when the node runs nothing in the tables, what its agent
\* works on included.
LEMMA ClaimCheckInv ==
  ASSUME Inv, NEW n \in Nodes, ClaimCheck(n)
  PROVE  Inv'
<1>0. TypeOK
  BY DEF Inv
<1>1. /\ UNCHANGED <<lifecycle, requests, run, runningID>>
      /\ late' = late /\ faults' = faults
  BY DEF ClaimCheck, faulty
<1>2. late' \subseteq Requests /\ faults' \in Nat
      /\ \A r \in late' : r \in late \/ r.kind # "complete"
  BY <1>0, <1>1 DEF TypeOK
<1>3. CASE GetRunningForNode(n) # {}
  <2>1. TickAt(n, Waiting("idle"))
    BY <1>3 DEF ClaimCheck
  <2> QED BY <1>1, <1>2, <2>1, TickStep
<1>4. CASE GetRunningForNode(n) = {}
  <2>1. TickAt(n, Waiting("free"))
    BY <1>4 DEF ClaimCheck
  <2>2. /\ tick' \in [Nodes -> Ticks]
        /\ \A m \in Nodes : tick'[m] = IF m = n THEN Waiting("free") ELSE tick[m]
        /\ Waiting("free").at = "free"
        /\ \A j \in Jobs :
             Waiting("free") # Told("start", j) /\ Waiting("free") # Told("decide", j)
    BY <1>0, <2>1, TickEffect, TickFacts
  <2>3. \A m \in Nodes, j \in Jobs : InHands(m, j)' => InHands(m, j)
    BY <1>1, <2>2 DEF InHands, Given
  <2>4. GivenIsFresh'
    BY <1>1, <2>2 DEF Inv, GivenIsFresh, Given, Works
  <2>5. FreeRunsNothing'
    <3>1. \A k \in Jobs : Works(n, k) => status[k] # RUNNING
      BY <1>4 DEF Inv, RunsAreAssigned, InHands, Works, GetRunningForNode
    <3> QED BY <1>1, <2>2, <3>1 DEF Inv, FreeRunsNothing, Works, lifecycle
  <2>6. ToldRan'
    BY <1>1, <2>2 DEF Inv, ToldRan, Works, lifecycle, requests
  <2>7. run' \in [Nodes -> [Jobs -> Stages]] /\ runningID' \in [Nodes -> Jobs \cup {NULL}]
    BY <1>0, <1>1 DEF TypeOK
  <2> QED BY <1>1, <1>2, <2>2, <2>3, <2>4, <2>5, <2>6, <2>7, NoNewReport, AgentStep
<1> QED BY <1>3, <1>4

\* A busy agent kills or goes on, an idle one claims; none takes up a job.
LEMMA DecideInv ==
  ASSUME Inv, NEW n \in Nodes, Decide(n)
  PROVE  Inv'
<1>0. TypeOK
  BY DEF Inv
<1>1. /\ UNCHANGED <<lifecycle, requests, runningID>> /\ late' = late /\ faults' = faults
  BY DEF Decide, faulty
<1>2. /\ late' \subseteq Requests /\ faults' \in Nat
      /\ runningID' \in [Nodes -> Jobs \cup {NULL}]
      /\ \A r \in late' : r \in late \/ r.kind # "complete"
  BY <1>0, <1>1 DEF TypeOK
<1>3. CASE UNCHANGED run
  <2>1. PICK at \in {"idle", "claim"} : TickAt(n, Waiting(at))
    BY DEF Decide
  <2> QED BY <1>1, <1>2, <1>3, <2>1, TickStep
<1>4. CASE run' # run
  <2> DEFINE j == runningID[n]
  <2>1. /\ TickAt(n, Waiting("idle")) /\ j # NULL
        /\ run[n][j] = "running" /\ RunAt(n, j, "killed")
    BY <1>4 DEF Decide
  <2>2. j \in Jobs
    BY <1>0, <2>1 DEF TypeOK
  <2> HIDE DEF j
  <2>3. /\ tick' \in [Nodes -> Ticks]
        /\ \A m \in Nodes : tick'[m] = IF m = n THEN Waiting("idle") ELSE tick[m]
        /\ Waiting("idle").at = "idle"
        /\ \A k \in Jobs :
             Waiting("idle") # Told("start", k) /\ Waiting("idle") # Told("decide", k)
    BY <1>0, <2>1, TickEffect, TickFacts
  <2>4. /\ run' \in [Nodes -> [Jobs -> Stages]]
        /\ \A m \in Nodes, k \in Jobs :
             run'[m][k] = IF m = n /\ k = j THEN "killed" ELSE run[m][k]
    <3>1. "killed" \in Stages
      BY StageFacts
    <3> QED BY <1>0, <2>1, <2>2, <3>1, RunEffect
  <2>5. \A m \in Nodes, k \in Jobs : Works(m, k)' => Works(m, k)
    BY <2>1, <2>4, StageFacts DEF Works
  <2>6. \A m \in Nodes, k \in Jobs : InHands(m, k)' => InHands(m, k)
    BY <2>3, <2>5 DEF InHands, Given, Works
  <2>7. GivenIsFresh'
    BY <2>3, <2>5 DEF Inv, GivenIsFresh, Given
  <2>8. FreeRunsNothing'
    BY <1>1, <2>3, <2>5 DEF Inv, FreeRunsNothing, lifecycle
  <2>9. ToldRan'
    BY <1>1, <2>3, <2>5 DEF Inv, ToldRan, lifecycle, requests
  <2> QED BY <1>1, <1>2, <2>3, <2>4, <2>6, <2>7, <2>8, <2>9, NoNewReport, AgentStep
<1> QED BY <1>3, <1>4

\* The job that is started is the one the agent was given.
LEMMA StartJobInv ==
  ASSUME Inv, NEW n \in Nodes, StartJob(n)
  PROVE  Inv'
<1>0. TypeOK
  BY DEF Inv
<1> DEFINE j == tick[n].job
<1>1. /\ tick[n].at = "start" /\ TickAt(n, Waiting("idle")) /\ RunAt(n, j, "starting")
      /\ UNCHANGED <<lifecycle, requests, runningID>> /\ late' = late /\ faults' = faults
  BY DEF StartJob, faulty
<1>2. j \in Jobs /\ Given(n, j)
  BY <1>0, <1>1, TickFacts DEF TypeOK, Given
<1> HIDE DEF j
<1>3. /\ tick' \in [Nodes -> Ticks]
      /\ \A m \in Nodes : tick'[m] = IF m = n THEN Waiting("idle") ELSE tick[m]
      /\ Waiting("idle").at = "idle"
      /\ \A k \in Jobs :
           Waiting("idle") # Told("start", k) /\ Waiting("idle") # Told("decide", k)
  BY <1>0, <1>1, TickEffect, TickFacts
<1>4. /\ run' \in [Nodes -> [Jobs -> Stages]]
      /\ \A m \in Nodes, k \in Jobs :
           run'[m][k] = IF m = n /\ k = j THEN "starting" ELSE run[m][k]
  <2>1. "starting" \in Stages
    BY StageFacts
  <2> QED BY <1>0, <1>1, <1>2, <2>1, RunEffect
<1>5. \A m \in Nodes, k \in Jobs : Works(m, k)' => Works(m, k) \/ (m = n /\ k = j)
  BY <1>4 DEF Works
<1>6. \A m \in Nodes, k \in Jobs : InHands(m, k)' => InHands(m, k)
  BY <1>2, <1>3, <1>5 DEF InHands, Given, Works
<1>7. GivenIsFresh'
  BY <1>3, <1>5 DEF Inv, GivenIsFresh, Given
<1>8. FreeRunsNothing'
  BY <1>1, <1>3, <1>5 DEF Inv, FreeRunsNothing, lifecycle
<1>9. ToldRan'
  BY <1>1, <1>3, <1>5 DEF Inv, ToldRan, lifecycle, requests
<1>10. /\ late' \subseteq Requests /\ faults' \in Nat
       /\ runningID' \in [Nodes -> Jobs \cup {NULL}]
       /\ \A r \in late' : r \in late \/ r.kind # "complete"
  BY <1>0, <1>1 DEF TypeOK
<1> QED BY <1>1, <1>3, <1>4, <1>6, <1>7, <1>8, <1>9, <1>10, NoNewReport, AgentStep

\* An agent that starts again works on nothing; what it had sent may still arrive.
LEMMA RestartInv ==
  ASSUME Inv, NEW n \in Nodes, Restart(n)
  PROVE  Inv'
<1>0. TypeOK
  BY DEF Inv
<1>1. /\ TickAt(n, Waiting("idle")) /\ UNCHANGED <<lifecycle, requests>>
      /\ run' = [run EXCEPT ![n] = [j \in Jobs |-> "none"]]
      /\ runningID' = [runningID EXCEPT ![n] = NULL]
      /\ faults' = faults + 1
  BY DEF Restart, Faulty
<1>2. /\ tick' \in [Nodes -> Ticks]
      /\ \A m \in Nodes : tick'[m] = IF m = n THEN Waiting("idle") ELSE tick[m]
      /\ Waiting("idle").at = "idle"
      /\ \A k \in Jobs :
           Waiting("idle") # Told("start", k) /\ Waiting("idle") # Told("decide", k)
  BY <1>0, <1>1, TickEffect, TickFacts
<1>3. /\ run' \in [Nodes -> [Jobs -> Stages]]
      /\ \A m \in Nodes, j \in Jobs : run'[m][j] = IF m = n THEN "none" ELSE run[m][j]
      /\ runningID' \in [Nodes -> Jobs \cup {NULL}] /\ faults' \in Nat
  BY <1>0, <1>1, StageFacts DEF TypeOK
<1>4. \A m \in Nodes, j \in Jobs : Works(m, j)' => Works(m, j) /\ m # n
  BY <1>3, StageFacts DEF Works
<1>5. \A m \in Nodes, j \in Jobs : InHands(m, j)' => InHands(m, j) /\ m # n
  BY <1>2, <1>4 DEF InHands, Given, Works
<1>6. GivenIsFresh'
  BY <1>2, <1>4 DEF Inv, GivenIsFresh, Given
<1>7. FreeRunsNothing'
  BY <1>1, <1>2, <1>4 DEF Inv, FreeRunsNothing, lifecycle
<1>8. ToldRan'
  BY <1>1, <1>2, <1>4 DEF Inv, ToldRan, lifecycle, requests
<1>9. \A r \in late' :
        \/ r \in late
        \/ r \in Requests /\ r.kind = "claim"
        \/ \E j \in Jobs : r = ReportOf(n, j) /\ Works(n, j)
  <2>1. \A r \in late' :
          \/ r \in late
          \/ r = ClaimOf(n) /\ tick[n].at \in {"claim", "free"}
          \/ \E j \in Jobs : r = ReportOf(n, j) /\ Works(n, j)
    BY DEF Restart, Works
  <2> QED BY <1>0, <2>1, GivenUpFacts
<1>10. late' \subseteq Requests
  BY <1>0, <1>9, GivenUpFacts DEF TypeOK
<1>11. \A j \in Jobs : Works(n, j) =>
         /\ InHands(n, j) /\ ~InHands(n, j)'
         /\ \A r \in late : r.kind = "complete" => r.job # j
  BY <1>5 DEF InHands, Works, Inv, LateIsOver
<1>12. \A j \in Jobs : ReportOf(n, j).node = n /\ ReportOf(n, j).job = j
  BY <1>0, GivenUpFacts
<1>13. \A r \in late' : r.kind = "complete" => r \in late \/ r = ReportOf(n, r.job)
  BY <1>9, <1>12
<1>14. \A r \in late' : r.kind = "complete" =>
         \/ r \in late
         \/ r.node = n /\ r.job \in Jobs /\ Works(n, r.job)
  BY <1>9, <1>12
<1>15. OneReport'
  BY <1>11, <1>13, <1>14 DEF Inv, OneReport
<1>16. \A r \in late' : r.kind = "complete" =>
         \/ \E q \in late : q.kind = "complete" /\ q.job = r.job /\ q.node = r.node
         \/ InHands(r.node, r.job) /\ ~InHands(r.node, r.job)'
  BY <1>11, <1>14
<1> QED BY <1>1, <1>2, <1>3, <1>5, <1>6, <1>7, <1>8, <1>10, <1>15, <1>16, AgentStep

\* The control plane goes on with a request, or is done with it, and writes nothing.
LEMMA LateStep ==
  ASSUME Inv, UNCHANGED <<lifecycle, requests, agents, faults>>,
         NEW r \in late,
         \/ LateEnds(r)
         \/ r.kind = "claim" /\ r.at = "claim" /\ LateGoes(r, "free")
         \/ r.kind = "complete" /\ \E at \in TerminalStatuses : LateGoes(r, at)
  PROVE  Inv'
<1>0. TypeOK /\ r \in Requests
  BY DEF Inv, TypeOK
<1>1. UNCHANGED <<lifecycle, requests, tick, run, runningID, faults>>
  BY DEF agents
<1>2. /\ tick' \in [Nodes -> Ticks] /\ run' \in [Nodes -> [Jobs -> Stages]]
      /\ runningID' \in [Nodes -> Jobs \cup {NULL}] /\ faults' \in Nat
  BY <1>0, <1>1 DEF TypeOK
<1>3. \A n \in Nodes, j \in Jobs : InHands(n, j)' => InHands(n, j)
  BY <1>1 DEF InHands, Given
<1>4. GivenIsFresh' /\ FreeRunsNothing' /\ ToldRan'
  <2>1. GivenIsFresh'
    BY <1>1 DEF Inv, GivenIsFresh, Given, Works
  <2>2. FreeRunsNothing'
    BY <1>1 DEF Inv, FreeRunsNothing, Works, lifecycle
  <2>3. ToldRan'
    BY <1>1 DEF Inv, ToldRan, Works, lifecycle, requests
  <2> QED BY <2>1, <2>2, <2>3
<1>5. CASE LateEnds(r)
  <2>1. late' = late \ {r}
    BY <1>5 DEF LateEnds
  <2>2. late' \subseteq Requests /\ \A q \in late' : q \in late \/ q.kind # "complete"
    BY <1>0, <2>1 DEF TypeOK
  <2> QED BY <1>1, <1>2, <1>3, <1>4, <2>2, NoNewReport, AgentStep
<1>6. CASE r.kind = "claim" /\ r.at = "claim" /\ LateGoes(r, "free")
  <2> DEFINE q == [r EXCEPT !.at = "free"]
  <2>1. late' = (late \ {r}) \cup {q}
    BY <1>6 DEF LateGoes
  <2>2. q \in Requests /\ q.kind = "claim"
    BY <1>0, <1>6 DEF Requests
  <2> HIDE DEF q
  <2>3. late' \subseteq Requests /\ \A p \in late' : p \in late \/ p.kind # "complete"
    BY <1>0, <2>1, <2>2 DEF TypeOK
  <2> QED BY <1>1, <1>2, <1>3, <1>4, <2>3, NoNewReport, AgentStep
<1>7. CASE r.kind = "complete" /\ \E at \in TerminalStatuses : LateGoes(r, at)
  <2>1. PICK at \in TerminalStatuses : LateGoes(r, at)
    BY <1>7
  <2> DEFINE q == [r EXCEPT !.at = at]
  <2>2. late' = (late \ {r}) \cup {q}
    BY <2>1 DEF LateGoes
  <2>3. q \in Requests /\ q.kind = "complete" /\ q.node = r.node /\ q.job = r.job
    BY <1>0, <1>7, RequestFacts
  <2> HIDE DEF q
  <2>4. late' \subseteq Requests
    BY <1>0, <2>2, <2>3 DEF TypeOK
  <2>5. OneReport'
    BY <1>7, <2>2, <2>3 DEF Inv, OneReport
  <2>6. \A p \in late' : p.kind = "complete" =>
          \E o \in late : o.kind = "complete" /\ o.job = p.job /\ o.node = p.node
    BY <1>7, <2>2, <2>3
  <2> QED BY <1>1, <1>2, <1>3, <1>4, <2>4, <2>5, <2>6, AgentStep
<1> QED BY <1>5, <1>6, <1>7

-----------------------------------------------------------------------------
(* Steps that write a job *)

\* No agent is concerned by a job that starts to exist or is cancelled.
LEMMA SubmitInv ==
  ASSUME Inv, NEW j \in Jobs, Submit(j)
  PROVE  Inv'
<1>1. /\ status[j] = "absent" /\ status' = [status EXCEPT ![j] = QUEUED]
      /\ holder' = holder /\ charges' = charges
      /\ UNCHANGED <<cancel, seen, tick, run, runningID, late, faults>>
  BY DEF Submit, Submitted, requests, agents, faulty
<1>2. /\ status' \in [Jobs -> JobStatuses \cup {"absent"}]
      /\ \A k \in Jobs : status'[k] = IF k = j THEN QUEUED ELSE status[k]
  BY <1>1, StatusFacts DEF Inv, TypeOK
<1>3. \A n \in Nodes : ~InHands(n, j)
  BY <1>1, StatusFacts DEF Inv, RunsAreAssigned
<1>4. /\ \A n \in Nodes, k \in Jobs : InHands(n, k)' <=> InHands(n, k)
      /\ \A n \in Nodes, k \in Jobs : Works(n, k)' <=> Works(n, k)
      /\ \A n \in Nodes, k \in Jobs : Given(n, k)' <=> Given(n, k)
  BY <1>1 DEF InHands, Given, Works
<1>5. TypeOK'
  BY <1>1, <1>2 DEF Inv, TypeOK
<1>6. RunsAreAssigned'
  BY <1>1, <1>2, <1>3, <1>4 DEF Inv, RunsAreAssigned
<1>7. AgentRunsOneJob'
  BY <1>2, <1>4, StatusFacts DEF Inv, AgentRunsOneJob
<1>8. GivenIsFresh'
  BY <1>4 DEF Inv, GivenIsFresh
<1>9. FreeRunsNothing'
  BY <1>1, <1>2, <1>4, StatusFacts DEF Inv, FreeRunsNothing
<1>10. LateIsOver' /\ OneReport'
  <2>1. OneReport'
    BY <1>1 DEF Inv, OneReport
  <2>2. \A r \in late : r.kind = "complete" => r.job # j
    BY <1>1, StatusFacts DEF Inv, LateIsOver
  <2>3. \A r \in late : r.kind = "complete" => r.job \in Jobs
    BY RequestFacts DEF Inv, TypeOK
  <2>4. LateIsOver'
    BY <1>1, <1>2, <1>4, <2>2, <2>3 DEF Inv, LateIsOver
  <2> QED BY <2>1, <2>4
<1>11. ToldRan'
  <2>1. \A n \in Nodes : ~Works(n, j)
    BY <1>3 DEF InHands, Works
  <2> QED BY <1>1, <1>2, <1>4, <2>1 DEF Inv, ToldRan
<1>12. BilledOnce'
  BY <1>1, <1>2, StatusFacts DEF Inv, BilledOnce
<1> QED BY <1>5, <1>6, <1>7, <1>8, <1>9, <1>10, <1>11, <1>12 DEF Inv

\* The handler of a cancel only reads.
LEMMA CancelReadInv ==
  ASSUME Inv, NEW c \in Cancels, NEW j \in Jobs, CancelRead(c, j)
  PROVE  Inv'
<1>0. TypeOK
  BY DEF Inv
<1>1. /\ seen' = [seen EXCEPT ![c] = [job |-> j, status |-> status[j]]]
      /\ status[j] \in {QUEUED, RUNNING}
      /\ UNCHANGED <<status, holder, charges, cancel, tick, run, runningID, late, faults>>
  BY DEF CancelRead, lifecycle, agents, faulty
<1>2. seen' \in [Cancels -> Reads \cup {NULL}]
  BY <1>0, <1>1 DEF TypeOK, Reads
<1>3. TypeOK'
  BY <1>0, <1>1, <1>2 DEF TypeOK
<1>4. /\ \A n \in Nodes, k \in Jobs : InHands(n, k)' <=> InHands(n, k)
      /\ \A n \in Nodes, k \in Jobs : Works(n, k)' <=> Works(n, k)
      /\ \A n \in Nodes, k \in Jobs : Given(n, k)' <=> Given(n, k)
  BY <1>1 DEF InHands, Given, Works
<1>5. RunsAreAssigned' /\ AgentRunsOneJob' /\ GivenIsFresh' /\ FreeRunsNothing'
  BY <1>1, <1>4
     DEF Inv, RunsAreAssigned, AgentRunsOneJob, GivenIsFresh, FreeRunsNothing
<1>6. LateIsOver'
  BY <1>0, <1>1, <1>4, RequestFacts DEF Inv, LateIsOver, TypeOK
<1>7. OneReport' /\ BilledOnce'
  BY <1>1 DEF Inv, OneReport, BilledOnce
<1>8. ToldRan'
  BY <1>1, <1>4 DEF Inv, ToldRan
<1> QED BY <1>3, <1>5, <1>6, <1>7, <1>8 DEF Inv

\* A cancel ends the job it had read as queued, whatever it is by then, or marks it:
\* what an agent has in its hands remains its own.
LEMMA CancelCommitInv ==
  ASSUME Inv, NEW c \in Cancels, CancelCommit(c)
  PROVE  Inv'
<1>0. TypeOK
  BY DEF Inv
<1> DEFINE j == seen[c].job
<1>1. /\ seen' = [seen EXCEPT ![c] = NULL]
      /\ UNCHANGED <<holder, charges, tick, run, runningID, late, faults>>
      /\ \/ status' = [status EXCEPT ![j] = CANCELLED] /\ cancel' = cancel
         \/ status' = status /\ cancel' = [cancel EXCEPT ![j] = TRUE]
  BY DEF CancelCommit, agents, faulty
<1>2. j \in Jobs
  BY <1>0 DEF CancelCommit, TypeOK, Reads
<1> HIDE DEF j
<1>3. /\ status' \in [Jobs -> JobStatuses \cup {"absent"}]
      /\ cancel' \in [Jobs -> BOOLEAN]
      /\ \A k \in Jobs : status'[k] = status[k] \/ status'[k] = CANCELLED
      /\ \A k \in Jobs : cancel[k] => cancel'[k]
  BY <1>0, <1>1, <1>2, StatusFacts DEF TypeOK
<1>4. TypeOK'
  BY <1>0, <1>1, <1>3 DEF TypeOK
<1>5. /\ \A n \in Nodes, k \in Jobs : InHands(n, k)' <=> InHands(n, k)
      /\ \A n \in Nodes, k \in Jobs : Works(n, k)' <=> Works(n, k)
      /\ \A n \in Nodes, k \in Jobs : Given(n, k)' <=> Given(n, k)
  BY <1>1 DEF InHands, Given, Works
<1>6. RunsAreAssigned'
  BY <1>1, <1>3, <1>5 DEF Inv, RunsAreAssigned
<1>7. AgentRunsOneJob'
  BY <1>3, <1>5, StatusFacts DEF Inv, AgentRunsOneJob
<1>8. GivenIsFresh'
  BY <1>5 DEF Inv, GivenIsFresh
<1>9. FreeRunsNothing'
  BY <1>1, <1>3, <1>5, StatusFacts DEF Inv, FreeRunsNothing
<1>10. LateIsOver'
  BY <1>0, <1>1, <1>3, <1>5, RequestFacts DEF Inv, LateIsOver, TypeOK
<1>11. ToldRan'
  BY <1>1, <1>3, <1>5, StatusFacts DEF Inv, ToldRan
<1>12. BilledOnce' /\ OneReport'
  BY <1>1, <1>3, StatusFacts DEF Inv, BilledOnce, OneReport
<1> QED BY <1>4, <1>6, <1>7, <1>8, <1>9, <1>10, <1>11, <1>12 DEF Inv

\* A claim that assigns a job: its agent is given the job, or has given up.
LEMMA ClaimStep ==
  ASSUME Inv, NEW n \in Nodes, NEW j \in Jobs, ClaimNextForNode(n, j),
         UNCHANGED <<requests, run, runningID, faults>>,
         late' \subseteq late,
         \/ tick' = tick
         \/ tick[n].at = "free" /\ TickAt(n, Told("start", j))
  PROVE  Inv'
<1>0. TypeOK
  BY DEF Inv
<1>1. /\ status' \in [Jobs -> JobStatuses \cup {"absent"}]
      /\ holder' \in [Jobs -> Nodes \cup {NULL}]
      /\ charges' = charges
      /\ status[j] = QUEUED
      /\ \A k \in Jobs : status'[k] = IF k = j THEN RUNNING ELSE status[k]
      /\ \A k \in Jobs : holder'[k] = IF k = j THEN n ELSE holder[k]
      /\ \A m \in Nodes : ~InHands(m, j)
      /\ charges[j] = 0
      /\ \A r \in late : r.kind = "complete" => r.job # j
  BY ClaimEffect
<1>2. cancel' = cancel /\ seen' = seen
  BY DEF requests
<1>3. /\ tick' \in [Nodes -> Ticks]
      /\ \A m \in Nodes :
           tick'[m] = tick[m] \/ (m = n /\ tick[n].at = "free" /\ tick'[n] = Told("start", j))
  <2>1. Told("start", j) \in Ticks
    BY TickFacts
  <2> QED BY <1>0, <2>1, TickEffect DEF TypeOK
<1>4. /\ Told("start", j).at = "start"
      /\ \A k \in Jobs : Told("start", j) = Told("start", k) => k = j
      /\ \A k \in Jobs : Told("start", j) # Told("decide", k)
  <2>1. \A k \in Jobs : Told("start", k).job = k /\ Told("start", k).at = "start"
    BY TickFacts
  <2>2. \A k \in Jobs : Told("decide", k).at = "decide"
    BY TickFacts
  <2> QED BY <2>1, <2>2
<1>5. /\ \A m \in Nodes, k \in Jobs : Works(m, k)' <=> Works(m, k)
      /\ \A m \in Nodes, k \in Jobs :
           Given(m, k)' => Given(m, k) \/ (m = n /\ k = j)
  BY <1>3, <1>4 DEF Works, Given
<1>6. \A m \in Nodes, k \in Jobs :
        InHands(m, k)' => InHands(m, k) \/ (m = n /\ k = j)
  BY <1>5 DEF InHands, Works
<1>7. TypeOK'
  BY <1>0, <1>1, <1>2, <1>3 DEF TypeOK
<1>8. RunsAreAssigned'
  BY <1>1, <1>6 DEF Inv, RunsAreAssigned
<1>9. AgentRunsOneJob'
  <2> SUFFICES ASSUME NEW m \in Nodes, NEW k \in Jobs, NEW i \in Jobs,
                      InHands(m, k)', InHands(m, i)',
                      status'[k] = RUNNING, status'[i] = RUNNING, k # i
               PROVE  FALSE
    BY DEF AgentRunsOneJob
  <2>1. CASE k # j /\ i # j
    BY <1>1, <1>6, <2>1 DEF Inv, AgentRunsOneJob
  <2>2. ASSUME NEW h \in Jobs, h # j, InHands(m, h)', status'[h] = RUNNING,
               InHands(m, j)'
        PROVE  FALSE
    <3>1. m = n /\ Given(n, j)'
      BY <1>1, <1>5, <1>6, <2>2 DEF InHands, Works
    <3>2. tick'[n] = Told("start", j) /\ tick[n].at = "free"
      BY <1>1, <1>3, <3>1 DEF Given, InHands
    <3>3. Works(n, h)
      BY <1>4, <1>5, <2>2, <3>1, <3>2 DEF InHands, Given, Works
    <3> QED BY <1>1, <2>2, <3>2, <3>3 DEF Inv, FreeRunsNothing
  <2> QED BY <2>1, <2>2
<1>10. GivenIsFresh'
  BY <1>1, <1>5 DEF Inv, GivenIsFresh, InHands, Works
<1>11. FreeRunsNothing'
  BY <1>1, <1>3, <1>4, <1>5 DEF Inv, FreeRunsNothing, InHands, Works
<1>12. LateIsOver'
  BY <1>0, <1>1, <1>6, RequestFacts DEF Inv, LateIsOver, TypeOK
<1>13. OneReport'
  BY DEF Inv, OneReport
<1>14. ToldRan'
  <2> SUFFICES ASSUME NEW m \in Nodes, NEW k \in Jobs, tick'[m] = Told("decide", k)
               PROVE  /\ cancel[k] /\ holder'[k] = m /\ status'[k] \notin {"absent", QUEUED}
                      /\ Works(m, k) => \A i \in Jobs :
                           Works(m, i) => i = k \/ status'[i] = CANCELLED
    BY <1>2, <1>5 DEF ToldRan
  <2>1. tick[m] = Told("decide", k)
    BY <1>3, <1>4
  <2>2. k # j
    BY <1>1, <2>1 DEF Inv, ToldRan
  <2>3. \A i \in Jobs : Works(m, i) => i # j
    BY <1>1 DEF InHands, Works
  <2> QED BY <1>1, <2>1, <2>2, <2>3 DEF Inv, ToldRan
<1>15. BilledOnce'
  BY <1>1, StatusFacts DEF Inv, BilledOnce
<1> QED BY <1>7, <1>8, <1>9, <1>10, <1>11, <1>12, <1>13, <1>14, <1>15 DEF Inv

\* A report that is committed: nobody has the job in hand any more, and no other
\* report of it is left.
LEMMA EndStep ==
  ASSUME Inv, NEW n \in Nodes, NEW j \in Jobs, NEW outcome \in TerminalStatuses,
         Completes(j, outcome), holder[j] = n, charges[j] = 0,
         UNCHANGED <<requests, tick, runningID, faults>>,
         run' \in [Nodes -> [Jobs -> Stages]],
         \A m \in Nodes, k \in Jobs : Works(m, k)' => Works(m, k),
         \A m \in Nodes : ~InHands(m, j)',
         late' \subseteq late,
         \A r \in late' : r.kind = "complete" => r.job # j
  PROVE  Inv'
<1>0. TypeOK
  BY DEF Inv
<1>1. /\ status' \in [Jobs -> JobStatuses \cup {"absent"}]
      /\ charges' \in [Jobs -> Nat]
      /\ holder' = holder
      /\ \A k \in Jobs : status'[k] = IF k = j THEN outcome ELSE status[k]
      /\ \A k \in Jobs : charges'[k] = IF k = j THEN charges[k] + 1 ELSE charges[k]
  BY <1>0, CompletesEffect
<1>2. cancel' = cancel /\ seen' = seen
  BY DEF requests
<1>3. /\ \A m \in Nodes, k \in Jobs : Given(m, k)' <=> Given(m, k)
      /\ \A m \in Nodes, k \in Jobs : InHands(m, k)' => InHands(m, k) /\ k # j
  BY DEF InHands, Given, Works
<1>4. outcome \notin {RUNNING, QUEUED, "absent"}
  BY StatusFacts
<1>5. TypeOK'
  BY <1>0, <1>1, <1>2 DEF TypeOK
<1>6. RunsAreAssigned'
  BY <1>1, <1>3 DEF Inv, RunsAreAssigned
<1>7. AgentRunsOneJob'
  BY <1>1, <1>3 DEF Inv, AgentRunsOneJob
<1>8. GivenIsFresh'
  BY <1>3 DEF Inv, GivenIsFresh
<1>9. FreeRunsNothing'
  BY <1>1, <1>4 DEF Inv, FreeRunsNothing
<1>10. LateIsOver'
  BY <1>0, <1>1, <1>3, RequestFacts DEF Inv, LateIsOver, TypeOK
<1>11. OneReport'
  BY DEF Inv, OneReport
<1>12. ToldRan'
  <2>1. \A m \in Nodes, k \in Jobs : Works(m, k)' => k # j
    BY <1>3 DEF InHands, Works
  <2> QED BY <1>1, <1>2, <1>4, <2>1 DEF Inv, ToldRan
<1>13. BilledOnce'
  BY <1>1 DEF Inv, BilledOnce
<1> QED BY <1>5, <1>6, <1>7, <1>8, <1>9, <1>10, <1>11, <1>12, <1>13 DEF Inv

-----------------------------------------------------------------------------
(* Every step preserves the invariant *)

\* The claim an agent waits for assigns the oldest queued job, or none.
LEMMA ClaimAnsweredInv ==
  ASSUME Inv, NEW n \in Nodes, ClaimAnswered(n)
  PROVE  Inv'
<1>0. TypeOK
  BY DEF Inv
<1>1. /\ tick[n].at = "free" /\ UNCHANGED <<requests, run, runningID>>
      /\ late' = late /\ faults' = faults
  BY DEF ClaimAnswered, faulty
<1>2. CASE UNCHANGED lifecycle /\ TickAt(n, Waiting("idle"))
  <2>1. late' \subseteq Requests /\ faults' \in Nat
        /\ \A r \in late' : r \in late \/ r.kind # "complete"
    BY <1>0, <1>1 DEF TypeOK
  <2> QED BY <1>1, <1>2, <2>1, TickStep
<1>3. CASE \E j \in Jobs : ClaimNextForNode(n, j) /\ TickAt(n, Told("start", j))
  <2>1. PICK j \in Jobs : ClaimNextForNode(n, j) /\ TickAt(n, Told("start", j))
    BY <1>3
  <2> QED BY <1>1, <2>1, ClaimStep
<1> QED BY <1>2, <1>3 DEF ClaimAnswered, NoneQueued

\* A claim nobody waits for is refused, goes on or assigns a job nobody starts.
LEMMA LateClaimInv ==
  ASSUME Inv, NEW r \in late, LateClaim(r)
  PROVE  Inv'
<1>0. r.kind = "claim" /\ UNCHANGED <<requests, agents, faults>>
  BY DEF LateClaim
<1>1. CASE UNCHANGED lifecycle /\ (LateEnds(r) \/ (r.at = "claim" /\ LateGoes(r, "free")))
  BY <1>0, <1>1, LateStep
<1>2. CASE LateEnds(r) /\ \E j \in Jobs : ClaimNextForNode(r.node, j)
  <2>1. PICK j \in Jobs : ClaimNextForNode(r.node, j)
    BY <1>2
  <2>2. r.node \in Nodes
    BY <1>0 DEF Inv, TypeOK, Requests
  <2>3. late' \subseteq late
    BY <1>2 DEF LateEnds
  <2>4. /\ UNCHANGED <<requests, run, runningID, faults>>
        /\ \/ tick' = tick
           \/ tick[r.node].at = "free" /\ TickAt(r.node, Told("start", j))
    BY <1>0 DEF agents
  <2> QED BY <2>1, <2>2, <2>3, <2>4, ClaimStep
<1> QED BY <1>1, <1>2 DEF LateClaim, NoneQueued

\* The agent's own report ends its job, and it lets go of it.
LEMMA CompleteCommitInv ==
  ASSUME Inv, NEW n \in Nodes, NEW j \in Jobs, CompleteCommit(n, j)
  PROVE  Inv'
<1>0. TypeOK
  BY DEF Inv
<1>1. /\ run[n][j] \in TerminalStatuses /\ Completes(j, run[n][j])
      /\ RunAt(n, j, "returning")
      /\ UNCHANGED <<requests, tick, runningID, faults>> /\ late' = late
  BY DEF CompleteCommit, faulty
<1>2. Works(n, j) /\ InHands(n, j) /\ "returning" \in Stages \ Working
  BY <1>1, StageFacts DEF Works, InHands
<1>3. /\ run' \in [Nodes -> [Jobs -> Stages]]
      /\ \A m \in Nodes, k \in Jobs :
           run'[m][k] = IF m = n /\ k = j THEN "returning" ELSE run[m][k]
  BY <1>0, <1>1, <1>2, RunEffect
<1>4. /\ holder[j] = n /\ charges[j] = 0
      /\ \A m \in Nodes : InHands(m, j) => m = n
  BY <1>2 DEF Inv, RunsAreAssigned
<1>5. \A m \in Nodes, k \in Jobs : Works(m, k)' => Works(m, k)
  BY <1>2, <1>3 DEF Works
<1>6. \A m \in Nodes : ~InHands(m, j)'
  <2>1. ~Works(n, j)' /\ ~Given(n, j)'
    BY <1>1, <1>2, <1>3 DEF Works, Given, Inv, GivenIsFresh
  <2> QED BY <1>1, <1>4, <1>5, <2>1 DEF InHands, Given, Works
<1>7. \A r \in late' : r.kind = "complete" => r.job # j
  BY <1>1, <1>2 DEF Inv, LateIsOver
<1> QED BY <1>1, <1>3, <1>4, <1>5, <1>6, <1>7, EndStep

\* A late report ends a job that nobody has in hand.
LEMMA LateReportInv ==
  ASSUME Inv, NEW r \in late, LateReport(r)
  PROVE  Inv'
<1>0. TypeOK /\ r \in Requests
  BY DEF Inv, TypeOK
<1>1. r.kind = "complete" /\ UNCHANGED <<requests, agents, faults>>
  BY DEF LateReport
<1>2. r.node \in Nodes /\ r.job \in Jobs
  BY <1>0, <1>1, RequestFacts
<1>3. CASE UNCHANGED lifecycle /\ (LateEnds(r) \/ \E at \in TerminalStatuses : LateGoes(r, at))
  BY <1>1, <1>3, LateStep
<1>4. CASE r.at \in TerminalStatuses /\ Completes(r.job, r.at) /\ LateEnds(r)
  <2>1. /\ holder[r.job] = r.node /\ charges[r.job] = 0
        /\ \A n \in Nodes : ~InHands(n, r.job)
    BY <1>1, <1>2 DEF Inv, LateIsOver
  <2>2. UNCHANGED <<requests, tick, run, runningID, faults>>
    BY <1>1 DEF agents
  <2>3. /\ run' \in [Nodes -> [Jobs -> Stages]]
        /\ \A m \in Nodes, k \in Jobs : Works(m, k)' => Works(m, k)
        /\ \A m \in Nodes : ~InHands(m, r.job)'
    BY <1>0, <1>2, <2>1, <2>2 DEF TypeOK, Works, InHands, Given
  <2>4. /\ late' \subseteq late
        /\ \A q \in late' : q.kind = "complete" => q.job # r.job
    BY <1>1, <1>4 DEF LateEnds, Inv, OneReport
  <2> QED BY <1>2, <1>4, <2>1, <2>2, <2>3, <2>4, EndStep
<1>5. \/ UNCHANGED lifecycle /\ (LateEnds(r) \/ \E at \in TerminalStatuses : LateGoes(r, at))
      \/ r.at \in TerminalStatuses /\ Completes(r.job, r.at) /\ LateEnds(r)
  BY <1>0, <1>2, OutcomesFacts DEF LateReport
<1> QED BY <1>3, <1>4, <1>5

\* At first nothing is submitted and nobody works.
LEMMA InitInv == Init => Inv
<1> SUFFICES ASSUME Init PROVE Inv
  OBVIOUS
<1>1. /\ \A at \in {"idle"} : Waiting(at).at = at /\ Waiting(at) \in Ticks
      /\ \A j \in Jobs : Waiting("idle") # Told("start", j)
                         /\ Waiting("idle") # Told("decide", j)
  BY TickFacts
<1>2. \A n \in Nodes : tick[n] = Waiting("idle")
  BY DEF Init
<1>3. \A n \in Nodes, j \in Jobs : ~InHands(n, j) /\ ~Works(n, j) /\ ~Given(n, j)
  BY <1>1, <1>2, StageFacts DEF Init, InHands, Works, Given
<1>4. TypeOK
  BY <1>1, StatusFacts, StageFacts DEF Init, LifecycleInit, TypeOK
<1>5. RunsAreAssigned /\ AgentRunsOneJob /\ GivenIsFresh /\ FreeRunsNothing
  BY <1>3 DEF RunsAreAssigned, AgentRunsOneJob, GivenIsFresh, FreeRunsNothing
<1>6. LateIsOver /\ OneReport
  BY DEF Init, LateIsOver, OneReport
<1>7. ToldRan
  BY <1>1, <1>2 DEF ToldRan
<1>8. BilledOnce
  BY DEF Init, LifecycleInit, BilledOnce
<1> QED BY <1>4, <1>5, <1>6, <1>7, <1>8 DEF Inv

\* A ticker, or a fault of an agent.
LEMMA AgentInv ==
  ASSUME Inv, NEW n \in Nodes, Ticker(n) \/ Fault(n)
  PROVE  Inv'
<1>1. CASE Ticker(n)
  BY <1>1, WaitingSteps, HeartbeatAnsweredInv, DecideInv, ClaimCheckInv,
     ClaimAnsweredInv, StartJobInv DEF Ticker
<1>2. CASE Fault(n)
  BY <1>2, WaitingSteps, RestartInv, JobSteps DEF Fault
<1> QED BY <1>1, <1>2

\* Every step of the specification.
LEMMA NextInv == Inv /\ [Next]_vars => Inv'
<1> SUFFICES ASSUME Inv, [Next]_vars PROVE Inv'
  OBVIOUS
<1>1. CASE User
  BY <1>1, SubmitInv, CancelReadInv, CancelCommitInv DEF User
<1>2. CASE \E n \in Nodes : Ticker(n) \/ Fault(n)
  BY <1>2, AgentInv
<1>3. CASE \E n \in Nodes, j \in Jobs : Job(n, j)
  BY <1>3, JobSteps, CompleteCommitInv DEF Job
<1>4. CASE \E r \in late : LateClaim(r) \/ LateReport(r)
  BY <1>4, LateClaimInv, LateReportInv
<1>5. CASE UNCHANGED vars
  <2>1. UNCHANGED <<status, holder, charges, cancel, seen, tick, run, runningID,
                    late, faults>>
    BY <1>5 DEF vars, lifecycle, requests, agents, faulty
  <2>2. /\ \A n \in Nodes, j \in Jobs : InHands(n, j)' <=> InHands(n, j)
        /\ \A n \in Nodes, j \in Jobs : Works(n, j)' <=> Works(n, j)
        /\ \A n \in Nodes, j \in Jobs : Given(n, j)' <=> Given(n, j)
    BY <2>1 DEF InHands, Works, Given
  <2>3. TypeOK'
    BY <2>1 DEF Inv, TypeOK
  <2>4. RunsAreAssigned' /\ AgentRunsOneJob' /\ GivenIsFresh' /\ FreeRunsNothing'
    BY <2>1, <2>2
       DEF Inv, RunsAreAssigned, AgentRunsOneJob, GivenIsFresh, FreeRunsNothing
  <2>5. LateIsOver' /\ OneReport' /\ ToldRan' /\ BilledOnce'
    BY <2>1 DEF Inv, LateIsOver, OneReport, ToldRan, BilledOnce, InHands, Works, Given
  <2> QED BY <2>3, <2>4, <2>5 DEF Inv
<1>6. User \/ (\E n \in Nodes : Ticker(n) \/ Fault(n)) \/ (\E n \in Nodes, j \in Jobs : Job(n, j))
      \/ (\E r \in late : LateClaim(r) \/ LateReport(r)) \/ UNCHANGED vars
  BY DEF Next
<1> QED BY <1>1, <1>2, <1>3, <1>4, <1>5, <1>6

\* The invariant holds of every state the fleet can reach.
LEMMA Invariance == Spec => []Inv
BY InitInv, NextInv, PTL DEF Spec

-----------------------------------------------------------------------------
(* What it means for the fleet *)

\* Every variable the control plane and the agents keep stays in its type.
THEOREM TypeCorrect == Spec => []TypeOK
<1>1. Inv => TypeOK
  BY DEF Inv
<1> QED BY <1>1, Invariance, PTL

\* RunsAreAssigned: no agent starts, runs or reports a job that the control plane has
\* not assigned to it, has assigned to another since, or has let somebody report.
THEOREM WorkIsAssigned == Spec => []RunsAreAssigned
<1>1. Inv => RunsAreAssigned
  BY DEF Inv
<1> QED BY <1>1, Invariance, PTL

\* AgentRunsOneJob: the check of claim_for_node keeps an agent from a second job that
\* runs in the tables, however its claims overlap with its job's start, with cancels
\* that overtake them, and with claims it has given up.
THEOREM OneJobAtATime == Spec => []AgentRunsOneJob
<1>1. Inv => AgentRunsOneJob
  BY DEF Inv
<1> QED BY <1>1, Invariance, PTL

\* BilledOnce: complete_job bills no job twice, although its commit does not look at
\* the row again and reports arrive late, from agents that have been restarted, and
\* after cancels that have ended the job.
THEOREM OneBillPerJob == Spec => []BilledOnce
<1>1. Inv => BilledOnce
  BY DEF Inv
<1> QED BY <1>1, Invariance, PTL

-----------------------------------------------------------------------------
(* What a step may do to a job an agent has in its hands *)

\* What is not a commit leaves every status as it is.
LEMMA WritersOfStatus ==
  ASSUME Inv, [Next]_vars, status' # status
  PROVE  \/ \E j \in Jobs : Submit(j)
         \/ \E c \in Cancels : CancelCommit(c)
         \/ \E n \in Nodes, j \in Jobs :
              /\ ClaimNextForNode(n, j)
              /\ TickAt(n, Told("start", j)) \/ \E r \in late : LateClaim(r)
         \/ \E n \in Nodes, j \in Jobs : CompleteCommit(n, j)
         \/ \E r \in late : /\ r.kind = "complete" /\ r.job \in Jobs
                             /\ r.at \in TerminalStatuses /\ Completes(r.job, r.at)
<1>1. ~UNCHANGED lifecycle /\ ~UNCHANGED vars
  BY DEF lifecycle, vars
<1>2. CASE User
  BY <1>1, <1>2 DEF User, CancelRead
<1>3. ASSUME NEW n \in Nodes, Ticker(n)
      PROVE  ClaimAnswered(n)
  BY <1>1, <1>3 DEF Ticker, Heartbeat, HeartbeatAnswered, Decide, ClaimCheck, StartJob
<1>4. ASSUME NEW n \in Nodes
      PROVE  ~Fault(n)
  BY <1>1 DEF Fault, HeartbeatLost, ClaimLost, Restart, CompleteLost
<1>5. ASSUME NEW n \in Nodes, NEW j \in Jobs, Job(n, j)
      PROVE  CompleteCommit(n, j)
  BY <1>1, <1>5 DEF Job, JobStarted, ContainerEnded, CompleteRead, JobReturned
<1>6. ASSUME NEW n \in Nodes, ClaimAnswered(n)
      PROVE  \E j \in Jobs : ClaimNextForNode(n, j) /\ TickAt(n, Told("start", j))
  BY <1>1, <1>6 DEF ClaimAnswered, NoneQueued
<1>7. ASSUME NEW r \in late, LateClaim(r)
      PROVE  \E n \in Nodes, j \in Jobs : ClaimNextForNode(n, j)
  <2>1. r.node \in Nodes
    BY <1>7 DEF LateClaim, Inv, TypeOK, Requests
  <2> QED BY <1>1, <1>7, <2>1 DEF LateClaim, NoneQueued
<1>8. ASSUME NEW r \in late, LateReport(r)
      PROVE  /\ r.kind = "complete" /\ r.job \in Jobs
             /\ r.at \in TerminalStatuses /\ Completes(r.job, r.at)
  <2>1. r.kind = "complete" /\ r.job \in Jobs
    BY <1>8, RequestFacts DEF LateReport, Inv, TypeOK
  <2> QED BY <1>1, <1>8, <2>1 DEF LateReport
<1>9. \/ User
      \/ \E n \in Nodes : Ticker(n) \/ Fault(n)
      \/ \E n \in Nodes, j \in Jobs : Job(n, j)
      \/ \E r \in late : LateClaim(r) \/ LateReport(r)
  BY <1>1 DEF Next
<1> QED BY <1>2, <1>3, <1>4, <1>5, <1>6, <1>7, <1>8, <1>9

\* RunsEndByReport, of one step.
LEMMA EndStepIsReport ==
  ASSUME Inv, [Next]_vars, NEW n \in Nodes, NEW j \in Jobs,
         InHands(n, j), status'[j] # status[j]
  PROVE  \/ /\ status'[j] = CANCELLED
            /\ \E c \in Cancels : seen[c] = [job |-> j, status |-> QUEUED]
         \/ run[n][j] \in TerminalStatuses /\ status'[j] = run[n][j]
<1>0. TypeOK
  BY DEF Inv
<1>1. /\ holder[j] = n /\ status[j] \in {RUNNING, CANCELLED}
      /\ \A m \in Nodes : InHands(m, j) => m = n
  BY DEF Inv, RunsAreAssigned
<1>2. ASSUME NEW k \in Jobs, Submit(k)
      PROVE  FALSE
  BY <1>0, <1>1, <1>2, StatusFacts DEF Submit, Submitted, TypeOK
<1>3. ASSUME NEW m \in Nodes, NEW k \in Jobs, ClaimNextForNode(m, k)
      PROVE  FALSE
  BY <1>0, <1>1, <1>3, StatusFacts DEF ClaimNextForNode, TypeOK
<1>4. ASSUME NEW c \in Cancels, CancelCommit(c)
      PROVE  /\ status'[j] = CANCELLED
             /\ seen[c] = [job |-> j, status |-> QUEUED]
  <2>1. /\ seen[c] # NULL /\ seen[c].status = QUEUED
        /\ status' = [status EXCEPT ![seen[c].job] = CANCELLED]
    BY <1>4 DEF CancelCommit
  <2>2. seen[c] \in Reads
    BY <1>0, <2>1 DEF TypeOK
  <2>3. seen[c].job = j
    BY <1>0, <2>1, <2>2 DEF TypeOK, Reads
  <2>4. seen[c] = [job |-> j, status |-> QUEUED]
    BY <2>1, <2>2, <2>3 DEF Reads
  <2> QED BY <1>0, <2>1, <2>3, <2>4 DEF TypeOK
<1>5. ASSUME NEW m \in Nodes, NEW k \in Jobs, CompleteCommit(m, k)
      PROVE  run[n][j] \in TerminalStatuses /\ status'[j] = run[n][j]
  <2>1. run[m][k] \in TerminalStatuses /\ Completes(k, run[m][k])
    BY <1>5 DEF CompleteCommit
  <2>2. k = j /\ status'[j] = run[m][k]
    BY <1>0, <2>1 DEF Completes, TypeOK
  <2>3. m = n
    BY <1>1, <2>1, <2>2, StageFacts DEF InHands
  <2> QED BY <2>1, <2>2, <2>3
<1>6. ASSUME NEW r \in late, r.kind = "complete", r.job \in Jobs, Completes(r.job, r.at)
      PROVE  FALSE
  <2>1. r.job = j
    BY <1>0, <1>6 DEF Completes, TypeOK
  <2> QED BY <1>6, <2>1 DEF Inv, LateIsOver
<1> QED BY <1>2, <1>3, <1>4, <1>5, <1>6, WritersOfStatus

\* RunsEndByReport: no late report, other agent or cancel of the running job ends a
\* job under its container; a cancel that had read it as queued may.
THEOREM RunsEndAsReported == Spec => RunsEndByReport
<1>1. Inv /\ [Next]_vars =>
        [\A n \in Nodes, j \in Jobs :
           InHands(n, j) /\ status'[j] # status[j] =>
             \/ /\ status'[j] = CANCELLED
                /\ \E c \in Cancels : seen[c] = [job |-> j, status |-> QUEUED]
             \/ run[n][j] \in TerminalStatuses /\ status'[j] = run[n][j]]_vars
  BY EndStepIsReport
<1> QED BY <1>1, Invariance, PTL DEF Spec, RunsEndByReport

\* Only the ticker's decision kills, after a heartbeat named a job to cancel.
LEMMA KillStep ==
  ASSUME Inv, [Next]_vars, NEW n \in Nodes, NEW j \in Jobs,
         run[n][j] # "killed", run'[n][j] = "killed"
  PROVE  /\ tick[n].at = "decide" /\ tick[n].job # NULL
         /\ run[n][j] = "running"
<1>0. TypeOK /\ run \in [Nodes -> [Jobs -> Stages]]
  BY DEF Inv, TypeOK
<1>1. run' # run
  OBVIOUS
<1>2. ASSUME NEW m \in Nodes, NEW k \in Jobs, NEW stage \in Stages \ {"killed"},
             RunAt(m, k, stage)
      PROVE  FALSE
  BY <1>0, <1>2, RunEffect
<1>3. {"starting", "running", "reporting", "returning", "none"} \cup TerminalStatuses
        \subseteq Stages \ {"killed"}
  BY StageFacts
<1>4. ~User
  BY <1>1 DEF User, Submit, CancelRead, CancelCommit, agents
<1>5. ASSUME NEW m \in Nodes, StartJob(m)
      PROVE  FALSE
  <2>1. tick[m].job \in Jobs
    BY <1>0, <1>5, TickFacts DEF StartJob, TypeOK
  <2> QED BY <1>2, <1>3, <1>5, <2>1 DEF StartJob
<1>6. ASSUME NEW m \in Nodes, NEW k \in Jobs, Job(m, k)
      PROVE  FALSE
  <2>1. \E stage \in Stages \ {"killed"} : RunAt(m, k, stage)
    <3>1. JobStarted(m, k) => RunAt(m, k, "running")
      BY DEF JobStarted
    <3>2. ContainerEnded(m, k) => RunAt(m, k, "reporting")
      BY DEF ContainerEnded
    <3>3. CompleteRead(m, k) =>
            \E stage \in {"returning"} \cup TerminalStatuses : RunAt(m, k, stage)
      BY <1>0, OutcomesFacts DEF CompleteRead
    <3>4. CompleteCommit(m, k) => RunAt(m, k, "returning")
      BY DEF CompleteCommit
    <3>5. JobReturned(m, k) => RunAt(m, k, "none")
      BY DEF JobReturned
    <3> QED BY <1>3, <1>6, <3>1, <3>2, <3>3, <3>4, <3>5 DEF Job
  <2> QED BY <1>2, <2>1
<1>7. ASSUME NEW m \in Nodes, Fault(m)
      PROVE  FALSE
  <2>1. ~HeartbeatLost(m) /\ ~ClaimLost(m)
    BY <1>1 DEF HeartbeatLost, ClaimLost
  <2>2. ASSUME NEW k \in Jobs, CompleteLost(m, k)
        PROVE  FALSE
    BY <1>2, <1>3, <2>2 DEF CompleteLost
  <2>3. ~Restart(m)
    BY <1>0 DEF Restart
  <2> QED BY <1>7, <2>1, <2>2, <2>3 DEF Fault
<1>8. ASSUME NEW r \in late, LateClaim(r) \/ LateReport(r)
      PROVE  FALSE
  BY <1>1, <1>8 DEF LateClaim, LateReport, agents
<1>9. ASSUME NEW m \in Nodes, Ticker(m)
      PROVE  Decide(m)
  BY <1>1, <1>5, <1>9 DEF Ticker, Heartbeat, HeartbeatAnswered, ClaimCheck, ClaimAnswered
<1>10. PICK m \in Nodes : Decide(m)
  <2>1. \/ User
        \/ \E m \in Nodes : Ticker(m) \/ Fault(m)
        \/ \E m \in Nodes, k \in Jobs : Job(m, k)
        \/ \E r \in late : LateClaim(r) \/ LateReport(r)
    BY <1>1 DEF Next, vars, agents
  <2> QED BY <1>4, <1>6, <1>7, <1>8, <1>9, <2>1
<1>11. /\ tick[m].at = "decide" /\ tick[m].job # NULL /\ runningID[m] # NULL
       /\ run[m][runningID[m]] = "running"
       /\ RunAt(m, runningID[m], "killed")
  BY <1>1, <1>10 DEF Decide
<1>12. runningID[m] \in Jobs /\ "killed" \in Stages
  BY <1>0, <1>11, StageFacts DEF TypeOK
<1>13. m = n /\ runningID[m] = j
  BY <1>0, <1>11, <1>12, RunEffect
<1> QED BY <1>11, <1>13

\* KillsWithCause: what the ticker kills is what it was told of, or is cancelled, or the
\* order was for a job its agent never got to know of.
THEOREM KillsHaveCause == Spec => KillsWithCause
<1>1. ASSUME Inv, [Next]_vars, NEW n \in Nodes, NEW j \in Jobs,
             run[n][j] # "killed", run'[n][j] = "killed"
      PROVE  LET told == tick[n].job IN
               /\ cancel[told] /\ holder[told] = n
               /\ told = j \/ status[j] = CANCELLED \/ run[n][told] \notin Working
  <2> DEFINE told == tick[n].job
  <2>1. tick[n].at = "decide" /\ told # NULL /\ run[n][j] = "running"
    BY <1>1, KillStep
  <2>2. told \in Jobs /\ tick[n] = Told("decide", told)
    BY <1>1, <2>1, TickFacts DEF Inv, TypeOK
  <2>3. Works(n, j)
    BY <2>1, StageFacts DEF Works
  <2> QED BY <1>1, <2>2, <2>3 DEF Inv, ToldRan, Works
<1>2. Inv /\ [Next]_vars =>
        [\A n \in Nodes, j \in Jobs :
           run[n][j] # "killed" /\ run'[n][j] = "killed" =>
             LET told == tick[n].job IN
               /\ cancel[told] /\ holder[told] = n
               /\ told = j \/ status[j] = CANCELLED \/ run[n][told] \notin Working]_vars
  BY <1>1
<1> QED BY <1>2, Invariance, PTL DEF Spec, KillsWithCause

\* An agent lets go of a job when it, or the claim that gave it, is given up, when it
\* starts again, or when its report was answered.
LEMMA HandsLetGo ==
  ASSUME Inv, [Next]_vars, NEW n \in Nodes, NEW j \in Jobs,
         InHands(n, j), ~InHands(n, j)'
  PROVE  \/ ClaimLost(n) \/ CompleteLost(n, j) \/ Restart(n) \/ CompleteCommit(n, j)
         \/ CompleteRead(n, j) /\ Outcomes(n, j) = {}
<1>0. TypeOK
  BY DEF Inv
<1>1. ~UNCHANGED agents /\ ~UNCHANGED vars
  BY DEF agents, vars, InHands, Given
<1>2. ASSUME NEW m \in Nodes, NEW at \in Ticks, tick[m].at # "start", TickAt(m, at),
             \A k \in Jobs : Works(m, k) => Works(m, k)',
             \A o \in Nodes, k \in Jobs : o # m => run'[o][k] = run[o][k]
      PROVE  FALSE
  <2>1. \A o \in Nodes : o # m => tick'[o] = tick[o]
    BY <1>0, <1>2, TickEffect
  <2>2. ~Given(m, j)
    BY <1>2, TickFacts DEF Given
  <2>3. Works(n, j)' \/ Given(n, j)'
    BY <1>2, <2>1, <2>2 DEF InHands, Given, Works
  <2> QED BY <2>3 DEF InHands, Works
<1>3. ASSUME NEW m \in Nodes, NEW k \in Jobs, NEW stage \in Stages,
             RunAt(m, k, stage), tick' = tick,
             Works(m, k) => stage \in Working
      PROVE  FALSE
  BY <1>0, <1>3, RunEffect DEF InHands, Given, Works
<1>4. ~User
  BY <1>1 DEF User, Submit, CancelRead, CancelCommit
<1>5. ASSUME NEW r \in late
      PROVE  ~LateClaim(r) /\ ~LateReport(r)
  BY <1>1 DEF LateClaim, LateReport
<1>6. ASSUME NEW m \in Nodes, run' = run, NEW at \in {"idle", "heartbeat", "claim", "free"},
             tick[m].at # "start", TickAt(m, Waiting(at))
      PROVE  FALSE
  BY <1>2, <1>6, TickFacts DEF Works
<1>7. ASSUME NEW m \in Nodes, Ticker(m)
      PROVE  FALSE
  <2>1. ~Heartbeat(m)
    BY <1>6 DEF Heartbeat
  <2>2. ~HeartbeatAnswered(m)
    <3> SUFFICES ASSUME HeartbeatAnswered(m) PROVE FALSE
      OBVIOUS
    <3>1. PICK told \in Jobs \cup {NULL} : TickAt(m, Told("decide", told))
      BY DEF HeartbeatAnswered, GetRunningForNode
    <3>2. Told("decide", told) \in Ticks
      BY TickFacts
    <3> QED BY <1>2, <3>1, <3>2 DEF HeartbeatAnswered, Works
  <2>3. ~Decide(m)
    <3> SUFFICES ASSUME Decide(m) PROVE FALSE
      OBVIOUS
    <3>1. CASE run' = run
      <4>1. \E at \in {"idle", "claim"} : TickAt(m, Waiting(at))
        BY DEF Decide
      <4> QED BY <1>6, <3>1, <4>1 DEF Decide
    <3>2. CASE run' # run
      <4>1. /\ runningID[m] # NULL /\ RunAt(m, runningID[m], "killed")
            /\ tick[m].at = "decide" /\ TickAt(m, Waiting("idle"))
        BY <3>2 DEF Decide
      <4>2. runningID[m] \in Jobs /\ "killed" \in Stages /\ "killed" \in Working
        BY <1>0, <4>1, StageFacts DEF TypeOK
      <4>3. \A o \in Nodes, k \in Jobs :
              run'[o][k] = IF o = m /\ k = runningID[m] THEN "killed" ELSE run[o][k]
        BY <1>0, <4>1, <4>2, RunEffect
      <4>4. Waiting("idle") \in Ticks
        BY TickFacts
      <4> QED BY <1>2, <4>1, <4>2, <4>3, <4>4 DEF Works
    <3> QED BY <3>1, <3>2
  <2>4. ~ClaimCheck(m)
    BY <1>6 DEF ClaimCheck
  <2>5. ~ClaimAnswered(m)
    <3> SUFFICES ASSUME ClaimAnswered(m) PROVE FALSE
      OBVIOUS
    <3>1. PICK at \in Ticks : TickAt(m, at)
      BY TickFacts DEF ClaimAnswered
    <3> QED BY <1>2, <3>1 DEF ClaimAnswered, Works
  <2>6. ~StartJob(m)
    <3> SUFFICES ASSUME StartJob(m) PROVE FALSE
      OBVIOUS
    <3> DEFINE k == tick[m].job
    <3>1. k \in Jobs /\ tick[m] = Told("start", k) /\ RunAt(m, k, "starting")
          /\ TickAt(m, Waiting("idle"))
      BY <1>0, TickFacts DEF StartJob, TypeOK
    <3> HIDE DEF k
    <3>2. "starting" \in Stages /\ "starting" \in Working /\ Waiting("idle") \in Ticks
      BY StageFacts, TickFacts
    <3>3. \A o \in Nodes, i \in Jobs :
            run'[o][i] = IF o = m /\ i = k THEN "starting" ELSE run[o][i]
      BY <1>0, <3>1, <3>2, RunEffect
    <3>4. \A o \in Nodes : o # m => tick'[o] = tick[o]
      BY <1>0, <3>1, <3>2, TickEffect
    <3>5. Given(m, j) => j = k
      BY <3>1, TickFacts DEF Given
    <3>6. Works(n, j)' \/ Given(n, j)'
      BY <3>2, <3>3, <3>4, <3>5 DEF InHands, Given, Works
    <3> QED BY <3>6 DEF InHands, Works
  <2> QED BY <1>7, <2>1, <2>2, <2>3, <2>4, <2>5, <2>6 DEF Ticker
<1>8. ASSUME NEW m \in Nodes, Fault(m)
      PROVE  ClaimLost(n) \/ CompleteLost(n, j) \/ Restart(n)
  <2>1. ~HeartbeatLost(m)
    BY <1>6 DEF HeartbeatLost
  <2>2. ASSUME m # n
        PROVE  ~ClaimLost(m) /\ ~Restart(m)
    <3>1. ASSUME TickAt(m, Waiting("idle")), \A k \in Jobs : run'[n][k] = run[n][k]
          PROVE  FALSE
      <4>1. Waiting("idle") \in Ticks
        BY TickFacts
      <4>2. tick'[n] = tick[n]
        BY <1>0, <2>2, <3>1, <4>1, TickEffect
      <4> QED BY <3>1, <4>2 DEF InHands, Given
    <3>2. ~ClaimLost(m)
      BY <3>1 DEF ClaimLost
    <3>3. ~Restart(m)
      BY <1>0, <2>2, <3>1 DEF Restart, TypeOK
    <3> QED BY <3>2, <3>3
  <2>3. ASSUME NEW k \in Jobs, CompleteLost(m, k), <<m, k>> # <<n, j>>
        PROVE  FALSE
    <3>1. RunAt(m, k, "returning") /\ tick' = tick /\ "returning" \in Stages
      BY <2>3, StageFacts DEF CompleteLost
    <3>2. run'[n][j] = run[n][j]
      BY <1>0, <2>3, <3>1, RunEffect
    <3> QED BY <3>1, <3>2 DEF InHands, Given
  <2> QED BY <1>8, <2>1, <2>2, <2>3 DEF Fault
<1>9. ASSUME NEW m \in Nodes, NEW k \in Jobs, Job(m, k)
      PROVE  CompleteCommit(n, j) \/ (CompleteRead(n, j) /\ Outcomes(n, j) = {})
  <2>1. ~JobStarted(m, k)
    BY <1>3, StageFacts DEF JobStarted
  <2>2. ~ContainerEnded(m, k)
    BY <1>3, StageFacts DEF ContainerEnded
  <2>3. ~JobReturned(m, k)
    <3>1. JobReturned(m, k) => ~Works(m, k) /\ "none" \in Stages
      BY StageFacts DEF JobReturned, Works
    <3> QED BY <1>3, <3>1 DEF JobReturned
  <2>4. ASSUME CompleteCommit(m, k) \/ CompleteRead(m, k)
        PROVE  m = n /\ k = j
    <3>1. PICK stage \in Stages : RunAt(m, k, stage)
      BY <1>0, <2>4, OutcomesFacts, StageFacts DEF CompleteCommit, CompleteRead
    <3>2. tick' = tick
      BY <2>4 DEF CompleteCommit, CompleteRead
    <3> QED BY <1>0, <3>1, <3>2, RunEffect DEF InHands, Given
  <2>5. ASSUME CompleteRead(n, j), Outcomes(n, j) # {}
        PROVE  FALSE
    <3>1. PICK outcome \in Outcomes(n, j) : RunAt(n, j, outcome)
      BY <2>5 DEF CompleteRead
    <3>2. outcome \in Stages /\ outcome \in Working
      BY <1>0, OutcomesFacts, StageFacts
    <3> QED BY <1>3, <2>5, <3>1, <3>2 DEF CompleteRead
  <2> QED BY <1>9, <2>1, <2>2, <2>3, <2>4, <2>5 DEF Job
<1>10. \/ User
       \/ \E m \in Nodes : Ticker(m) \/ Fault(m)
       \/ \E m \in Nodes, k \in Jobs : Job(m, k)
       \/ \E r \in late : LateClaim(r) \/ LateReport(r)
  BY <1>1 DEF Next
<1> QED BY <1>4, <1>5, <1>7, <1>8, <1>9, <1>10

\* OnlyFaultsStrand, of one step.
LEMMA StrandStep ==
  ASSUME Inv, [Next]_vars, NEW j \in Jobs, Stranded(j)', ~Stranded(j)
  PROVE  \/ \E n \in Nodes : ClaimLost(n) \/ CompleteLost(n, j) \/ Restart(n)
         \/ \E r \in late : LateClaim(r)
<1>0. TypeOK
  BY DEF Inv
<1>1. status'[j] = RUNNING /\ \A n \in Nodes : ~InHands(n, j)'
  BY DEF Stranded
<1>2. CASE status[j] # RUNNING
  <2>1. status' # status
    BY <1>1, <1>2
  <2>2. ASSUME NEW k \in Jobs, Submit(k)
        PROVE  FALSE
    BY <1>0, <1>1, <1>2, <2>2, StatusFacts DEF Submit, Submitted, TypeOK
  <2>3. ASSUME NEW c \in Cancels, CancelCommit(c)
        PROVE  FALSE
    BY <1>0, <1>1, <1>2, <2>3, StatusFacts DEF CancelCommit, TypeOK
  <2>4. ASSUME NEW n \in Nodes, NEW k \in Jobs, ClaimNextForNode(n, k),
               TickAt(n, Told("start", k))
        PROVE  FALSE
    <3>1. k = j
      BY <1>0, <1>1, <1>2, <2>4 DEF ClaimNextForNode, TypeOK
    <3>2. Told("start", j) \in Ticks
      BY TickFacts
    <3>3. Given(n, j)'
      BY <1>0, <2>4, <3>1, <3>2, TickEffect DEF Given
    <3> QED BY <1>1, <3>3 DEF InHands
  <2>5. ASSUME NEW k \in Jobs, NEW outcome \in TerminalStatuses, Completes(k, outcome)
        PROVE  FALSE
    BY <1>0, <1>1, <1>2, <2>5, CompletesEffect, StatusFacts
  <2>6. ASSUME NEW n \in Nodes, NEW k \in Jobs, CompleteCommit(n, k)
        PROVE  FALSE
    BY <2>5, <2>6 DEF CompleteCommit
  <2> QED BY <2>1, <2>2, <2>3, <2>4, <2>5, <2>6, WritersOfStatus
<1>3. CASE status[j] = RUNNING
  <2>1. PICK n \in Nodes : InHands(n, j)
    BY <1>3 DEF Stranded
  <2>2. ~CompleteCommit(n, j)
    <3>1. CompleteCommit(n, j) =>
            run[n][j] \in TerminalStatuses /\ Completes(j, run[n][j])
      BY DEF CompleteCommit
    <3> QED BY <1>0, <1>1, <3>1, CompletesEffect, StatusFacts
  <2>3. Outcomes(n, j) # {}
    BY <1>0, <1>3, <2>1, OutcomesFacts DEF Inv, RunsAreAssigned
  <2> QED BY <1>1, <2>1, <2>2, <2>3, HandsLetGo
<1> QED BY <1>2, <1>3

\* OnlyFaultsStrand: a running job is left to nobody by a fault, and by nothing else.
THEOREM OnlyFaultsStrandJobs == Spec => OnlyFaultsStrand
<1>1. Inv /\ [Next]_vars =>
        [\A j \in Jobs :
           Stranded(j)' =>
             \/ Stranded(j)
             \/ \E n \in Nodes : ClaimLost(n) \/ CompleteLost(n, j) \/ Restart(n)
             \/ \E r \in late : LateClaim(r)]_vars
  BY StrandStep
<1> QED BY <1>1, Invariance, PTL DEF Spec, OnlyFaultsStrand
=============================================================================
