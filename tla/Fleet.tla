-------------------------------- MODULE Fleet --------------------------------
(***************************************************************************)
(* The agents and the control plane over a network that loses requests and  *)
(* answers.  Each agent (daemon.go) has a ticker goroutine, which heartbeats *)
(* and claims, and one goroutine per job it was given, which runs the        *)
(* container and reports its end, once, whether or not the report arrives.   *)
(*                                                                         *)
(* A cancel, a claim and a completion read the tables in one step and write   *)
(* them in a later one, as their handlers do: other requests commit in        *)
(* between, those the agent has given up included.                          *)
(***************************************************************************)
EXTENDS JobLifecycle, FiniteSets

CONSTANTS
  Cancels,    \* requests to cancel a job that can be in flight at the same time
  MaxFaults   \* bound: how many messages are lost and agents restarted

\* What the handler of a cancel has read: a job, and the status it had.
Reads == [job : Jobs, status : {QUEUED, RUNNING}]

ASSUME FleetAssumption ==
  /\ Jobs \subseteq Nat
  /\ NULL \notin Jobs \cup Nodes \cup Reads
  /\ MaxFaults \in Nat

VARIABLES
  cancel,     \* jobs.cancel_requested_at is set
  seen,       \* what each cancel in flight has read, NULL when there is none
  tick,       \* where tickOnce is: what it waits for, or what it was answered
  run,        \* where the goroutine of a job is, on each node
  runningID,  \* Daemon.runningID, with the cancelRun that goes with it
  late,       \* requests given up by their agent and not yet handled to the end
  faults      \* messages lost and restarts so far

requests == <<cancel, seen>>
agents == <<tick, run, runningID>>
faulty == <<late, faults>>
vars == <<lifecycle, requests, agents, faulty>>

\* tickOnce: "idle" between two ticks, then it waits for the heartbeat, decides
\* with the cancel_job_id it was told, waits for the claim ("free" once the control
\* plane has found no running job), starts a job.
Ticks == [at : {"idle", "heartbeat", "claim", "free"}]
           \cup [at : {"decide"}, job : Jobs \cup {NULL}]
           \cup [at : {"start"}, job : Jobs]

\* runJob: before it has set runningID, while the container runs, when its
\* context is cancelled, while it reports, when complete_job is about to write the
\* status it has chosen, and when it only has to return.
Working == {"starting", "running", "killed", "reporting"} \cup TerminalStatuses
Stages == Working \cup {"none", "returning"}

\* A request that was given up is where it was then; id tells apart two of them.
Requests ==
  [kind : {"claim"}, id : Nat, node : Nodes, at : {"claim", "free"}]
    \cup [kind : {"complete"}, id : Nat, node : Nodes, job : Jobs,
          at : {"reporting"} \cup TerminalStatuses]

ClaimOf(n) ==
  [kind |-> "claim", id |-> faults, node |-> n, at |-> tick[n].at]
ReportOf(n, j) ==
  [kind |-> "complete", id |-> faults, node |-> n, job |-> j,
   at |-> IF run[n][j] \in TerminalStatuses THEN run[n][j] ELSE "reporting"]

TickAt(n, at) == tick' = [tick EXCEPT ![n] = at]
Waiting(at) == [at |-> at]
Told(at, j) == [at |-> at, job |-> j]

RunAt(n, j, stage) == run' = [run EXCEPT ![n][j] = stage]

\* An agent has a job in its hands: it was given it, or works on it.
Given(n, j) == tick[n] = Told("start", j)
InHands(n, j) == Given(n, j) \/ run[n][j] \in Working

-----------------------------------------------------------------------------
(* The control plane's side *)

\* Fault: a job that has ended counts as well.
GetAnyForNode(n) == {j \in Jobs : holder[j] = n}

\* get_running_for_node, without its LIMIT 1.
GetRunningForNode(n) == {j \in Jobs : status[j] = RUNNING /\ holder[j] = n}

\* Fault: the SELECT does not ask for queued jobs.
ClaimNextOfAny(n, j) ==
  /\ status[j] # "absent"
  /\ \A k \in Jobs : k < j => status[k] = "absent"
  /\ status' = [status EXCEPT ![j] = RUNNING]
  /\ holder' = [holder EXCEPT ![j] = n]
  /\ UNCHANGED charges

\* claim_next_for_node and the commit: the oldest queued job, whose row is locked
\* from the SELECT to the commit.
ClaimNextForNode(n, j) ==
  /\ status[j] = QUEUED
  /\ \A k \in Jobs : k < j => status[k] # QUEUED
  /\ status' = [status EXCEPT ![j] = RUNNING]
  /\ holder' = [holder EXCEPT ![j] = n]
  /\ UNCHANGED charges

\* Nothing is queued: the claim is rolled back.
NoneQueued == (\A j \in Jobs : status[j] # QUEUED) /\ UNCHANGED lifecycle

\* Fault: a job to be cancelled cannot be completed.
OutcomesUncancelled(n, j) ==
  IF j \in GetRunningForNode(n) /\ ~cancel[j] THEN {COMPLETED, FAILED} ELSE {}

\* What complete_job may choose to write, from the row it reads: nothing unless
\* the job runs on this node, cancelled if that was requested.
Outcomes(n, j) ==
  CASE j \notin GetRunningForNode(n) -> {}
    [] j \in GetRunningForNode(n) /\ cancel[j] -> {CANCELLED}
    [] j \in GetRunningForNode(n) /\ ~cancel[j] -> {COMPLETED, FAILED}

\* mark_terminal and the bill, whatever the row has become.
Completes(j, outcome) ==
  /\ status' = [status EXCEPT ![j] = outcome]
  /\ charges' = [charges EXCEPT ![j] = @ + 1]
  /\ UNCHANGED holder

\* A user submits the next job.
Submit(j) ==
  /\ \A k \in Jobs : k < j => status[k] # "absent"
  /\ Submitted(j)
  /\ UNCHANGED <<requests, agents, faulty>>

\* A user, or an admin, cancels it: the handler reads its status.  A job whose
\* cancellation is requested already is left as it is.
CancelRead(c, j) ==
  /\ seen[c] = NULL
  /\ status[j] = QUEUED \/ (status[j] = RUNNING /\ ~cancel[j])
  /\ seen' = [seen EXCEPT ![c] = [job |-> j, status |-> status[j]]]
  /\ UNCHANGED <<lifecycle, cancel, agents, faulty>>

\* Fault: a running job is marked cancelled at once.
CancelCommitAtOnce(c) ==
  /\ seen[c] # NULL
  /\ status' = [status EXCEPT ![seen[c].job] = CANCELLED]
  /\ seen' = [seen EXCEPT ![c] = NULL]
  /\ UNCHANGED <<holder, charges, cancel, agents, faulty>>

\* It writes what follows from the status it read, whatever the row has become.
CancelCommit(c) ==
  /\ seen[c] # NULL
  /\ \/ /\ seen[c].status = QUEUED
        /\ status' = [status EXCEPT ![seen[c].job] = CANCELLED]
        /\ UNCHANGED cancel
     \/ /\ seen[c].status = RUNNING
        /\ cancel' = [cancel EXCEPT ![seen[c].job] = TRUE]
        /\ UNCHANGED status
  /\ seen' = [seen EXCEPT ![c] = NULL]
  /\ UNCHANGED <<holder, charges, agents, faulty>>

-----------------------------------------------------------------------------
(* The ticker goroutine *)

Heartbeat(n) ==
  /\ tick[n].at = "idle"
  /\ TickAt(n, Waiting("heartbeat"))
  /\ UNCHANGED <<lifecycle, requests, run, runningID, faulty>>

\* The heartbeat handler answers with a job the node runs (LIMIT 1), when its
\* cancellation was requested.
HeartbeatAnswered(n) ==
  /\ tick[n].at = "heartbeat"
  /\ \/ GetRunningForNode(n) = {} /\ TickAt(n, Told("decide", NULL))
     \/ \E j \in GetRunningForNode(n) :
          TickAt(n, Told("decide", IF cancel[j] THEN j ELSE NULL))
  /\ UNCHANGED <<lifecycle, requests, run, runningID, faulty>>

\* A busy agent calls cancelRun when it was told of a cancellation, of whichever
\* job; an idle one claims, whatever it was told.
Decide(n) ==
  /\ tick[n].at = "decide"
  /\ IF runningID[n] # NULL
       THEN /\ TickAt(n, Waiting("idle"))
            /\ IF tick[n].job # NULL /\ run[n][runningID[n]] = "running"
                 THEN RunAt(n, runningID[n], "killed")
                 ELSE UNCHANGED run
       ELSE TickAt(n, Waiting("claim")) /\ UNCHANGED run
  /\ UNCHANGED <<lifecycle, requests, runningID, faulty>>

\* Fault: a node that runs a job may be given another.
ClaimUnchecked(n) ==
  /\ tick[n].at = "claim"
  /\ TickAt(n, Waiting("free"))
  /\ UNCHANGED <<lifecycle, requests, run, runningID, faulty>>

\* claim_for_node asks for a running job, which it does not lock; 204 if there is
\* one.
ClaimCheck(n) ==
  /\ tick[n].at = "claim"
  /\ TickAt(n, Waiting(IF GetRunningForNode(n) = {} THEN "free" ELSE "idle"))
  /\ UNCHANGED <<lifecycle, requests, run, runningID, faulty>>

\* It assigns a job, or answers 204.
ClaimAnswered(n) ==
  /\ tick[n].at = "free"
  /\ \/ NoneQueued /\ TickAt(n, Waiting("idle"))
     \/ \E j \in Jobs : ClaimNextForNode(n, j) /\ TickAt(n, Told("start", j))
  /\ UNCHANGED <<requests, run, runningID, faulty>>

\* go d.runJob(ctx, job)
StartJob(n) ==
  /\ tick[n].at = "start"
  /\ TickAt(n, Waiting("idle"))
  /\ RunAt(n, tick[n].job, "starting")
  /\ UNCHANGED <<lifecycle, requests, runningID, faulty>>

-----------------------------------------------------------------------------
(* The goroutine of a job *)

JobStarted(n, j) ==
  /\ run[n][j] = "starting"
  /\ RunAt(n, j, "running")
  /\ runningID' = [runningID EXCEPT ![n] = j]
  /\ UNCHANGED <<lifecycle, requests, tick, faulty>>

\* The container exits, is killed, or reaches max_duration_seconds.
ContainerEnded(n, j) ==
  /\ run[n][j] \in {"running", "killed"}
  /\ RunAt(n, j, "reporting")
  /\ UNCHANGED <<lifecycle, requests, tick, runningID, faulty>>

\* complete: the handler reads the job, refuses the report or chooses a status.
CompleteRead(n, j) ==
  /\ run[n][j] = "reporting"
  /\ \/ Outcomes(n, j) = {} /\ RunAt(n, j, "returning")
     \/ \E outcome \in Outcomes(n, j) : RunAt(n, j, outcome)
  /\ UNCHANGED <<lifecycle, requests, tick, runningID, faulty>>

\* The handler commits and answers.
CompleteCommit(n, j) ==
  /\ run[n][j] \in TerminalStatuses
  /\ Completes(j, run[n][j])
  /\ RunAt(n, j, "returning")
  /\ UNCHANGED <<requests, tick, runningID, faulty>>

\* The deferred reset, of whichever job runningID names.
JobReturned(n, j) ==
  /\ run[n][j] = "returning"
  /\ RunAt(n, j, "none")
  /\ runningID' = [runningID EXCEPT ![n] = NULL]
  /\ UNCHANGED <<lifecycle, requests, tick, faulty>>

-----------------------------------------------------------------------------
(* Faults *)

Faulty == faults < MaxFaults /\ faults' = faults + 1

\* A heartbeat fails: the tick is over.
HeartbeatLost(n) ==
  /\ tick[n].at = "heartbeat"
  /\ TickAt(n, Waiting("idle"))
  /\ Faulty
  /\ UNCHANGED <<lifecycle, requests, run, runningID, late>>

\* A claim fails: it was never received, or is handled after the client's
\* timeout, or its answer is lost.
ClaimLost(n) ==
  /\ \/ tick[n].at \in {"claim", "free"} /\ late' \in {late, late \cup {ClaimOf(n)}}
     \/ tick[n].at = "start" /\ UNCHANGED late
  /\ TickAt(n, Waiting("idle"))
  /\ Faulty
  /\ UNCHANGED <<lifecycle, requests, run, runningID>>

\* A completion fails; runJob logs the error and returns.
CompleteLost(n, j) ==
  /\ run[n][j] \in {"reporting"} \cup TerminalStatuses
  /\ late' \in {late, late \cup {ReportOf(n, j)}}
  /\ RunAt(n, j, "returning")
  /\ Faulty
  /\ UNCHANGED <<lifecycle, requests, tick, runningID>>

\* The agent is stopped or dies, and is started again: it remembers nothing.
\* What it was waiting for may still be handled; on SIGTERM its runs are
\* cancelled, and may report before the process ends.
Restart(n) ==
  /\ LET claims == IF tick[n].at \in {"claim", "free"} THEN {ClaimOf(n)} ELSE {}
         reports == {ReportOf(n, j) : j \in {k \in Jobs : run[n][k] \in Working}}
     IN  \E sent \in SUBSET (claims \cup reports) : late' = late \cup sent
  /\ TickAt(n, Waiting("idle"))
  /\ run' = [run EXCEPT ![n] = [j \in Jobs |-> "none"]]
  /\ runningID' = [runningID EXCEPT ![n] = NULL]
  /\ Faulty
  /\ UNCHANGED <<lifecycle, requests>>

\* The control plane goes on with a request nobody waits for any more.
LateGoes(r, at) == late' = (late \ {r}) \cup {[r EXCEPT !.at = at]}
LateEnds(r) == late' = late \ {r}

LateClaim(r) ==
  /\ r.kind = "claim"
  /\ \/ /\ r.at = "claim"
        /\ IF GetRunningForNode(r.node) = {} THEN LateGoes(r, "free") ELSE LateEnds(r)
        /\ UNCHANGED lifecycle
     \/ /\ r.at = "free"
        /\ NoneQueued \/ \E j \in Jobs : ClaimNextForNode(r.node, j)
        /\ LateEnds(r)
  /\ UNCHANGED <<requests, agents, faults>>

LateReport(r) ==
  /\ r.kind = "complete"
  /\ \/ /\ r.at = "reporting"
        /\ \/ Outcomes(r.node, r.job) = {} /\ LateEnds(r)
           \/ \E outcome \in Outcomes(r.node, r.job) : LateGoes(r, outcome)
        /\ UNCHANGED lifecycle
     \/ /\ r.at \in TerminalStatuses
        /\ Completes(r.job, r.at)
        /\ LateEnds(r)
  /\ UNCHANGED <<requests, agents, faults>>

-----------------------------------------------------------------------------
Init ==
  /\ LifecycleInit
  /\ cancel = [j \in Jobs |-> FALSE]
  /\ seen = [c \in Cancels |-> NULL]
  /\ tick = [n \in Nodes |-> Waiting("idle")]
  /\ run = [n \in Nodes |-> [j \in Jobs |-> "none"]]
  /\ runningID = [n \in Nodes |-> NULL]
  /\ late = {}
  /\ faults = 0

User ==
  \/ \E j \in Jobs : Submit(j)
  \/ \E c \in Cancels : CancelCommit(c) \/ \E j \in Jobs : CancelRead(c, j)

Ticker(n) ==
  \/ Heartbeat(n) \/ HeartbeatAnswered(n) \/ Decide(n)
  \/ ClaimCheck(n) \/ ClaimAnswered(n) \/ StartJob(n)

Job(n, j) ==
  \/ JobStarted(n, j) \/ ContainerEnded(n, j)
  \/ CompleteRead(n, j) \/ CompleteCommit(n, j) \/ JobReturned(n, j)

Fault(n) ==
  \/ HeartbeatLost(n) \/ ClaimLost(n) \/ Restart(n)
  \/ \E j \in Jobs : CompleteLost(n, j)

Next ==
  \/ User
  \/ \E n \in Nodes : Ticker(n) \/ Fault(n)
  \/ \E n \in Nodes, j \in Jobs : Job(n, j)
  \/ \E r \in late : LateClaim(r) \/ LateReport(r)

Spec == Init /\ [][Next]_vars

\* The ticker fires every 10 s for ever, requests return or time out after 30 s,
\* a container is given max_duration_seconds, and goroutines are scheduled.
FairSpec ==
  /\ Spec
  /\ \A n \in Nodes : WF_vars(Ticker(n))
  /\ \A n \in Nodes, j \in Jobs : WF_vars(Job(n, j))
-----------------------------------------------------------------------------
(* Properties *)

\* An agent never has two jobs in its hands that both run: it is idle in its own
\* eyes until the goroutine has set runningID, and claims of it overlap, but the
\* claim it waits for was checked after its last job was assigned (claim_for_node).
\* A second job comes only with a cancel that overtook the first's assignment.
AgentRunsOneJob ==
  \A n \in Nodes : \A j, k \in Jobs :
    InHands(n, j) /\ InHands(n, k) /\ status[j] = RUNNING /\ status[k] = RUNNING
      => j = k

\* What an agent has in its hands was assigned to it, to no other, and has not been
\* reported: the job runs in the tables, or a cancel has ended it.
RunsAreAssigned ==
  \A n \in Nodes, j \in Jobs :
    InHands(n, j) =>
      holder[j] = n /\ charges[j] = 0 /\ status[j] \in {RUNNING, CANCELLED}

\* No job ends under its container by anything but a cancel that had read it as
\* queued, or the container's own report with the status complete_job chose for it:
\* no late report, other agent or cancel of the running job does it.
RunsEndByReport ==
  [][\A n \in Nodes, j \in Jobs :
       InHands(n, j) /\ status'[j] # status[j] =>
         \/ /\ status'[j] = CANCELLED
            /\ \E c \in Cancels : seen[c] = [job |-> j, status |-> QUEUED]
         \/ run[n][j] \in TerminalStatuses /\ status'[j] = run[n][j]]_vars

\* tickOnce calls cancelRun without comparing cancel_job_id with runningID.  The
\* container it kills is the one it was told of, or one that is cancelled in the
\* tables, unless the job it was told of is one it never got to know of.
KillsWithCause ==
  [][\A n \in Nodes, j \in Jobs :
       run[n][j] # "killed" /\ run'[n][j] = "killed" =>
         LET told == tick[n].job IN
           /\ cancel[told] /\ holder[told] = n
           /\ told = j \/ status[j] = CANCELLED \/ run[n][told] \notin Working]_vars

\* A job runs in the tables and no agent will report its end.
Stranded(j) == status[j] = RUNNING /\ \A n \in Nodes : ~InHands(n, j)

\* Only a lost claim or completion, the end of an agent, or a claim that is handled
\* when its agent has given it up leaves a running job to nobody; a lost heartbeat, a
\* refused report, an overtaken cancel or a second job do not.
OnlyFaultsStrand ==
  [][\A j \in Jobs :
       Stranded(j)' =>
         \/ Stranded(j)
         \/ \E n \in Nodes : ClaimLost(n) \/ CompleteLost(n, j) \/ Restart(n)
         \/ \E r \in late : LateClaim(r)]_vars

\* In the end every job that was submitted is over, or has no agent to end it, or
\* every agent is kept from claiming by a job of that sort.
JobsEnd ==
  <>[](\A j \in Jobs :
         \/ status[j] \in TerminalStatuses \cup {"absent"}
         \/ Stranded(j)
         \/ status[j] = QUEUED /\ \A n \in Nodes :
              \E k \in GetRunningForNode(n) : Stranded(k))

\* "Respect cancel_job_id from heartbeat response - kill the container and POST
\* /complete": a running job whose cancellation was requested ends at last.
CancelIsHonoured ==
  \A j \in Jobs : cancel[j] ~> status[j] \in TerminalStatuses
=============================================================================
