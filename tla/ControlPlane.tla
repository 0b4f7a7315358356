---------------------------- MODULE ControlPlane ----------------------------
(***************************************************************************)
(* The job, node and user handlers of the control plane over PostgreSQL.    *)
(*                                                                         *)
(* Every request runs in a database session of its own (READ COMMITTED) and *)
(* its handler awaits each statement, so requests interleave at the awaits. *)
(* The variables job, node and user are the COMMITTED rows: all another      *)
(* session ever sees.  What a session has read, and what it will write when  *)
(* it commits, is in session[s]; pc names the await the handler is at.       *)
(* An UPDATE takes the row's lock until the commit and writes the columns    *)
(* that differ from what the session read, with no version check.           *)
(* An answer with an error status leaves no trace, and neither do requests   *)
(* that are refused on their first read; those have no action.              *)
(***************************************************************************)
EXTENDS Integers, FiniteSets, JobStatus

CONSTANTS
  MaxJobs,    \* bound: how many jobs are ever created
  Nodes,      \* registered nodes
  Users,      \* users who submit jobs
  Sessions,   \* requests that can be in flight at the same time
  NULL,       \* SQL NULL
  Capacity,   \* Capacity[n] is nodes.gpu_count
  GpuCounts,  \* gpu_count of a submission
  Durations,  \* max_duration_seconds of a submission
  RunTimes,   \* seconds from started_at to completed_at
  Grants      \* credits_gpu_hours an admin grants

\* Job ids are numbered in the order of created_at.
Jobs == 1..MaxJobs

ASSUME ConstantsAssumption ==
  /\ MaxJobs \in Nat
  /\ NULL \notin Nodes \cup Users
  /\ Capacity \in [Nodes -> Nat]
  /\ GpuCounts \subseteq Nat
  /\ Durations \subseteq Nat
  /\ RunTimes \subseteq Nat
  /\ Grants \subseteq Nat

VARIABLES
  job,     \* table jobs
  node,    \* nodes.status, "deleted" when the row is gone
  user,    \* table users: status and credits_gpu_hours
  audit,   \* what audit_log says of a job: how often assigned, ended, billed
  ledger,  \* what audit_log says of a user: last grant, hours billed since
  session  \* the request each database session is serving

vars == <<job, node, user, audit, ledger, session>>
records == <<job, node, user, audit, ledger>>

-----------------------------------------------------------------------------
(* Rows *)

AbsentJob == [status |-> "absent", user |-> NULL, gpus |-> 0,
              preferred |-> NULL, assigned |-> NULL, cancel |-> FALSE]

JobRow == [status : JobStatuses, user : Users, gpus : Nat,
           preferred : Nodes \cup {NULL}, assigned : Nodes \cup {NULL},
           cancel : BOOLEAN]

NodeStatuses == {"online", "draining", "deleted"}

UserRow == [status : {"pending", "active", "suspended"}, credits : Nat]

Exists(n) == node[n] # "deleted"

\* get_running_for_node finds a row
HasRunningJob(n) ==
  \E j \in Jobs : job[j].assigned = n /\ job[j].status = RUNNING

\* Fault: the balance is not floored.
DeductUnfloored(a, b) == a - b

\* a - b, never below zero
Deduct(a, b) == IF a < b THEN 0 ELSE a - b

\* _bill_gpu_hours
BillGpuHours(seconds, gpus) ==
  LET hours == (seconds * gpus + 3599) \div 3600
  IN  IF hours < 1 THEN 1 ELSE hours

-----------------------------------------------------------------------------
(* Sessions, and the row locks they hold *)

Idle == [pc |-> "idle"]

\* A request in flight: where its handler awaits, and what it has read so far.
Requests ==
  [pc : {"submit"}, job : Jobs, row : JobRow]
    \cup [pc : {"claim", "free", "drain", "undrain", "delete", "unused", "deleting"},
          node : Nodes]
    \cup [pc : {"locked", "claimed"}, node : Nodes, job : Jobs]
    \cup [pc : {"cancel", "cancelling"}, job : Jobs, seen : {QUEUED, RUNNING}]
    \cup [pc : {"complete"}, job : Jobs, user : Users,
          target : TerminalStatuses, billed : Nat]
    \cup [pc : {"billing", "completing"}, job : Jobs, user : Users,
          target : TerminalStatuses, billed : Nat, credits : Nat]
    \cup [pc : {"suspend"}, user : Users, seen : UserRow]
    \cup [pc : {"approve"}, user : Users, seen : UserRow, credits : Nat]

Become(s, request) == session' = [session EXCEPT ![s] = request]

\* The same request at its next await.
Advance(s, pc) == session' = [session EXCEPT ![s].pc = pc]

\* The handler returns or raises: its session is closed.
Finish(s) == Become(s, Idle)

\* s has locked the row of job j: FOR UPDATE, or an UPDATE it has flushed.
HoldsJob(s, j) ==
  /\ session[s].pc \in {"locked", "claimed", "cancelling", "completing"}
  /\ session[s].job = j

JobIsFree(j) == \A s \in Sessions : ~HoldsJob(s, j)

\* s has flushed an UPDATE of users.credits_gpu_hours.
HoldsUser(s, u) ==
  /\ session[s].pc = "completing"
  /\ session[s].user = u
  /\ Deduct(session[s].credits, session[s].billed) # session[s].credits

UserIsFree(u) == \A s \in Sessions : ~HoldsUser(s, u)

\* s has flushed a reference to node n (FOR KEY SHARE on its row) ...
RefersToNode(s, n) == session[s].pc = "claimed" /\ session[s].node = n

\* ... or the DELETE of that row.
Deletes(s, n) == session[s].pc = "deleting" /\ session[s].node = n

NodeIsFree(n) == \A s \in Sessions : ~Deletes(s, n)

\* The rows ON DELETE SET NULL has to update.
References(j, n) == n \in {job[j].assigned, job[j].preferred}

-----------------------------------------------------------------------------
(* POST /api/jobs *)

\* No job, and no submission under way, has this id or a later one.
NextId(j) ==
  LET taken(k) == \/ job[k].status # "absent"
                  \/ \E s \in Sessions : session[s].pc = "submit" /\ session[s].job = k
  IN  /\ \A k \in j..MaxJobs : ~taken(k)
      /\ j > 1 => taken(j - 1)

\* The row job_repo.create inserts.
NewJob(u, gpus, p) ==
  [status |-> QUEUED, user |-> u, gpus |-> gpus, preferred |-> p,
   assigned |-> NULL, cancel |-> FALSE]

\* submit: the account and credit checks, on the user row get_current_user read.
SubmitCheck(s, u, j) ==
  /\ session[s] = Idle
  /\ NextId(j)
  /\ user[u].status = "active"
  /\ \E gpus \in GpuCounts, d \in Durations, p \in Nodes \cup {NULL} :
       /\ gpus * d <= user[u].credits * 3600
       /\ Become(s, [pc |-> "submit", job |-> j,
                     row |-> NewJob(u, gpus, p)])
  /\ UNCHANGED records

\* job_repo.create and the commit; the foreign key refuses a deleted node.
SubmitCommit(s) ==
  /\ session[s].pc = "submit"
  /\ LET row == session[s].row
     IN  /\ \/ /\ row.preferred = NULL
               /\ job' = [job EXCEPT ![session[s].job] = row]
            \/ /\ row.preferred # NULL
               /\ NodeIsFree(row.preferred)
               /\ job' = IF Exists(row.preferred)
                           THEN [job EXCEPT ![session[s].job] = row]
                           ELSE job
  /\ Finish(s)
  /\ UNCHANGED <<node, user, audit, ledger>>

-----------------------------------------------------------------------------
(* POST /api/jobs/claim *)

\* Fault: the draining check is missing.
ClaimAuthDraining(s, n) ==
  /\ session[s] = Idle
  /\ Exists(n)
  /\ Become(s, [pc |-> "claim", node |-> n])
  /\ UNCHANGED records

\* get_current_node reads the node; claim_for_node goes on unless it drains.
ClaimAuth(s, n) ==
  /\ session[s] = Idle
  /\ node[n] = "online"
  /\ Become(s, [pc |-> "claim", node |-> n])
  /\ UNCHANGED records

\* Fault: the node is not asked whether it runs a job.
ClaimUnchecked(s) ==
  /\ session[s].pc = "claim"
  /\ Advance(s, "free")
  /\ UNCHANGED records

\* get_running_for_node: 204 when the node already runs a job.
ClaimCheckRunning(s) ==
  /\ session[s].pc = "claim"
  /\ IF HasRunningJob(session[s].node) THEN Finish(s) ELSE Advance(s, "free")
  /\ UNCHANGED records

\* Fault: SKIP LOCKED returns rows that are locked.
ClaimableLocked(j, n) ==
  /\ job[j].status = QUEUED
  /\ job[j].gpus <= Capacity[n]
  /\ job[j].preferred \in {NULL, n}

Claimable(j, n) ==
  /\ job[j].status = QUEUED
  /\ job[j].gpus <= Capacity[n]
  /\ job[j].preferred \in {NULL, n}
  /\ JobIsFree(j)

\* Fault: with no row to claim, the handler waits for one.
ClaimSelectWaiting(s) ==
  /\ session[s].pc = "free"
  /\ LET n == session[s].node
     IN  \E j \in Jobs :
           /\ Claimable(j, n)
           /\ \A k \in Jobs : k < j => ~Claimable(k, n)
           /\ Become(s, [pc |-> "locked", node |-> n, job |-> j])
  /\ UNCHANGED records

\* claim_next_for_node: SELECT ... ORDER BY created_at LIMIT 1 FOR UPDATE SKIP
\* LOCKED; 204 when no row qualifies.
ClaimSelect(s) ==
  /\ session[s].pc = "free"
  /\ LET n == session[s].node
     IN  \/ /\ \A j \in Jobs : ~Claimable(j, n)
            /\ Finish(s)
         \/ \E j \in Jobs :
              /\ Claimable(j, n)
              /\ \A k \in Jobs : k < j => ~Claimable(k, n)
              /\ Become(s, [pc |-> "locked", node |-> n, job |-> j])
  /\ UNCHANGED records

\* Fault: assigned_node_id is no foreign key.
ClaimFlushUnreferenced(s) ==
  /\ session[s].pc = "locked"
  /\ Advance(s, "claimed")
  /\ UNCHANGED records

\* claim_next_for_node: the flush, whose foreign key waits for a DELETE of the
\* node under way and fails when the node is gone.
ClaimFlush(s) ==
  /\ session[s].pc = "locked"
  /\ NodeIsFree(session[s].node)
  /\ IF Exists(session[s].node) THEN Advance(s, "claimed") ELSE Finish(s)
  /\ UNCHANGED records

ClaimCommit(s) ==
  /\ session[s].pc = "claimed"
  /\ LET j == session[s].job
     IN  /\ job' = [job EXCEPT ![j].status = RUNNING,
                               ![j].assigned = session[s].node]
         /\ audit' = [audit EXCEPT ![j].assigned = @ + 1]
  /\ Finish(s)
  /\ UNCHANGED <<node, user, ledger>>

-----------------------------------------------------------------------------
(* POST /api/jobs/{id}/cancel and POST /api/admin/jobs/{id}/force-kill: the  *)
(* two handlers differ in who may call them and in the audit event.          *)

\* get_by_id, then _cancel_or_request_cancel branches on what it read.  An
\* ended job is refused, a job already asked to stop is left as it is.
CancelRead(s, j) ==
  /\ session[s] = Idle
  /\ \/ job[j].status = QUEUED
     \/ job[j].status = RUNNING /\ ~job[j].cancel
  /\ Become(s, [pc |-> "cancel", job |-> j, seen |-> job[j].status])
  /\ UNCHANGED records

\* Fault: the UPDATE does not wait for the row.
CancelFlushUnlocked(s) ==
  /\ session[s].pc = "cancel"
  /\ Advance(s, "cancelling")
  /\ UNCHANGED records

\* The flush of mark_terminal or of request_cancel waits for the row.
CancelFlush(s) ==
  /\ session[s].pc = "cancel"
  /\ JobIsFree(session[s].job)
  /\ Advance(s, "cancelling")
  /\ UNCHANGED records

\* Read as queued: the job ends here.
CancelCommitQueued(s) ==
  /\ session[s].pc = "cancelling"
  /\ session[s].seen = QUEUED
  /\ job' = [job EXCEPT ![session[s].job].status = CANCELLED]
  /\ audit' = [audit EXCEPT ![session[s].job].ended = @ + 1]
  /\ Finish(s)
  /\ UNCHANGED <<node, user, ledger>>

\* Read as running: the agent is to be told at its next heartbeat.
CancelCommitRunning(s) ==
  /\ session[s].pc = "cancelling"
  /\ session[s].seen = RUNNING
  /\ job' = [job EXCEPT ![session[s].job].cancel = TRUE]
  /\ Finish(s)
  /\ UNCHANGED <<node, user, audit, ledger>>

-----------------------------------------------------------------------------
(* POST /api/jobs/{id}/complete *)

\* Fault: assert_transition is not called.
CompleteReadUnasserted(s, j) ==
  /\ session[s] = Idle
  /\ job[j].assigned # NULL
  /\ Exists(job[j].assigned)
  /\ \E seconds \in RunTimes :
       Become(s, [pc |-> "complete", job |-> j, user |-> job[j].user,
                  target |-> IF job[j].cancel THEN CANCELLED ELSE COMPLETED,
                  billed |-> BillGpuHours(seconds, job[j].gpus)])
  /\ UNCHANGED records

\* Fault: the outcome is the exit code's, whatever the user asked for.
CompleteReadUncancelled(s, j) ==
  /\ session[s] = Idle
  /\ job[j].assigned # NULL
  /\ Exists(job[j].assigned)
  /\ AssertTransition(job[j].status, FAILED)
  /\ \E seconds \in RunTimes :
       Become(s, [pc |-> "complete", job |-> j, user |-> job[j].user,
                  target |-> FAILED,
                  billed |-> BillGpuHours(seconds, job[j].gpus)])
  /\ UNCHANGED records

\* get_current_node and get_by_id: only the assigned node is answered, and
\* assert_transition refuses a job that has ended.
CompleteRead(s, j) ==
  /\ session[s] = Idle
  /\ job[j].assigned # NULL
  /\ Exists(job[j].assigned)
  /\ \E exitCode \in {0, 1}, seconds \in RunTimes :
       LET target == IF job[j].cancel THEN CANCELLED
                     ELSE IF exitCode = 0 THEN COMPLETED ELSE FAILED
       IN  /\ AssertTransition(job[j].status, target)
           /\ Become(s, [pc |-> "complete", job |-> j, user |-> job[j].user,
                         target |-> target,
                         billed |-> BillGpuHours(seconds, job[j].gpus)])
  /\ UNCHANGED records

\* user_repo.get_by_id
CompleteReadUser(s) ==
  /\ session[s].pc = "complete"
  /\ LET r == session[s]
     IN  Become(s, [pc |-> "billing", job |-> r.job, user |-> r.user,
                    target |-> r.target, billed |-> r.billed,
                    credits |-> user[r.user].credits])
  /\ UNCHANGED records

\* The flush of mark_terminal writes the job and, when it changes, the credits.
CompleteFlush(s) ==
  /\ session[s].pc = "billing"
  /\ JobIsFree(session[s].job)
  /\ Deduct(session[s].credits, session[s].billed) # session[s].credits
       => UserIsFree(session[s].user)
  /\ Advance(s, "completing")
  /\ UNCHANGED records

CompleteCommit(s) ==
  /\ session[s].pc = "completing"
  /\ LET j == session[s].job
         u == session[s].user
         credits == Deduct(session[s].credits, session[s].billed)
     IN  /\ job' = [job EXCEPT ![j].status = session[s].target]
         /\ user' = IF credits # session[s].credits
                      THEN [user EXCEPT ![u].credits = credits]
                      ELSE user
         /\ audit' = [audit EXCEPT ![j].ended = @ + 1, ![j].billed = @ + 1]
         /\ ledger' = [ledger EXCEPT ![u].charged = @ + session[s].billed]
  /\ Finish(s)
  /\ UNCHANGED node

-----------------------------------------------------------------------------
(* POST /api/admin/users/{id}/approve and /suspend *)

AdminRead(s, u) ==
  /\ session[s] = Idle
  /\ \/ Become(s, [pc |-> "suspend", user |-> u, seen |-> user[u]])
     \/ \E credits \in Grants :
          Become(s, [pc |-> "approve", user |-> u, seen |-> user[u],
                     credits |-> credits])
  /\ UNCHANGED records

\* Fault: a grant is added to what the user has left.
ApproveCommitAdding(s) ==
  /\ session[s].pc = "approve"
  /\ UserIsFree(session[s].user)
  /\ LET u == session[s].user
         credits == session[s].seen.credits + session[s].credits
     IN  /\ user[u].credits < 4
         /\ user' = [user EXCEPT ![u] = [status |-> "active", credits |-> credits]]
         /\ ledger' = [ledger EXCEPT ![u] = [granted |-> session[s].credits,
                                             charged |-> 0]]
  /\ Finish(s)
  /\ UNCHANGED <<job, node, audit>>

\* The columns approve_user assigns are written where they differ from the
\* read; with nothing to write there is no row to wait for.
ApproveCommit(s) ==
  /\ session[s].pc = "approve"
  /\ LET u == session[s].user
         seen == session[s].seen
         credits == session[s].credits
     IN  /\ seen # [status |-> "active", credits |-> credits] => UserIsFree(u)
         /\ user' = [user EXCEPT
              ![u] = [status  |-> IF seen.status # "active" THEN "active" ELSE @.status,
                      credits |-> IF seen.credits # credits THEN credits ELSE @.credits]]
         /\ ledger' = [ledger EXCEPT ![u] = [granted |-> credits, charged |-> 0]]
  /\ Finish(s)
  /\ UNCHANGED <<job, node, audit>>

SuspendCommit(s) ==
  /\ session[s].pc = "suspend"
  /\ session[s].seen.status # "suspended" => UserIsFree(session[s].user)
  /\ user' = IF session[s].seen.status # "suspended"
               THEN [user EXCEPT ![session[s].user].status = "suspended"]
               ELSE user
  /\ Finish(s)
  /\ UNCHANGED <<job, node, audit, ledger>>

-----------------------------------------------------------------------------
(* POST /api/nodes/{id}/drain, /undrain, /api/admin/nodes/{id}/force-drain *)

\* A node that drains already is not written again.
DrainRead(s, n) ==
  /\ session[s] = Idle
  /\ Exists(n)
  /\ node[n] # "draining"
  /\ Become(s, [pc |-> "drain", node |-> n])
  /\ UNCHANGED records

UndrainRead(s, n) ==
  /\ session[s] = Idle
  /\ node[n] = "draining"
  /\ Become(s, [pc |-> "undrain", node |-> n])
  /\ UNCHANGED records

\* set_status waits for a DELETE of the row under way, and fails (500) when it
\* finds the row gone.
SetNodeStatus(s, status) ==
  LET n == session[s].node
  IN  /\ NodeIsFree(n)
      /\ node' = IF Exists(n) THEN [node EXCEPT ![n] = status] ELSE node
      /\ Finish(s)
      /\ UNCHANGED <<job, user, audit, ledger>>

DrainCommit(s) == session[s].pc = "drain" /\ SetNodeStatus(s, "draining")

UndrainCommit(s) == session[s].pc = "undrain" /\ SetNodeStatus(s, "online")

-----------------------------------------------------------------------------
(* DELETE /api/nodes/{id} *)

DeleteRead(s, n) ==
  /\ session[s] = Idle
  /\ Exists(n)
  /\ Become(s, [pc |-> "delete", node |-> n])
  /\ UNCHANGED records

\* Fault: a busy node is deleted.
DeleteUnchecked(s) ==
  /\ session[s].pc = "delete"
  /\ Advance(s, "unused")
  /\ UNCHANGED records

\* get_running_for_node: NodeBusy (409) when the node runs a job.
DeleteCheckRunning(s) ==
  /\ session[s].pc = "delete"
  /\ IF HasRunningJob(session[s].node) THEN Finish(s) ELSE Advance(s, "unused")
  /\ UNCHANGED records

\* node_repo.delete takes the row, once no other session refers to it.
DeleteFlush(s) ==
  /\ session[s].pc = "unused"
  /\ LET n == session[s].node
     IN  /\ NodeIsFree(n)
         /\ \A t \in Sessions : ~RefersToNode(t, n)
         /\ IF Exists(n) THEN Advance(s, "deleting") ELSE Finish(s)
  /\ UNCHANGED records

\* ON DELETE SET NULL updates every job that names the node, once they are free.
DeleteCommit(s) ==
  /\ session[s].pc = "deleting"
  /\ LET n == session[s].node
         orNull(m) == IF m = n THEN NULL ELSE m
     IN  /\ \A j \in Jobs : References(j, n) => JobIsFree(j)
         /\ node' = [node EXCEPT ![n] = "deleted"]
         /\ job' = [j \in Jobs |->
                     [job[j] EXCEPT !.assigned = orNull(@), !.preferred = orNull(@)]]
  /\ Finish(s)
  /\ UNCHANGED <<user, audit, ledger>>

-----------------------------------------------------------------------------
(* Failures *)

\* A claim that has locked a job pinned to its node waits for the DELETE of the
\* node, which waits for that job.
WaitsFor(s, t) ==
  \/ /\ session[s].pc = "locked"
     /\ Deletes(t, session[s].node)
  \/ /\ session[s].pc = "deleting"
     /\ \E j \in Jobs : References(j, session[s].node) /\ HoldsJob(t, j)

\* PostgreSQL aborts one of two sessions that wait for each other.
DeadlockVictim(s) ==
  /\ \E t \in Sessions : WaitsFor(s, t) /\ WaitsFor(t, s)
  /\ Finish(s)
  /\ UNCHANGED records

\* The server dies, or the connection is lost: the transaction is rolled back.
Abort(s) ==
  /\ session[s] # Idle
  /\ Finish(s)
  /\ UNCHANGED records

-----------------------------------------------------------------------------
Init ==
  /\ job = [j \in Jobs |-> AbsentJob]
  /\ node = [n \in Nodes |-> "online"]
  /\ user = [u \in Users |-> [status |-> "pending", credits |-> 0]]
  /\ audit = [j \in Jobs |-> [assigned |-> 0, ended |-> 0, billed |-> 0]]
  /\ ledger = [u \in Users |-> [granted |-> 0, charged |-> 0]]
  /\ session = [s \in Sessions |-> Idle]

\* A request arrives.
Request(s) ==
  \/ \E u \in Users : \/ \E j \in Jobs : SubmitCheck(s, u, j)
                      \/ AdminRead(s, u)
  \/ \E n \in Nodes : \/ ClaimAuth(s, n)
                      \/ DrainRead(s, n)
                      \/ UndrainRead(s, n)
                      \/ DeleteRead(s, n)
  \/ \E j \in Jobs : CancelRead(s, j) \/ CompleteRead(s, j)

\* A handler goes on.
Continue(s) ==
  \/ SubmitCommit(s)
  \/ ClaimCheckRunning(s) \/ ClaimSelect(s) \/ ClaimFlush(s) \/ ClaimCommit(s)
  \/ CancelFlush(s) \/ CancelCommitQueued(s) \/ CancelCommitRunning(s)
  \/ CompleteReadUser(s) \/ CompleteFlush(s) \/ CompleteCommit(s)
  \/ ApproveCommit(s) \/ SuspendCommit(s)
  \/ DrainCommit(s) \/ UndrainCommit(s)
  \/ DeleteCheckRunning(s) \/ DeleteFlush(s) \/ DeleteCommit(s)

Next == \E s \in Sessions :
          Request(s) \/ Continue(s) \/ DeadlockVictim(s) \/ Abort(s)

Spec == Init /\ [][Next]_vars

\* The event loop resumes a handler whose statement has returned; PostgreSQL
\* grants row locks in the order they were asked for, and breaks deadlocks.
Fairness == \A s \in Sessions : SF_vars(Continue(s)) /\ SF_vars(DeadlockVictim(s))

FairSpec == Spec /\ Fairness
-----------------------------------------------------------------------------
(* Properties that hold however requests interleave *)

\* Every row, counter and request is of the kind the schema and the handlers
\* give it; in particular no balance is negative (complete_job floors it).
TypeOK ==
  /\ job \in [Jobs -> {AbsentJob} \cup JobRow]
  /\ node \in [Nodes -> NodeStatuses]
  /\ user \in [Users -> UserRow]
  /\ audit \in [Jobs -> [assigned : Nat, ended : Nat, billed : Nat]]
  /\ ledger \in [Users -> [granted : Nat, charged : Nat]]
  /\ session \in [Sessions -> {Idle} \cup Requests]

\* No job is ever handed out twice, whichever claims race for it
\* (claim_next_for_node: "two agents racing through this path never both pick
\* the same job").
AssignedOnce == \A j \in Jobs : audit[j].assigned <= 1

\* An assigned job fits its node, was not pinned to another one, and names a
\* node that exists, even when the node is deleted while it is being claimed.
AssignmentFits ==
  \A j \in Jobs :
    LET n == job[j].assigned
    IN  n # NULL => /\ Exists(n)
                    /\ job[j].gpus <= Capacity[n]
                    /\ job[j].preferred \in {NULL, n}

\* A job that has ended is never started or queued again, by any claim, cancel
\* or completion still in flight when it ended.
EndedStaysEnded ==
  [][\A j \in Jobs : job[j].status \in TerminalStatuses
                        => job'[j].status \in TerminalStatuses]_vars

\* Every request is answered: row locks and foreign keys make handlers wait, but
\* never for ever, the deadlock of a pinned claim with a deletion included.
RequestsEnd == \A s \in Sessions : session[s] # Idle ~> session[s] = Idle

-----------------------------------------------------------------------------
(* Properties that hold when requests are served one at a time.  With two     *)
(* sessions each of them has a counterexample.                               *)

\* A node runs one job at a time (claim_for_node asks get_running_for_node).
OneRunningPerNode ==
  \A j, k \in Jobs :
    /\ job[j].status = RUNNING /\ job[k].status = RUNNING
    /\ job[j].assigned = job[k].assigned /\ job[j].assigned # NULL
    => j = k

\* A running job has a node to report its end: delete_node refuses a busy node.
RunningHasNode ==
  \A j \in Jobs : job[j].status = RUNNING => job[j].assigned # NULL

\* The balance is what the audit log adds up to: the last grant less the hours
\* billed since.
CreditsReconcile ==
  \A u \in Users : user[u].credits = Deduct(ledger[u].granted, ledger[u].charged)

\* "Deducts actual GPU-hours from users.credits_gpu_hours": when a running job ends,
\* the hours it is billed come off the balance its user has by then.
BillIsDeducted ==
  [][\A j \in Jobs : job[j].status = RUNNING /\ job'[j].status # RUNNING =>
       LET u == job[j].user
           billed == ledger'[u].charged - ledger[u].charged
       IN  user'[u].credits = Deduct(user[u].credits, billed)]_vars

\* A job starts only on a node that is online (the draining check of a claim).
DrainRespected ==
  [][\A j \in Jobs : job[j].status # RUNNING /\ job'[j].status = RUNNING
                        => node[job'[j].assigned] = "online"]_vars

\* A running job whose cancellation was recorded ends as cancelled, whatever
\* exit code its agent reports (complete_job).
CancelWins ==
  [][\A j \in Jobs : /\ job[j].status = RUNNING /\ job[j].cancel
                     /\ job'[j].status # RUNNING
                     => job'[j].status = CANCELLED]_vars

\* "completed/failed/cancelled jobs are immutable" (_cancel_or_request_cancel):
\* the outcome of a job that has ended is not written again.
OutcomeIsFinal ==
  [][\A j \in Jobs : job[j].status \in TerminalStatuses
                        => job'[j].status = job[j].status]_vars

\* The rows behave like the abstract life of a job: one holder at a time, one
\* end, one bill for a job that ran and none for one that did not.
Lifecycle == INSTANCE JobLifecycle WITH
  status  <- [j \in Jobs |-> job[j].status],
  holder  <- [j \in Jobs |-> job[j].assigned],
  charges <- [j \in Jobs |-> audit[j].billed]

ImplementsLifecycle == Lifecycle!LifecycleSpec
=============================================================================
