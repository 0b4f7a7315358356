---------------------------- MODULE JobLifecycle ----------------------------
(***************************************************************************)
(* What the control plane promises about each job, with no database and no  *)
(* concurrency in sight: a job is queued, handed to one node, ends once, and *)
(* is charged to its user once, and only if it ran.  ControlPlane implements *)
(* this when requests are served one at a time.                             *)
(***************************************************************************)
EXTENDS Naturals, JobStatus

CONSTANTS Jobs,   \* job ids
          Nodes,  \* node ids
          NULL    \* SQL NULL

VARIABLES status,  \* jobs.status, "absent" while there is no row
          holder,  \* jobs.assigned_node_id
          charges  \* how often the job has been billed

lifecycle == <<status, holder, charges>>

LifecycleInit ==
  /\ status  = [j \in Jobs |-> "absent"]
  /\ holder  = [j \in Jobs |-> NULL]
  /\ charges = [j \in Jobs |-> 0]

\* A user submits a job.
Submitted(j) ==
  /\ status[j] = "absent"
  /\ status' = [status EXCEPT ![j] = QUEUED]
  /\ UNCHANGED <<holder, charges>>

\* A node that holds no running job is given the queued job j.
Assigned(j, n) ==
  /\ AssertTransition(status[j], RUNNING)
  /\ \A k \in Jobs : ~(status[k] = RUNNING /\ holder[k] = n)
  /\ status' = [status EXCEPT ![j] = RUNNING]
  /\ holder' = [holder EXCEPT ![j] = n]
  /\ UNCHANGED charges

\* The node that holds j reports its end, and the user is billed.
Ended(j, outcome) ==
  /\ status[j] = RUNNING
  /\ AssertTransition(status[j], outcome)
  /\ status'  = [status EXCEPT ![j] = outcome]
  /\ charges' = [charges EXCEPT ![j] = @ + 1]
  /\ UNCHANGED holder

\* A queued job is cancelled: nobody ran it and nobody pays for it.
Withdrawn(j) ==
  /\ status[j] = QUEUED
  /\ AssertTransition(status[j], CANCELLED)
  /\ status' = [status EXCEPT ![j] = CANCELLED]
  /\ UNCHANGED <<holder, charges>>

\* A node with no running job leaves; ended jobs forget it.
Forgotten(n) ==
  /\ \A j \in Jobs : holder[j] = n => status[j] # RUNNING
  /\ holder' = [j \in Jobs |-> IF holder[j] = n THEN NULL ELSE holder[j]]
  /\ UNCHANGED <<status, charges>>

LifecycleNext ==
  \/ \E j \in Jobs : Submitted(j) \/ Withdrawn(j)
  \/ \E j \in Jobs, n \in Nodes : Assigned(j, n)
  \/ \E j \in Jobs, outcome \in TerminalStatuses : Ended(j, outcome)
  \/ \E n \in Nodes : Forgotten(n)

LifecycleSpec == LifecycleInit /\ [][LifecycleNext]_lifecycle
=============================================================================
