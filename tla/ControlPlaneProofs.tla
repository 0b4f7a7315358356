------------------------- MODULE ControlPlaneProofs -------------------------
(***************************************************************************)
(* Safety of ControlPlane for every number of jobs, nodes, users and        *)
(* sessions, proved from one inductive invariant.                           *)
(***************************************************************************)
EXTENDS ControlPlane, FiniteSetTheorems, TLAPS

\* The states in which a session holds the lock of the job it works on.
Locking == {"locked", "claimed", "cancelling", "completing"}

\* What a request in flight may rely on until it commits.
RequestOK(r) ==
  /\ r.pc = "submit" =>
       /\ job[r.job].status = "absent"
       /\ r.row.status = QUEUED
       /\ r.row.assigned = NULL
  /\ r.pc \in {"locked", "claimed"} =>
       /\ job[r.job].status = QUEUED
       /\ job[r.job].gpus <= Capacity[r.node]
       /\ job[r.job].preferred \in {NULL, r.node}
  /\ r.pc = "claimed" => Exists(r.node)
  /\ r.pc \in {"cancel", "cancelling", "complete", "billing", "completing"} =>
       job[r.job].status # "absent"

\* What keeps two requests in flight apart.
Apart(r, q) ==
  /\ r.pc \in Locking /\ q.pc \in Locking => r.job # q.job
  /\ r.pc = "submit" /\ q.pc = "submit" => r.job # q.job
  /\ r.pc = "claimed" /\ q.pc = "deleting" => r.node # q.node

\* A job that never ran has no trace of a run.
Unstarted ==
  \A j \in Jobs : job[j].status \in {"absent", QUEUED} =>
    job[j].assigned = NULL /\ audit[j].assigned = 0

Inv ==
  /\ TypeOK
  /\ \A s \in Sessions : RequestOK(session[s])
  /\ \A s, t \in Sessions : s # t => Apart(session[s], session[t])
  /\ Unstarted
  /\ AssignedOnce
  /\ AssignmentFits

\* Empty tables, with no request under way, satisfy the invariant.
THEOREM InitInv == Init => Inv
<1> SUFFICES ASSUME Init PROVE Inv OBVIOUS
<1> USE ConstantsAssumption
<1>1. TypeOK
  BY DEF Init, TypeOK, Idle, AbsentJob, NodeStatuses, UserRow
<1>2. \A s \in Sessions : RequestOK(session[s])
  BY DEF Init, RequestOK, Idle
<1>3. \A s, t \in Sessions : s # t => Apart(session[s], session[t])
  BY DEF Init, Apart, Idle, Locking
<1>4. Unstarted /\ AssignedOnce /\ AssignmentFits
  BY DEF Init, Unstarted, AssignedOnce, AssignmentFits, AbsentJob
<1> QED BY <1>1, <1>2, <1>3, <1>4 DEF Inv

\* At least one hour is billed, whatever the run.
LEMMA BillIsNat ==
  ASSUME NEW seconds \in Nat, NEW gpus \in Nat
  PROVE  BillGpuHours(seconds, gpus) \in Nat /\ BillGpuHours(seconds, gpus) >= 1
<1> DEFINE work == seconds * gpus
<1>1. work \in Nat
  OBVIOUS
<1> HIDE DEF work
<1>2. (work + 3599) \div 3600 \in Nat
  BY <1>1
<1> QED BY <1>2 DEF BillGpuHours, work

\* A step of one session that leaves the tables alone keeps the invariant when
\* the new request may rely on what it needs and is apart from the others.
LEMMA SessionStep ==
  ASSUME Inv, UNCHANGED records,
         NEW s \in Sessions, NEW r \in {Idle} \cup Requests,
         session' = [session EXCEPT ![s] = r],
         RequestOK(r),
         \A t \in Sessions \ {s} : Apart(r, session[t]) /\ Apart(session[t], r)
  PROVE  Inv'
<1>1. TypeOK'
  BY DEF Inv, TypeOK, records
<1>2. \A t \in Sessions : session'[t] = IF t = s THEN r ELSE session[t]
  BY DEF Inv, TypeOK
<1>3. ASSUME NEW t \in Sessions PROVE RequestOK(session[t])'
  <2>1. RequestOK(session'[t])
    BY <1>2 DEF Inv
  <2> QED BY <2>1 DEF RequestOK, records, Exists
<1>4. ASSUME NEW t \in Sessions, NEW q \in Sessions, t # q
      PROVE  Apart(session[t], session[q])'
  <2>1. Apart(session'[t], session'[q])
    BY <1>2, <1>4 DEF Inv
  <2> QED BY <2>1 DEF Apart
<1>5. Unstarted' /\ AssignedOnce' /\ AssignmentFits'
  BY DEF Inv, records, Unstarted, AssignedOnce, AssignmentFits, Exists
<1> QED BY <1>1, <1>3, <1>4, <1>5 DEF Inv

\* A session that serves no request disturbs nobody.
LEMMA IdleIsApart ==
  /\ RequestOK(Idle)
  /\ \A r \in {Idle} \cup Requests : Apart(Idle, r) /\ Apart(r, Idle)
BY DEF RequestOK, Apart, Idle, Locking

\* A handler that returns, or is rolled back, without having committed.
LEMMA FinishStep ==
  ASSUME Inv, UNCHANGED records, NEW s \in Sessions, Finish(s)
  PROVE  Inv'
<1>1. \A t \in Sessions : session[t] \in {Idle} \cup Requests
  BY DEF Inv, TypeOK
<1> QED BY <1>1, IdleIsApart, SessionStep DEF Finish, Become

\* The requests that hold nothing and rely on nothing.
LEMMA HarmlessStep ==
  ASSUME Inv, UNCHANGED records, NEW s \in Sessions, NEW r \in Requests,
         Become(s, r),
         r.pc \in {"claim", "free", "drain", "undrain", "delete", "unused",
                   "approve", "suspend"}
  PROVE  Inv'
<1>1. RequestOK(r)
  BY DEF RequestOK
<1>2. \A t \in Sessions : Apart(r, session[t]) /\ Apart(session[t], r)
  BY DEF Apart, Locking
<1> QED BY <1>1, <1>2, SessionStep DEF Become

-----------------------------------------------------------------------------
(* A request arrives *)

\* Every first read of a handler: submit, the admin handlers, claim, drain,
\* undrain, delete, cancel and complete.
LEMMA RequestInv ==
  ASSUME Inv, NEW s \in Sessions, Request(s)
  PROVE  Inv'
<1>1. ASSUME NEW u \in Users, NEW j \in Jobs, SubmitCheck(s, u, j) PROVE Inv'
  <2>1. PICK gpus \in GpuCounts, d \in Durations, p \in Nodes \cup {NULL} :
          /\ gpus * d <= user[u].credits * 3600
          /\ Become(s, [pc |-> "submit", job |-> j, row |-> NewJob(u, gpus, p)])
    BY <1>1, ZenonT(60) DEF SubmitCheck
  <2> DEFINE row == NewJob(u, gpus, p)
             r == [pc |-> "submit", job |-> j, row |-> row]
  <2>2. Become(s, r)
    BY <2>1
  <2>3. row \in JobRow
    BY ConstantsAssumption DEF NewJob, JobRow, JobStatuses
  <2>4. r \in Requests
    BY <2>3 DEF Requests
  <2>5. /\ job[j].status = "absent"
        /\ \A t \in Sessions : session[t].pc = "submit" => session[t].job # j
    BY <1>1, ConstantsAssumption DEF SubmitCheck, NextId, Jobs
  <2>6. RequestOK(r)
    BY <2>5 DEF RequestOK, NewJob
  <2>7. \A t \in Sessions : Apart(r, session[t]) /\ Apart(session[t], r)
    BY <2>5 DEF Apart, Locking
  <2>8. UNCHANGED records
    BY <1>1 DEF SubmitCheck
  <2> HIDE DEF r
  <2> QED BY <2>2, <2>4, <2>6, <2>7, <2>8, SessionStep DEF Become
<1>2. ASSUME NEW u \in Users, AdminRead(s, u) PROVE Inv'
  <2>1. user[u] \in UserRow
    BY DEF Inv, TypeOK
  <2>2. CASE Become(s, [pc |-> "suspend", user |-> u, seen |-> user[u]])
    <3> DEFINE r == [pc |-> "suspend", user |-> u, seen |-> user[u]]
    <3>1. r \in Requests /\ r.pc = "suspend"
      BY <2>1 DEF Requests
    <3>2. UNCHANGED records
      BY <1>2 DEF AdminRead
    <3> HIDE DEF r
    <3> QED BY <2>2, <3>1, <3>2, HarmlessStep DEF r
  <2>3. ASSUME NEW credits \in Grants,
               Become(s, [pc |-> "approve", user |-> u, seen |-> user[u],
                          credits |-> credits])
        PROVE  Inv'
    <3> DEFINE r == [pc |-> "approve", user |-> u, seen |-> user[u],
                     credits |-> credits]
    <3>1. r \in Requests /\ r.pc = "approve"
      BY <2>1, ConstantsAssumption DEF Requests
    <3>2. UNCHANGED records
      BY <1>2 DEF AdminRead
    <3>3. Become(s, r)
      BY <2>3
    <3> HIDE DEF r
    <3> QED BY <3>1, <3>2, <3>3, HarmlessStep
  <2> QED BY <1>2, <2>2, <2>3 DEF AdminRead
<1>3. ASSUME NEW n \in Nodes, ClaimAuth(s, n) \/ DrainRead(s, n)
                                \/ UndrainRead(s, n) \/ DeleteRead(s, n)
      PROVE  Inv'
  <2>1. PICK pc \in {"claim", "drain", "undrain", "delete"} :
          Become(s, [pc |-> pc, node |-> n])
    BY <1>3 DEF ClaimAuth, DrainRead, UndrainRead, DeleteRead
  <2> DEFINE r == [pc |-> pc, node |-> n]
  <2>2. r \in Requests /\ r.pc = pc
    BY DEF Requests
  <2>3. UNCHANGED records
    BY <1>3 DEF ClaimAuth, DrainRead, UndrainRead, DeleteRead
  <2>4. Become(s, r)
    BY <2>1
  <2> HIDE DEF r
  <2> QED BY <2>2, <2>3, <2>4, HarmlessStep
<1>4. ASSUME NEW j \in Jobs, CancelRead(s, j) PROVE Inv'
  <2> DEFINE r == [pc |-> "cancel", job |-> j, seen |-> job[j].status]
  <2>1. job[j].status \in {QUEUED, RUNNING}
    BY <1>4 DEF CancelRead
  <2>2. r \in Requests
    BY <2>1 DEF Requests
  <2>3. RequestOK(r)
    BY <2>1 DEF RequestOK, QUEUED, RUNNING
  <2>4. \A t \in Sessions : Apart(r, session[t]) /\ Apart(session[t], r)
    BY DEF Apart, Locking
  <2>5. UNCHANGED records /\ Become(s, r)
    BY <1>4 DEF CancelRead
  <2> HIDE DEF r
  <2> QED BY <2>2, <2>3, <2>4, <2>5, SessionStep DEF Become
<1>5. ASSUME NEW j \in Jobs, CompleteRead(s, j) PROVE Inv'
  <2>1. PICK seconds \in RunTimes, target \in TerminalStatuses :
          /\ AssertTransition(job[j].status, target)
          /\ Become(s, [pc |-> "complete", job |-> j, user |-> job[j].user,
                        target |-> target,
                        billed |-> BillGpuHours(seconds, job[j].gpus)])
    BY <1>5 DEF CompleteRead, TerminalStatuses
  <2> DEFINE billed == BillGpuHours(seconds, job[j].gpus)
             r == [pc |-> "complete", job |-> j, user |-> job[j].user,
                   target |-> target, billed |-> billed]
  <2>2. job[j].status \in {QUEUED, RUNNING}
    BY <2>1 DEF AssertTransition, AllowedTransitions
  <2>3. job[j] \in JobRow
    BY <2>2 DEF Inv, TypeOK, AbsentJob, QUEUED, RUNNING
  <2>4. job[j].user \in Users /\ job[j].gpus \in Nat
    BY <2>3 DEF JobRow
  <2>5. billed \in Nat
    BY <2>4, ConstantsAssumption, BillIsNat
  <2> HIDE DEF billed
  <2>6. r \in Requests
    BY <2>4, <2>5 DEF Requests
  <2>7. RequestOK(r)
    BY <2>2 DEF RequestOK, QUEUED, RUNNING
  <2>8. \A t \in Sessions : Apart(r, session[t]) /\ Apart(session[t], r)
    BY DEF Apart, Locking
  <2>9. UNCHANGED records /\ Become(s, r)
    BY <1>5, <2>1 DEF CompleteRead, billed
  <2> HIDE DEF r
  <2> QED BY <2>6, <2>7, <2>8, <2>9, SessionStep DEF Become
<1> QED BY <1>1, <1>2, <1>3, <1>4, <1>5 DEF Request

-----------------------------------------------------------------------------
(* A handler goes on *)

\* What pc says of the other fields of a request.
LEMMA RequestFields ==
  ASSUME TypeOK, NEW s \in Sessions
  PROVE  LET r == session[s]
         IN  /\ r.pc = "submit" => r.job \in Jobs /\ r.row \in JobRow
             /\ r.pc \in {"claim", "free", "drain", "undrain", "delete", "unused",
                          "deleting", "locked", "claimed"} => r.node \in Nodes
             /\ r.pc \in Locking \cup {"cancel", "complete", "billing"} =>
                  r.job \in Jobs
             /\ r.pc \in {"complete", "billing", "completing"} =>
                  /\ r.user \in Users
                  /\ r.target \in TerminalStatuses
                  /\ r.billed \in Nat
             /\ r.pc \in {"billing", "completing"} => r.credits \in Nat
             /\ r.pc \in {"approve", "suspend"} =>
                  r.user \in Users /\ r.seen \in UserRow
             /\ r.pc = "approve" => r.credits \in Nat
BY DEF TypeOK, Requests, Idle, Locking

\* The session that moves to its next await, in a state of the same kind.
LEMMA AdvanceStep ==
  ASSUME Inv, UNCHANGED records, NEW s \in Sessions, NEW pc, Advance(s, pc),
         \/ session[s].pc = "claim" /\ pc = "free"
         \/ session[s].pc = "delete" /\ pc = "unused"
  PROVE  Inv'
<1> DEFINE r == [session[s] EXCEPT !.pc = pc]
<1>1. r \in Requests /\ r.pc = pc
  BY DEF Inv, TypeOK, Requests, Idle
<1>2. Become(s, r)
  BY DEF Advance, Become, Inv, TypeOK
<1> HIDE DEF r
<1> QED BY <1>1, <1>2, HarmlessStep

\* claim_for_node asks get_running_for_node: it goes on or answers 204.
LEMMA ClaimCheckRunningInv ==
  ASSUME Inv, NEW s \in Sessions, ClaimCheckRunning(s)
  PROVE  Inv'
<1>1. Finish(s) \/ Advance(s, "free")
  BY DEF ClaimCheckRunning
<1> QED BY <1>1, FinishStep, AdvanceStep DEF ClaimCheckRunning

\* delete_node asks get_running_for_node: it goes on or answers 409.
LEMMA DeleteCheckRunningInv ==
  ASSUME Inv, NEW s \in Sessions, DeleteCheckRunning(s)
  PROVE  Inv'
<1>1. Finish(s) \/ Advance(s, "unused")
  BY DEF DeleteCheckRunning
<1> QED BY <1>1, FinishStep, AdvanceStep DEF DeleteCheckRunning

\* The lock of the row the claim selects was free.
LEMMA ClaimSelectInv ==
  ASSUME Inv, NEW s \in Sessions, ClaimSelect(s)
  PROVE  Inv'
<1> DEFINE n == session[s].node
<1>1. UNCHANGED records
  BY DEF ClaimSelect
<1>2. CASE Finish(s)
  BY <1>1, <1>2, FinishStep
<1>3. ASSUME NEW j \in Jobs, Claimable(j, n),
             Become(s, [pc |-> "locked", node |-> n, job |-> j])
      PROVE  Inv'
  <2> DEFINE r == [pc |-> "locked", node |-> n, job |-> j]
  <2>1. n \in Nodes
    BY RequestFields DEF Inv, ClaimSelect
  <2>2. r \in Requests
    BY <2>1 DEF Requests
  <2>3. RequestOK(r)
    BY <1>3 DEF RequestOK, Claimable
  <2>4. \A t \in Sessions : Apart(r, session[t]) /\ Apart(session[t], r)
    BY <1>3 DEF Apart, Locking, Claimable, JobIsFree, HoldsJob
  <2>5. Become(s, r)
    BY <1>3
  <2> HIDE DEF r
  <2> QED BY <1>1, <2>2, <2>3, <2>4, <2>5, SessionStep DEF Become
<1> QED BY <1>2, <1>3 DEF ClaimSelect

\* The lock moves from the selected row to its UPDATE; the node cannot go any more.
LEMMA ClaimFlushInv ==
  ASSUME Inv, NEW s \in Sessions, ClaimFlush(s)
  PROVE  Inv'
<1>1. UNCHANGED records
  BY DEF ClaimFlush
<1>2. CASE Finish(s)
  BY <1>1, <1>2, FinishStep
<1>3. CASE Exists(session[s].node) /\ Advance(s, "claimed")
  <2> DEFINE r == [session[s] EXCEPT !.pc = "claimed"]
  <2>1. session[s] \in [pc : {"locked"}, node : Nodes, job : Jobs]
    BY DEF Inv, TypeOK, Requests, Idle, ClaimFlush
  <2>2. r \in Requests /\ r = [pc |-> "claimed", node |-> session[s].node,
                              job |-> session[s].job]
    BY <2>1 DEF Requests
  <2>3. RequestOK(r)
    BY <1>3, <2>1, <2>2 DEF RequestOK, Inv
  <2>4. \A t \in Sessions \ {s} : Apart(r, session[t]) /\ Apart(session[t], r)
    BY <2>1, <2>2 DEF Apart, Inv, Locking, ClaimFlush, NodeIsFree, Deletes
  <2>5. session' = [session EXCEPT ![s] = r]
    BY <1>3 DEF Advance, Inv, TypeOK
  <2> HIDE DEF r
  <2> QED BY <1>1, <2>2, <2>3, <2>4, <2>5, SessionStep
<1> QED BY <1>2, <1>3 DEF ClaimFlush

\* A cancel takes the lock of its job's row, which is free.
LEMMA CancelFlushInv ==
  ASSUME Inv, NEW s \in Sessions, CancelFlush(s)
  PROVE  Inv'
<1> DEFINE r == [session[s] EXCEPT !.pc = "cancelling"]
<1>1. session[s] \in [pc : {"cancel"}, job : Jobs, seen : {QUEUED, RUNNING}]
  BY DEF Inv, TypeOK, Requests, Idle, CancelFlush
<1>2. r \in Requests /\ r = [pc |-> "cancelling", job |-> session[s].job,
                            seen |-> session[s].seen]
  BY <1>1 DEF Requests
<1>3. RequestOK(r)
  BY <1>1, <1>2 DEF RequestOK, Inv
<1>4. \A t \in Sessions : Apart(r, session[t]) /\ Apart(session[t], r)
  BY <1>1, <1>2 DEF Apart, Locking, CancelFlush, JobIsFree, HoldsJob
<1>5. UNCHANGED records /\ session' = [session EXCEPT ![s] = r]
  BY DEF CancelFlush, Advance, Inv, TypeOK
<1> HIDE DEF r
<1> QED BY <1>2, <1>3, <1>4, <1>5, SessionStep

\* complete_job has read the credits it will write back.
LEMMA CompleteReadUserInv ==
  ASSUME Inv, NEW s \in Sessions, CompleteReadUser(s)
  PROVE  Inv'
<1> DEFINE c == user[session[s].user].credits
           r == [pc |-> "billing", job |-> session[s].job, user |-> session[s].user,
                 target |-> session[s].target, billed |-> session[s].billed,
                 credits |-> c]
<1>1. session[s] \in [pc : {"complete"}, job : Jobs, user : Users,
                      target : TerminalStatuses, billed : Nat]
  BY DEF Inv, TypeOK, Requests, Idle, CompleteReadUser
<1>2. c \in Nat
  BY <1>1 DEF Inv, TypeOK, UserRow
<1> HIDE DEF c
<1>3. r \in Requests
  BY <1>1, <1>2 DEF Requests
<1>4. RequestOK(r)
  BY <1>1 DEF RequestOK, Inv
<1>5. \A t \in Sessions : Apart(r, session[t]) /\ Apart(session[t], r)
  BY DEF Apart, Locking
<1>6. UNCHANGED records /\ session' = [session EXCEPT ![s] = r]
  BY DEF CompleteReadUser, Become, c
<1> HIDE DEF r
<1> QED BY <1>3, <1>4, <1>5, <1>6, SessionStep

\* complete_job takes the lock of its job's row, which is free.
LEMMA CompleteFlushInv ==
  ASSUME Inv, NEW s \in Sessions, CompleteFlush(s)
  PROVE  Inv'
<1> DEFINE r == [session[s] EXCEPT !.pc = "completing"]
<1>1. session[s] \in [pc : {"billing"}, job : Jobs, user : Users,
                      target : TerminalStatuses, billed : Nat, credits : Nat]
  BY DEF Inv, TypeOK, Requests, Idle, CompleteFlush
<1>2. r \in Requests /\ r.pc = "completing" /\ r.job = session[s].job
  BY <1>1 DEF Requests
<1>3. RequestOK(r)
  BY <1>1, <1>2 DEF RequestOK, Inv
<1>4. \A t \in Sessions : Apart(r, session[t]) /\ Apart(session[t], r)
  BY <1>1, <1>2 DEF Apart, Locking, CompleteFlush, JobIsFree, HoldsJob
<1>5. UNCHANGED records /\ session' = [session EXCEPT ![s] = r]
  BY DEF CompleteFlush, Advance, Inv, TypeOK
<1> HIDE DEF r
<1> QED BY <1>2, <1>3, <1>4, <1>5, SessionStep

\* No claim under way refers to the node.
LEMMA DeleteFlushInv ==
  ASSUME Inv, NEW s \in Sessions, DeleteFlush(s)
  PROVE  Inv'
<1>1. UNCHANGED records
  BY DEF DeleteFlush
<1>2. CASE Finish(s)
  BY <1>1, <1>2, FinishStep
<1>3. CASE Advance(s, "deleting")
  <2> DEFINE r == [session[s] EXCEPT !.pc = "deleting"]
  <2>1. r \in Requests /\ r.pc = "deleting" /\ r.node = session[s].node
    BY DEF Inv, TypeOK, Requests, Idle, DeleteFlush
  <2>2. RequestOK(r)
    BY <2>1 DEF RequestOK
  <2>3. \A t \in Sessions : Apart(r, session[t]) /\ Apart(session[t], r)
    BY <2>1 DEF Apart, Locking, DeleteFlush, RefersToNode
  <2>4. session' = [session EXCEPT ![s] = r]
    BY <1>3 DEF Advance, Inv, TypeOK
  <2> HIDE DEF r
  <2> QED BY <1>1, <2>1, <2>2, <2>3, <2>4, SessionStep
<1> QED BY <1>2, <1>3 DEF DeleteFlush

-----------------------------------------------------------------------------
(* Commits *)

\* A commit closes its session; the others keep their requests.
LEMMA CommitCloses ==
  ASSUME Inv, NEW s \in Sessions, Finish(s)
  PROVE  /\ \A t \in Sessions : session'[t] = IF t = s THEN Idle ELSE session[t]
         /\ session' \in [Sessions -> {Idle} \cup Requests]
         /\ \A t, q \in Sessions : t # q => Apart(session'[t], session'[q])
<1>1. /\ \A t \in Sessions : session'[t] = IF t = s THEN Idle ELSE session[t]
      /\ session' \in [Sessions -> {Idle} \cup Requests]
  BY DEF Finish, Become, Inv, TypeOK
<1>2. ASSUME NEW t \in Sessions, NEW q \in Sessions, t # q
      PROVE  Apart(session'[t], session'[q])
  <2>1. session[t] \in {Idle} \cup Requests /\ session[q] \in {Idle} \cup Requests
    BY DEF Inv, TypeOK
  <2>2. Apart(session[t], session[q])
    BY <1>2 DEF Inv
  <2> QED BY <1>1, <1>2, <2>1, <2>2, IdleIsApart
<1> QED BY <1>1, <1>2

\* The inserted row is queued and unassigned; nobody worked on that id.
LEMMA SubmitCommitInv ==
  ASSUME Inv, NEW s \in Sessions, SubmitCommit(s)
  PROVE  Inv'
<1> DEFINE j == session[s].job
           row == session[s].row
<1>1. j \in Jobs /\ row \in JobRow
  BY RequestFields DEF Inv, SubmitCommit
<1>2. /\ job[j].status = "absent"
      /\ row.status = QUEUED /\ row.assigned = NULL
  BY DEF Inv, RequestOK, SubmitCommit
<1>3. Finish(s) /\ UNCHANGED <<node, user, audit, ledger>>
  BY DEF SubmitCommit
<1>4. CASE job' = job
  BY <1>3, <1>4, FinishStep DEF records
<1>5. CASE job' = [job EXCEPT ![j] = row]
  <2>1. \A k \in Jobs : job'[k] = IF k = j THEN row ELSE job[k]
    BY <1>1, <1>5 DEF Inv, TypeOK
  <2>2. TypeOK'
    BY <1>1, <1>3, <1>5, CommitCloses DEF Inv, TypeOK
  <2>3. ASSUME NEW t \in Sessions PROVE RequestOK(session[t])'
    <3>1. CASE t = s
      BY <1>3, <3>1, CommitCloses DEF RequestOK, Idle
    <3>2. CASE t # s
      <4>1. session'[t] = session[t]
        BY <1>3, <3>2, CommitCloses
      <4>2. RequestOK(session[t]) /\ Apart(session[t], session[s])
        BY <3>2 DEF Inv
      <4>3. session[t].pc = "submit" => session[t].job # j
        BY <4>2 DEF Apart, SubmitCommit
      <4>4. session[t].pc \in Locking \cup {"cancel", "complete", "billing"} =>
              session[t].job \in Jobs /\ session[t].job # j
        BY <1>2, <4>2, RequestFields DEF Inv, RequestOK, Locking, QUEUED
      <4>5. session[t].pc = "submit" => session[t].job \in Jobs
        BY RequestFields DEF Inv
      <4> QED BY <1>3, <2>1, <4>1, <4>2, <4>3, <4>4, <4>5
              DEF RequestOK, Locking, Exists
    <3> QED BY <3>1, <3>2
  <2>4. \A t, q \in Sessions : t # q => Apart(session[t], session[q])'
    BY <1>3, CommitCloses DEF Apart
  <2>5. Unstarted' /\ AssignedOnce' /\ AssignmentFits'
    BY <1>1, <1>2, <1>3, <2>1
       DEF Inv, Unstarted, AssignedOnce, AssignmentFits, Exists
  <2> QED BY <2>2, <2>3, <2>4, <2>5 DEF Inv
<1> QED BY <1>4, <1>5 DEF SubmitCommit
\* The claim that commits is alone on its row, which was never assigned before.
LEMMA ClaimCommitInv ==
  ASSUME Inv, NEW s \in Sessions, ClaimCommit(s)
  PROVE  Inv'
<1> DEFINE j == session[s].job
           n == session[s].node
<1>1. j \in Jobs /\ n \in Nodes
  BY RequestFields DEF Inv, ClaimCommit, Locking
<1>2. /\ job[j].status = QUEUED /\ Exists(n)
      /\ job[j].gpus <= Capacity[n] /\ job[j].preferred \in {NULL, n}
  BY DEF Inv, RequestOK, ClaimCommit
<1>3. job[j] \in JobRow /\ audit[j].assigned = 0
  BY <1>1, <1>2 DEF Inv, TypeOK, AbsentJob, Unstarted, QUEUED
<1>4. /\ Finish(s) /\ UNCHANGED <<node, user, ledger>>
      /\ job' = [job EXCEPT ![j] = [job[j] EXCEPT !.status = RUNNING, !.assigned = n]]
      /\ audit' = [audit EXCEPT ![j] = [audit[j] EXCEPT !.assigned = @ + 1]]
  BY DEF ClaimCommit
<1> DEFINE row == [job[j] EXCEPT !.status = RUNNING, !.assigned = n]
<1>5. /\ row \in JobRow /\ row.status = RUNNING /\ row.assigned = n
      /\ row.gpus = job[j].gpus /\ row.preferred = job[j].preferred
  BY <1>1, <1>3 DEF JobRow, JobStatuses
<1> HIDE DEF row
<1>6. \A k \in Jobs : /\ job'[k] = IF k = j THEN row ELSE job[k]
                     /\ audit'[k].assigned = IF k = j THEN 1 ELSE audit[k].assigned
  BY <1>1, <1>3, <1>4 DEF Inv, TypeOK, row
<1>7. TypeOK'
  <2>1. job' \in [Jobs -> {AbsentJob} \cup JobRow]
    BY <1>4, <1>5 DEF Inv, TypeOK, row
  <2>2. audit[j] \in [assigned : Nat, ended : Nat, billed : Nat]
    BY <1>1 DEF Inv, TypeOK
  <2>3. [audit[j] EXCEPT !.assigned = @ + 1] \in
          [assigned : Nat, ended : Nat, billed : Nat]
    BY <2>2
  <2>4. audit' \in [Jobs -> [assigned : Nat, ended : Nat, billed : Nat]]
    BY <1>1, <1>4, <2>3 DEF Inv, TypeOK
  <2> QED BY <1>4, <2>1, <2>4, CommitCloses DEF Inv, TypeOK
<1>8. ASSUME NEW t \in Sessions PROVE RequestOK(session[t])'
  <2>1. CASE t = s
    BY <1>4, <2>1, CommitCloses DEF RequestOK, Idle
  <2>2. CASE t # s
    <3>1. session'[t] = session[t]
      BY <1>4, <2>2, CommitCloses
    <3>2. RequestOK(session[t]) /\ Apart(session[t], session[s])
      BY <2>2 DEF Inv
    <3>3. session[t].pc \in {"locked", "claimed"} => session[t].job # j
      BY <3>2 DEF Apart, ClaimCommit, Locking
    <3>4. session[t].pc = "submit" => session[t].job # j
      BY <1>2, <3>2 DEF RequestOK, QUEUED
    <3>5. session[t].pc \in Locking \cup {"submit", "cancel", "complete", "billing"} =>
            session[t].job \in Jobs
      BY RequestFields DEF Inv
    <3> QED BY <1>4, <1>5, <1>6, <3>1, <3>2, <3>3, <3>4, <3>5
            DEF RequestOK, Locking, Exists, RUNNING
  <2> QED BY <2>1, <2>2
<1>9. \A t, q \in Sessions : t # q => Apart(session[t], session[q])'
  BY <1>4, CommitCloses DEF Apart
<1>10. Unstarted'
  BY <1>5, <1>6 DEF Inv, Unstarted, QUEUED, RUNNING
<1>11. AssignedOnce'
  BY <1>6 DEF Inv, AssignedOnce
<1>12. AssignmentFits'
  <2>1. AssignmentFits
    BY DEF Inv
  <2> HIDE DEF j
  <2> QED BY <2>1, <1>2, <1>4, <1>5, <1>6 DEF AssignmentFits, Exists
<1> QED BY <1>7, <1>8, <1>9, <1>10, <1>11, <1>12 DEF Inv

\* A commit that ends job j, or flags it, and leaves its assignment alone.
LEMMA OutcomeStep ==
  ASSUME Inv, NEW s \in Sessions, Finish(s), UNCHANGED node,
         session[s].pc \in {"cancelling", "completing"},
         NEW row \in JobRow,
         job' = [job EXCEPT ![session[s].job] = row],
         row.assigned = job[session[s].job].assigned,
         row.gpus = job[session[s].job].gpus,
         row.preferred = job[session[s].job].preferred,
         row.status \in {"absent", QUEUED} => row.status = job[session[s].job].status,
         user' \in [Users -> UserRow],
         audit' \in [Jobs -> [assigned : Nat, ended : Nat, billed : Nat]],
         \A k \in Jobs : audit'[k].assigned = audit[k].assigned,
         ledger' \in [Users -> [granted : Nat, charged : Nat]]
  PROVE  Inv'
<1> DEFINE j == session[s].job
<1>1. j \in Jobs
  BY RequestFields DEF Inv, Locking
<1>2. \A k \in Jobs : job'[k] = IF k = j THEN row ELSE job[k]
  BY <1>1 DEF Inv, TypeOK
<1>3. job[j].status # "absent"
  BY DEF Inv, RequestOK
<1>4. row.status # "absent"
  BY DEF JobRow, JobStatuses, TerminalStatuses, QUEUED, RUNNING, COMPLETED,
         FAILED, CANCELLED
<1>5. TypeOK'
  <2>1. job' \in [Jobs -> {AbsentJob} \cup JobRow]
    BY <1>1 DEF Inv, TypeOK
  <2>2. node' \in [Nodes -> NodeStatuses]
    BY DEF Inv, TypeOK
  <2>3. session' \in [Sessions -> {Idle} \cup Requests]
    BY CommitCloses
  <2> QED BY <2>1, <2>2, <2>3 DEF TypeOK
<1>6. ASSUME NEW t \in Sessions PROVE RequestOK(session[t])'
  <2>1. CASE t = s
    BY <2>1, CommitCloses DEF RequestOK, Idle
  <2>2. CASE t # s
    <3>1. session'[t] = session[t]
      BY <2>2, CommitCloses
    <3>2. RequestOK(session[t]) /\ Apart(session[t], session[s])
      BY <2>2 DEF Inv
    <3>3. session[t].pc \in {"locked", "claimed"} => session[t].job # j
      BY <3>2 DEF Apart, Locking
    <3>4. session[t].pc = "submit" => session[t].job # j
      BY <1>3, <3>2 DEF RequestOK
    <3>5. session[t].pc \in Locking \cup {"submit", "cancel", "complete", "billing"} =>
            session[t].job \in Jobs
      BY RequestFields DEF Inv
    <3> QED BY <1>2, <1>4, <3>1, <3>2, <3>3, <3>4, <3>5
            DEF RequestOK, Locking, Exists
  <2> QED BY <2>1, <2>2
<1>7. \A t, q \in Sessions : t # q => Apart(session[t], session[q])'
  BY CommitCloses DEF Apart
<1>8. Unstarted' /\ AssignedOnce' /\ AssignmentFits'
  BY <1>1, <1>2 DEF Inv, Unstarted, AssignedOnce, AssignmentFits, Exists
<1> QED BY <1>5, <1>6, <1>7, <1>8 DEF Inv

\* Both ends of _cancel_or_request_cancel are outcomes of a job that exists.
LEMMA CancelCommitInv ==
  ASSUME Inv, NEW s \in Sessions, CancelCommitQueued(s) \/ CancelCommitRunning(s)
  PROVE  Inv'
<1> DEFINE j == session[s].job
<1>1. session[s].pc = "cancelling" /\ j \in Jobs
  BY RequestFields DEF Inv, CancelCommitQueued, CancelCommitRunning, Locking
<1>2. job[j] \in JobRow
  BY <1>1 DEF Inv, TypeOK, RequestOK, AbsentJob
<1>3. UNCHANGED <<node, user, ledger>> /\ Finish(s)
  BY DEF CancelCommitQueued, CancelCommitRunning
<1>4. CASE CancelCommitQueued(s)
  <2> DEFINE row == [job[j] EXCEPT !.status = CANCELLED]
  <2>1. /\ row \in JobRow /\ row.status = CANCELLED
        /\ row.assigned = job[j].assigned /\ row.gpus = job[j].gpus
        /\ row.preferred = job[j].preferred
    BY <1>2 DEF JobRow, JobStatuses, TerminalStatuses
  <2>2. job' = [job EXCEPT ![j] = row]
    BY <1>4 DEF CancelCommitQueued
  <2>3. audit' = [audit EXCEPT ![j].ended = @ + 1]
    BY <1>4 DEF CancelCommitQueued
  <2>4. /\ audit' \in [Jobs -> [assigned : Nat, ended : Nat, billed : Nat]]
        /\ \A k \in Jobs : audit'[k].assigned = audit[k].assigned
    <3>1. audit[j] \in [assigned : Nat, ended : Nat, billed : Nat]
      BY <1>1 DEF Inv, TypeOK
    <3> DEFINE new == [audit[j] EXCEPT !.ended = @ + 1]
    <3>2. /\ new \in [assigned : Nat, ended : Nat, billed : Nat]
          /\ new.assigned = audit[j].assigned
      BY <3>1
    <3>3. audit' = [audit EXCEPT ![j] = new]
      BY <2>3
    <3> HIDE DEF new
    <3> QED BY <1>1, <3>2, <3>3 DEF Inv, TypeOK
  <2>5. user' \in [Users -> UserRow] /\ ledger' \in [Users -> [granted : Nat, charged : Nat]]
    BY <1>3 DEF Inv, TypeOK
  <2> HIDE DEF row
  <2> QED BY <1>1, <1>3, <2>1, <2>2, <2>4, <2>5, OutcomeStep
          DEF QUEUED, CANCELLED
<1>5. CASE CancelCommitRunning(s)
  <2> DEFINE row == [job[j] EXCEPT !.cancel = TRUE]
  <2>1. /\ row \in JobRow /\ row.status = job[j].status
        /\ row.assigned = job[j].assigned /\ row.gpus = job[j].gpus
        /\ row.preferred = job[j].preferred
    BY <1>2 DEF JobRow
  <2>2. job' = [job EXCEPT ![j] = row] /\ UNCHANGED audit
    BY <1>5 DEF CancelCommitRunning
  <2>3. /\ audit' \in [Jobs -> [assigned : Nat, ended : Nat, billed : Nat]]
        /\ \A k \in Jobs : audit'[k].assigned = audit[k].assigned
    BY <2>2 DEF Inv, TypeOK
  <2>4. user' \in [Users -> UserRow] /\ ledger' \in [Users -> [granted : Nat, charged : Nat]]
    BY <1>3 DEF Inv, TypeOK
  <2> HIDE DEF row
  <2> QED BY <1>1, <1>3, <2>1, <2>2, <2>3, <2>4, OutcomeStep
<1> QED BY <1>4, <1>5

\* complete_job's commit is an outcome too, with a bill.
LEMMA CompleteCommitInv ==
  ASSUME Inv, NEW s \in Sessions, CompleteCommit(s)
  PROVE  Inv'
<1> DEFINE j == session[s].job
           u == session[s].user
           target == session[s].target
           billed == session[s].billed
           seen == session[s].credits
           row == [job[j] EXCEPT !.status = target]
<1>1. session[s].pc = "completing"
  BY DEF CompleteCommit
<1>2. /\ j \in Jobs /\ u \in Users /\ target \in TerminalStatuses
      /\ billed \in Nat /\ seen \in Nat
  BY <1>1, RequestFields DEF Inv, Locking
<1>3. job[j] \in JobRow
  BY <1>1, <1>2 DEF Inv, TypeOK, RequestOK, AbsentJob
<1>4. /\ row \in JobRow /\ row.status = target
      /\ row.assigned = job[j].assigned /\ row.gpus = job[j].gpus
      /\ row.preferred = job[j].preferred
  BY <1>2, <1>3 DEF JobRow, JobStatuses
<1>5. target \notin {"absent", QUEUED}
  BY <1>2 DEF TerminalStatuses, QUEUED, COMPLETED, FAILED, CANCELLED
<1>6. job' = [job EXCEPT ![j] = row] /\ Finish(s) /\ UNCHANGED node
  BY DEF CompleteCommit
<1>7. user' \in [Users -> UserRow]
  <2>1. Deduct(seen, billed) \in Nat
    BY <1>2 DEF Deduct
  <2> QED BY <1>2, <2>1 DEF CompleteCommit, Inv, TypeOK, UserRow
<1>8. /\ audit' \in [Jobs -> [assigned : Nat, ended : Nat, billed : Nat]]
      /\ \A k \in Jobs : audit'[k].assigned = audit[k].assigned
  <2>1. audit' = [audit EXCEPT ![j].ended = @ + 1, ![j].billed = @ + 1]
    BY DEF CompleteCommit
  <2>2. audit \in [Jobs -> [assigned : Nat, ended : Nat, billed : Nat]]
    BY DEF Inv, TypeOK
  <2> HIDE DEF j
  <2> QED BY <1>2, <2>1, <2>2
<1>9. ledger' \in [Users -> [granted : Nat, charged : Nat]]
  <2>1. ledger' = [ledger EXCEPT ![u].charged = @ + billed]
    BY DEF CompleteCommit
  <2>2. ledger \in [Users -> [granted : Nat, charged : Nat]]
    BY DEF Inv, TypeOK
  <2> HIDE DEF u, billed
  <2>3. ledger[u].charged + billed \in Nat
    BY <1>2, <2>2
  <2> QED BY <1>2, <2>1, <2>2, <2>3
<1> HIDE DEF row
<1> QED BY <1>1, <1>4, <1>5, <1>6, <1>7, <1>8, <1>9, OutcomeStep

\* Commits that leave jobs, their audit trail and the existence of nodes alone.
LEMMA AsideStep ==
  ASSUME Inv, NEW s \in Sessions, Finish(s), UNCHANGED <<job, audit>>,
         node' \in [Nodes -> NodeStatuses],
         \A n \in Nodes : Exists(n) => node'[n] # "deleted",
         user' \in [Users -> UserRow],
         ledger' \in [Users -> [granted : Nat, charged : Nat]]
  PROVE  Inv'
<1>1. TypeOK'
  BY CommitCloses DEF Inv, TypeOK
<1>2. ASSUME NEW t \in Sessions PROVE RequestOK(session[t])'
  <2>1. CASE t = s
    BY <2>1, CommitCloses DEF RequestOK, Idle
  <2>2. CASE t # s
    <3>1. session'[t] = session[t] /\ RequestOK(session[t])
      BY <2>2, CommitCloses DEF Inv
    <3>2. session[t].pc = "claimed" => session[t].node \in Nodes
      BY RequestFields DEF Inv
    <3> QED BY <3>1, <3>2 DEF RequestOK, Exists
  <2> QED BY <2>1, <2>2
<1>3. \A t, q \in Sessions : t # q => Apart(session[t], session[q])'
  BY CommitCloses DEF Apart
<1>4. Unstarted' /\ AssignedOnce'
  BY DEF Inv, Unstarted, AssignedOnce
<1>5. AssignmentFits'
  <2>1. \A j \in Jobs : job[j].assigned \in Nodes \cup {NULL}
    BY DEF Inv, TypeOK, JobRow, AbsentJob
  <2> QED BY <2>1 DEF Inv, AssignmentFits, Exists
<1> QED BY <1>1, <1>2, <1>3, <1>4, <1>5 DEF Inv

\* approve_user and suspend_user write the user row only.
LEMMA AdminCommitInv ==
  ASSUME Inv, NEW s \in Sessions, ApproveCommit(s) \/ SuspendCommit(s)
  PROVE  Inv'
<1> DEFINE u == session[s].user
<1>1. /\ u \in Users /\ session[s].seen \in UserRow
      /\ session[s].pc = "approve" => session[s].credits \in Nat
  BY RequestFields DEF Inv, ApproveCommit, SuspendCommit
<1>2. user[u] \in UserRow
  BY <1>1 DEF Inv, TypeOK
<1>3. Finish(s) /\ UNCHANGED <<job, node, audit>>
  BY DEF ApproveCommit, SuspendCommit
<1>4. user' \in [Users -> UserRow]
  <2>1. CASE ApproveCommit(s)
    BY <1>1, <1>2, <2>1 DEF ApproveCommit, Inv, TypeOK, UserRow
  <2>2. CASE SuspendCommit(s)
    BY <1>1, <1>2, <2>2 DEF SuspendCommit, Inv, TypeOK, UserRow
  <2> QED BY <2>1, <2>2
<1>5. ledger' \in [Users -> [granted : Nat, charged : Nat]]
  BY <1>1 DEF ApproveCommit, SuspendCommit, Inv, TypeOK
<1>6. node' \in [Nodes -> NodeStatuses] /\ \A n \in Nodes : Exists(n) => node'[n] # "deleted"
  BY <1>3 DEF Inv, TypeOK, Exists
<1> QED BY <1>3, <1>4, <1>5, <1>6, AsideStep

\* set_status never brings a deleted node back.
LEMMA DrainCommitInv ==
  ASSUME Inv, NEW s \in Sessions, DrainCommit(s) \/ UndrainCommit(s)
  PROVE  Inv'
<1>1. PICK status \in {"draining", "online"} : SetNodeStatus(s, status)
  BY DEF DrainCommit, UndrainCommit
<1>2. session[s].node \in Nodes
  BY RequestFields DEF Inv, DrainCommit, UndrainCommit
<1>3. Finish(s) /\ UNCHANGED <<job, user, audit, ledger>>
  BY <1>1 DEF SetNodeStatus
<1>4. node' \in [Nodes -> NodeStatuses] /\ \A n \in Nodes : Exists(n) => node'[n] # "deleted"
  BY <1>1, <1>2 DEF SetNodeStatus, Inv, TypeOK, Exists, NodeStatuses
<1>5. user' \in [Users -> UserRow] /\ ledger' \in [Users -> [granted : Nat, charged : Nat]]
  BY <1>3 DEF Inv, TypeOK
<1> QED BY <1>3, <1>4, <1>5, AsideStep

\* The node that goes has no claim under way, and no job keeps its name.
LEMMA DeleteCommitInv ==
  ASSUME Inv, NEW s \in Sessions, DeleteCommit(s)
  PROVE  Inv'
<1> DEFINE n == session[s].node
           kept(j) == IF job[j].assigned = n THEN NULL ELSE job[j].assigned
           pin(j) == IF job[j].preferred = n THEN NULL ELSE job[j].preferred
<1>1. n \in Nodes /\ session[s].pc = "deleting"
  BY RequestFields DEF Inv, DeleteCommit
<1>2. /\ node' = [node EXCEPT ![n] = "deleted"]
      /\ Finish(s) /\ UNCHANGED <<user, audit, ledger>>
  BY DEF DeleteCommit
<1>3. /\ DOMAIN job' = Jobs
      /\ \A j \in Jobs : job'[j] = [job[j] EXCEPT !.assigned = kept(j), !.preferred = pin(j)]
  BY DEF DeleteCommit
<1> USE DEF n
<1>4. ASSUME NEW j \in Jobs
      PROVE  /\ job'[j] \in {AbsentJob} \cup JobRow
             /\ job'[j].status = job[j].status /\ job'[j].gpus = job[j].gpus
             /\ job'[j].assigned = kept(j)
             /\ job'[j].preferred = pin(j)
  <2>1. job[j] \in {AbsentJob} \cup JobRow
    BY DEF Inv, TypeOK
  <2>2. CASE job[j] = AbsentJob
    <3>1. kept(j) = NULL /\ pin(j) = NULL
      BY <2>2 DEF AbsentJob
    <3> HIDE DEF kept, pin
    <3>2. ASSUME NEW r \in [status : {"absent"}, user : {NULL}, gpus : {0},
                            preferred : {NULL}, assigned : {NULL}, cancel : {FALSE}]
          PROVE  r = AbsentJob
      BY DEF AbsentJob
    <3>3. job'[j] = AbsentJob
      <4>1. job[j] \in [status : {"absent"}, user : {NULL}, gpus : {0},
                        preferred : {NULL}, assigned : {NULL}, cancel : {FALSE}]
        BY <2>2 DEF AbsentJob
      <4>2. job'[j] \in [status : {"absent"}, user : {NULL}, gpus : {0},
                         preferred : {NULL}, assigned : {NULL}, cancel : {FALSE}]
        BY <1>3, <3>1, <4>1
      <4> QED BY <3>2, <4>2
    <3> QED BY <2>2, <3>1, <3>3 DEF AbsentJob
  <2>3. CASE job[j] \in JobRow
    <3>1. kept(j) \in Nodes \cup {NULL} /\ pin(j) \in Nodes \cup {NULL}
      BY <2>3 DEF JobRow
    <3> HIDE DEF kept, pin
    <3> QED BY <1>3, <2>3, <3>1 DEF JobRow
  <2> QED BY <2>1, <2>2, <2>3
<1>5. TypeOK'
  <2>1. job' \in [Jobs -> {AbsentJob} \cup JobRow]
    <3>1. job' = [j \in Jobs |-> job'[j]]
      BY <1>3 DEF DeleteCommit
    <3> QED BY <1>4, <3>1
  <2>2. node' \in [Nodes -> NodeStatuses]
    BY <1>1, <1>2 DEF Inv, TypeOK, NodeStatuses
  <2> QED BY <1>2, <2>1, <2>2, CommitCloses DEF Inv, TypeOK
<1>6. \A m \in Nodes : m # n /\ Exists(m) => Exists(m)'
  BY <1>1, <1>2 DEF Exists, Inv, TypeOK
<1>7. ASSUME NEW t \in Sessions PROVE RequestOK(session[t])'
  <2>1. CASE t = s
    <3>1. session'[t] = Idle
      BY <1>2, <2>1, CommitCloses
    <3> QED BY <3>1 DEF RequestOK, Idle, Locking
  <2>2. CASE t # s
    <3>1. session'[t] = session[t]
      BY <1>2, <2>2, CommitCloses
    <3>2. RequestOK(session[t]) /\ Apart(session[t], session[s])
      BY <2>2 DEF Inv
    <3>3. session[t].pc = "claimed" => session[t].node \in Nodes \ {n}
      BY <1>1, <3>2, RequestFields DEF Apart, Inv
    <3>4. session[t].pc \in Locking \cup {"submit", "cancel", "complete", "billing"} =>
            session[t].job \in Jobs
      BY RequestFields DEF Inv
    <3> HIDE DEF n
    <3> QED BY <1>4, <1>6, <3>1, <3>2, <3>3, <3>4 DEF RequestOK, Locking
  <2> QED BY <2>1, <2>2
<1>8. \A t, q \in Sessions : t # q => Apart(session[t], session[q])'
  BY <1>2, CommitCloses DEF Apart
<1>9. Unstarted' /\ AssignedOnce'
  BY <1>2, <1>4 DEF Inv, Unstarted, AssignedOnce
<1>10. AssignmentFits'
  <2> SUFFICES ASSUME NEW j \in Jobs, job'[j].assigned # NULL
               PROVE  /\ Exists(job[j].assigned)'
                      /\ job'[j].gpus <= Capacity[job'[j].assigned]
                      /\ job'[j].preferred \in {NULL, job'[j].assigned}
                      /\ job'[j].assigned = job[j].assigned
    BY DEF AssignmentFits, Exists
  <2>1. job'[j].assigned = job[j].assigned /\ job[j].assigned # n /\ job[j].assigned # NULL
    BY <1>4
  <2>2. job[j].assigned \in Nodes
    BY <2>1 DEF Inv, TypeOK, JobRow, AbsentJob
  <2>3. /\ Exists(job[j].assigned) /\ job[j].gpus <= Capacity[job[j].assigned]
        /\ job[j].preferred \in {NULL, job[j].assigned}
    BY <2>1 DEF Inv, AssignmentFits
  <2> QED BY <1>4, <1>6, <2>1, <2>2, <2>3
<1> QED BY <1>5, <1>7, <1>8, <1>9, <1>10 DEF Inv

\* Every step a handler takes after its first read, one lemma each.
LEMMA ContinueInv ==
  ASSUME Inv, NEW s \in Sessions, Continue(s)
  PROVE  Inv'
BY SubmitCommitInv, ClaimCheckRunningInv, ClaimSelectInv, ClaimFlushInv,
   ClaimCommitInv, CancelFlushInv, CancelCommitInv, CompleteReadUserInv,
   CompleteFlushInv, CompleteCommitInv, AdminCommitInv, DrainCommitInv,
   DeleteCheckRunningInv, DeleteFlushInv, DeleteCommitInv
   DEF Continue

\* The commits that write a job or its audit log.
Writes(s) ==
  \/ SubmitCommit(s) \/ ClaimCommit(s) \/ CancelCommitQueued(s)
  \/ CancelCommitRunning(s) \/ CompleteCommit(s) \/ DeleteCommit(s)

\* All other steps leave both alone.
LEMMA OnlyCommitsWrite ==
  ASSUME NEW s \in Sessions,
         Request(s) \/ Continue(s) \/ DeadlockVictim(s) \/ Abort(s)
  PROVE  Writes(s) \/ UNCHANGED <<job, audit>>
<1> DEFINE Rests == UNCHANGED <<job, audit>>
<1> SUFFICES Writes(s) \/ Rests
  OBVIOUS
<1>1. ASSUME NEW j \in Jobs, NEW u \in Users, SubmitCheck(s, u, j) PROVE Rests
  BY <1>1 DEF SubmitCheck, records
<1>2. ASSUME NEW u \in Users, AdminRead(s, u) PROVE Rests
  BY <1>2 DEF AdminRead, records
<1>3. ASSUME NEW n \in Nodes, ClaimAuth(s, n) \/ DeleteRead(s, n) PROVE Rests
  BY <1>3 DEF ClaimAuth, DeleteRead, records
<1>4. ASSUME NEW n \in Nodes, DrainRead(s, n) \/ UndrainRead(s, n) PROVE Rests
  BY <1>4 DEF DrainRead, UndrainRead, records
<1>5. ASSUME NEW j \in Jobs, CancelRead(s, j) PROVE Rests
  BY <1>5 DEF CancelRead, records
<1>6. ASSUME NEW j \in Jobs, CompleteRead(s, j) PROVE Rests
  BY <1>6 DEF CompleteRead, records
<1>7. CASE DeadlockVictim(s) \/ Abort(s)
  BY <1>7 DEF DeadlockVictim, Abort, records
<1>8. CASE ClaimCheckRunning(s) \/ ClaimSelect(s) \/ ClaimFlush(s)
  BY <1>8 DEF ClaimCheckRunning, ClaimSelect, ClaimFlush, records
<1>9. CASE CancelFlush(s) \/ CompleteReadUser(s) \/ CompleteFlush(s)
  BY <1>9 DEF CancelFlush, CompleteReadUser, CompleteFlush, records
<1>10. CASE ApproveCommit(s) \/ SuspendCommit(s)
  BY <1>10 DEF ApproveCommit, SuspendCommit
<1>11. CASE DrainCommit(s) \/ UndrainCommit(s)
  BY <1>11 DEF DrainCommit, UndrainCommit, SetNodeStatus
<1>12. CASE DeleteCheckRunning(s) \/ DeleteFlush(s)
  BY <1>12 DEF DeleteCheckRunning, DeleteFlush, records
<1> HIDE DEF Rests
<1>13. CASE Request(s)
  BY <1>13, <1>1, <1>2, <1>3, <1>4, <1>5, <1>6 DEF Request
<1>14. CASE Continue(s)
  BY <1>14, <1>8, <1>9, <1>10, <1>11, <1>12 DEF Continue, Writes
<1> QED BY <1>7, <1>13, <1>14

\* What one step may do to the status of a job that has ended: the four commits
\* that write jobs.status, one by one.  The others leave the column alone.
LEMMA EndedStep ==
  ASSUME Inv, Next, NEW j \in Jobs, job[j].status \in TerminalStatuses
  PROVE  job'[j].status \in TerminalStatuses
<1> PICK s \in Sessions : Request(s) \/ Continue(s) \/ DeadlockVictim(s) \/ Abort(s)
  BY DEF Next
<1>1. /\ job \in [Jobs -> {AbsentJob} \cup JobRow]
      /\ job[j].status \notin {"absent", QUEUED, RUNNING}
      /\ job[j] \in JobRow
  BY DEF Inv, TypeOK, AbsentJob, TerminalStatuses, QUEUED, RUNNING, COMPLETED, FAILED, CANCELLED
<1>2. CASE UNCHANGED job
  BY <1>2
<1>3. CASE SubmitCommit(s)
  <2>1. session[s].job \in Jobs /\ job[session[s].job].status = "absent"
    BY <1>3, RequestFields DEF Inv, RequestOK, SubmitCommit
  <2>2. session[s].job # j
    BY <1>1, <2>1
  <2> QED BY <1>1, <1>3, <2>1, <2>2 DEF SubmitCommit
<1>4. CASE ClaimCommit(s)
  <2>1. session[s].job \in Jobs /\ job[session[s].job].status = QUEUED
    BY <1>4, RequestFields DEF Inv, RequestOK, ClaimCommit, Locking
  <2>2. session[s].job # j
    BY <1>1, <2>1
  <2> QED BY <1>1, <1>4, <2>1, <2>2 DEF ClaimCommit
<1>5. CASE CancelCommitQueued(s)
  <2>1. job' = [job EXCEPT ![session[s].job].status = CANCELLED]
    BY <1>5 DEF CancelCommitQueued
  <2> QED BY <1>1, <2>1 DEF JobRow, TerminalStatuses
<1>6. CASE CancelCommitRunning(s)
  <2>1. job' = [job EXCEPT ![session[s].job].cancel = TRUE]
    BY <1>6 DEF CancelCommitRunning
  <2> QED BY <1>1, <2>1 DEF JobRow
<1>7. CASE CompleteCommit(s)
  <2>1. job' = [job EXCEPT ![session[s].job].status = session[s].target]
    BY <1>7 DEF CompleteCommit
  <2>2. session[s].target \in TerminalStatuses
    BY <1>7, RequestFields DEF Inv, CompleteCommit
  <2> QED BY <1>1, <2>1, <2>2 DEF JobRow
<1>8. CASE DeleteCommit(s)
  <2> DEFINE n == session[s].node
             kept == IF job[j].assigned = n THEN NULL ELSE job[j].assigned
             pin == IF job[j].preferred = n THEN NULL ELSE job[j].preferred
  <2>1. job'[j] = [job[j] EXCEPT !.assigned = kept, !.preferred = pin]
    BY <1>8 DEF DeleteCommit
  <2> HIDE DEF kept, pin
  <2> QED BY <1>1, <2>1 DEF JobRow
<1> QED
  BY <1>2, <1>3, <1>4, <1>5, <1>6, <1>7, <1>8, OnlyCommitsWrite DEF Writes

-----------------------------------------------------------------------------
(* The theorems *)

\* The invariant is inductive: arrivals, handlers, deadlock victims, rollbacks.
LEMMA NextInv == Inv /\ [Next]_vars => Inv'
<1> SUFFICES ASSUME Inv, [Next]_vars PROVE Inv'
  OBVIOUS
<1>1. CASE UNCHANGED vars
  BY <1>1 DEF vars, Inv, TypeOK, RequestOK, Apart, Unstarted, AssignedOnce,
              AssignmentFits, Exists
<1>2. ASSUME NEW s \in Sessions,
             Request(s) \/ Continue(s) \/ DeadlockVictim(s) \/ Abort(s)
      PROVE  Inv'
  <2>1. CASE DeadlockVictim(s) \/ Abort(s)
    BY <2>1, FinishStep DEF DeadlockVictim, Abort
  <2> QED BY <1>2, <2>1, RequestInv, ContinueInv
<1> QED BY <1>1, <1>2 DEF Next

\* Whatever the requests in flight, what each of them relies on until its commit
\* (a locked row, a referenced node, a job that exists) stays true.
THEOREM Invariance == Spec => []Inv
BY InitInv, NextInv, PTL DEF Spec

\* Rows, counters and requests keep their types; no balance is ever negative.
THEOREM TypeCorrect == Spec => []TypeOK
<1>1. Inv => TypeOK
  BY DEF Inv
<1> QED BY <1>1, Invariance, PTL

\* FOR UPDATE SKIP LOCKED at work: no job is handed out twice, however many
\* agents race for it.
THEOREM NeverAssignedTwice == Spec => []AssignedOnce
<1>1. Inv => AssignedOnce
  BY DEF Inv
<1> QED BY <1>1, Invariance, PTL

\* A job is only ever assigned to a node that exists, is large enough, and is
\* the one it was pinned to.
THEOREM AlwaysFits == Spec => []AssignmentFits
<1>1. Inv => AssignmentFits
  BY DEF Inv
<1> QED BY <1>1, Invariance, PTL
\* No claim, cancel or completion in flight when a job ended ever takes it back
\* to the queue or onto a node.
THEOREM EndedForGood == Spec => EndedStaysEnded
<1>1. Inv /\ [Next]_vars =>
        [\A j \in Jobs : job[j].status \in TerminalStatuses
                           => job'[j].status \in TerminalStatuses]_vars
  BY EndedStep
<1> QED BY <1>1, Invariance, PTL DEF Spec, EndedStaysEnded

-----------------------------------------------------------------------------
(* Who waits for whom *)

\* The next statement of s waits for what t has locked: the negations of what the
\* flushes and commits ask before they go on.
Waits(s, t) ==
  LET r == session[s]
  IN  \/ r.pc \in {"cancel", "billing"} /\ HoldsJob(t, r.job)
      \/ /\ r.pc = "billing"
         /\ Deduct(r.credits, r.billed) # r.credits
         /\ HoldsUser(t, r.user)
      \/ /\ r.pc = "approve"
         /\ r.seen # [status |-> "active", credits |-> r.credits]
         /\ HoldsUser(t, r.user)
      \/ /\ r.pc = "suspend"
         /\ r.seen.status # "suspended"
         /\ HoldsUser(t, r.user)
      \/ /\ r.pc = "submit"
         /\ r.row.preferred # NULL
         /\ Deletes(t, r.row.preferred)
      \/ r.pc \in {"locked", "drain", "undrain", "unused"} /\ Deletes(t, r.node)
      \/ r.pc = "unused" /\ RefersToNode(t, r.node)
      \/ /\ r.pc = "deleting"
         /\ \E j \in Jobs : References(j, r.node) /\ HoldsJob(t, j)

\* Who waits for nobody has what its next statement asks of the locks.
LEMMA WaitsAreTheGuards ==
  ASSUME NEW s \in Sessions
  PROVE  LET r == session[s]
         IN  (\A t \in Sessions : ~Waits(s, t)) <=>
               /\ r.pc \in {"cancel", "billing"} => JobIsFree(r.job)
               /\ r.pc = "billing" /\ Deduct(r.credits, r.billed) # r.credits
                    => UserIsFree(r.user)
               /\ r.pc = "approve" /\ r.seen # [status |-> "active", credits |-> r.credits]
                    => UserIsFree(r.user)
               /\ r.pc = "suspend" /\ r.seen.status # "suspended" => UserIsFree(r.user)
               /\ r.pc = "submit" /\ r.row.preferred # NULL => NodeIsFree(r.row.preferred)
               /\ r.pc \in {"locked", "drain", "undrain", "unused"} => NodeIsFree(r.node)
               /\ r.pc = "unused" => \A t \in Sessions : ~RefersToNode(t, r.node)
               /\ r.pc = "deleting" =>
                    \A j \in Jobs : References(j, r.node) => JobIsFree(j)
<1> DEFINE r == session[s]
           Granted ==
             /\ r.pc \in {"cancel", "billing"} => JobIsFree(r.job)
             /\ r.pc = "billing" /\ Deduct(r.credits, r.billed) # r.credits
                  => UserIsFree(r.user)
             /\ r.pc = "approve" /\ r.seen # [status |-> "active", credits |-> r.credits]
                  => UserIsFree(r.user)
             /\ r.pc = "suspend" /\ r.seen.status # "suspended" => UserIsFree(r.user)
             /\ r.pc = "submit" /\ r.row.preferred # NULL => NodeIsFree(r.row.preferred)
             /\ r.pc \in {"locked", "drain", "undrain", "unused"} => NodeIsFree(r.node)
             /\ r.pc = "unused" => \A t \in Sessions : ~RefersToNode(t, r.node)
             /\ r.pc = "deleting" =>
                  \A j \in Jobs : References(j, r.node) => JobIsFree(j)
<1>1. ASSUME \A t \in Sessions : ~Waits(s, t) PROVE Granted
  BY <1>1, Zenon DEF Waits, JobIsFree, UserIsFree, NodeIsFree
<1>2. ASSUME Granted, NEW t \in Sessions PROVE ~Waits(s, t)
  BY <1>2, Zenon DEF Waits, JobIsFree, UserIsFree, NodeIsFree
<1> QED BY <1>1, <1>2, Zenon

\* A deadlock: each session of S waits for another of them.
Deadlocked(S) == S # {} /\ \A s \in S : \E t \in S : Waits(s, t)

\* Whatever is deadlocked, two of the sessions wait for each other, and the one ends
\* a claim and the other the deletion of its node: the pair DeadlockVictim resolves.
DeadlocksArePairs ==
  \A S \in SUBSET Sessions :
    Deadlocked(S) =>
      \E s, t \in S :
        /\ WaitsFor(s, t) /\ WaitsFor(t, s)
        /\ session[s].pc = "deleting" /\ session[t].pc = "locked"
        /\ session[s].node = session[t].node
        /\ job[session[t].job].preferred = session[s].node

\* Most locks are taken by the last statement before a commit, which waits for
\* nothing: whoever is waited for and waits too is a claim or a deletion.
LEMMA WaitersThatHold ==
  ASSUME NEW s \in Sessions, NEW t \in Sessions, NEW u \in Sessions,
         Waits(s, t), Waits(t, u)
  PROVE  /\ session[t].pc \in {"locked", "deleting"}
         /\ session[s].pc = "deleting" => session[t].pc = "locked"
         /\ session[t].pc = "locked" => session[u].pc = "deleting"
BY DEF Waits, HoldsJob, HoldsUser, RefersToNode, Deletes

\* A queued job is named by the node it is pinned to alone; a claim that holds it is
\* that node's.  So whoever waits for a deletion of the node is waited for by it.
LEMMA PinnedToTheSame ==
  ASSUME Inv, NEW s \in Sessions, NEW t \in Sessions,
         session[s].pc = "deleting", session[t].pc = "locked", Waits(s, t)
  PROVE  /\ WaitsFor(s, t) /\ WaitsFor(t, s)
         /\ session[s].node = session[t].node
         /\ job[session[t].job].preferred = session[s].node
<1> DEFINE n == session[s].node
           k == session[t].job
<1>1. References(k, n) /\ k \in Jobs /\ HoldsJob(t, k)
  BY DEF Waits, HoldsJob
<1>2. n \in Nodes /\ n # NULL
  BY RequestFields, ConstantsAssumption DEF Inv
<1>3. job[k].status = QUEUED /\ job[k].preferred \in {NULL, session[t].node}
  BY DEF Inv, RequestOK
<1>4. job[k].assigned = NULL
  BY <1>1, <1>3 DEF Inv, Unstarted
<1>5. job[k].preferred = n /\ session[t].node = n
  BY <1>1, <1>2, <1>3, <1>4 DEF References
<1> QED BY <1>1, <1>5 DEF WaitsFor, Deletes

\* Every chain of waits comes to a deletion, and to the claim it waits for.
LEMMA InvPairs == Inv => DeadlocksArePairs
<1> SUFFICES ASSUME Inv, NEW S \in SUBSET Sessions, Deadlocked(S)
             PROVE  \E s, t \in S :
                      /\ WaitsFor(s, t) /\ WaitsFor(t, s)
                      /\ session[s].pc = "deleting" /\ session[t].pc = "locked"
                      /\ session[s].node = session[t].node
                      /\ job[session[t].job].preferred = session[s].node
  BY DEF DeadlocksArePairs
<1>1. PICK a, b, c, d, e \in S :
        Waits(a, b) /\ Waits(b, c) /\ Waits(c, d) /\ Waits(d, e)
  BY DEF Deadlocked
<1>2. CASE session[b].pc = "deleting"
  <2>1. session[c].pc = "locked"
    BY <1>1, <1>2, WaitersThatHold
  <2> QED BY <1>1, <1>2, <2>1, PinnedToTheSame
<1>3. CASE session[b].pc = "locked"
  <2>1. session[c].pc = "deleting" /\ session[d].pc = "locked"
    BY <1>1, <1>3, WaitersThatHold
  <2> QED BY <1>1, <2>1, PinnedToTheSame
<1> QED BY <1>1, <1>2, <1>3, WaitersThatHold

\* However many requests are in flight, and however long a chain of row locks and
\* foreign keys, PostgreSQL has one kind of deadlock to break: a claim that has locked
\* a job pinned to its node, and the deletion of that node.
THEOREM DeadlocksAreBroken == Spec => []DeadlocksArePairs
BY InvPairs, Invariance, PTL

-----------------------------------------------------------------------------
(* What overlapping requests can do at most *)

\* One step changes one session.
LEMMA OneMoves ==
  ASSUME Inv, NEW s \in Sessions,
         Request(s) \/ Continue(s) \/ DeadlockVictim(s) \/ Abort(s)
  PROVE  \A t \in Sessions \ {s} : session'[t] = session[t]
<1> DEFINE others == \A t \in Sessions \ {s} : session'[t] = session[t]
<1> SUFFICES others
  OBVIOUS
<1>0. session \in [Sessions -> {Idle} \cup Requests]
  BY DEF Inv, TypeOK
<1>1. CASE Request(s)
  <2>1. ASSUME NEW j \in Jobs, NEW u \in Users, SubmitCheck(s, u, j) PROVE others
    <3>1. PICK row \in {NewJob(u, g, p) : g \in GpuCounts, p \in Nodes \cup {NULL}} :
            Become(s, [pc |-> "submit", job |-> j, row |-> row])
      BY <2>1 DEF SubmitCheck
    <3> QED BY <1>0, <3>1 DEF Become
  <2>2. ASSUME NEW u \in Users, AdminRead(s, u) PROVE others
    BY <1>0, <2>2 DEF AdminRead, Become
  <2>3. ASSUME NEW n \in Nodes, ClaimAuth(s, n) \/ DeleteRead(s, n) PROVE others
    BY <1>0, <2>3 DEF ClaimAuth, DeleteRead, Become
  <2>4. ASSUME NEW n \in Nodes, DrainRead(s, n) \/ UndrainRead(s, n) PROVE others
    BY <1>0, <2>4 DEF DrainRead, UndrainRead, Become
  <2>5. ASSUME NEW j \in Jobs, CancelRead(s, j) PROVE others
    BY <1>0, <2>5 DEF CancelRead, Become
  <2>6. ASSUME NEW j \in Jobs, CompleteRead(s, j) PROVE others
    BY <1>0, <2>6 DEF CompleteRead, Become
  <2> HIDE DEF others
  <2> QED BY <1>1, <2>1, <2>2, <2>3, <2>4, <2>5, <2>6 DEF Request
<1>2. CASE Continue(s)
  <2>1. Finish(s) => others
    BY <1>0 DEF Finish, Become
  <2>2. \A pc : Advance(s, pc) => others
    BY <1>0 DEF Advance
  <2>3. CASE ClaimSelect(s)
    <3>1. CASE Finish(s)
      BY <2>1, <3>1
    <3>2. CASE \E j \in Jobs :
                 Become(s, [pc |-> "locked", node |-> session[s].node, job |-> j])
      BY <1>0, <3>2 DEF Become
    <3> HIDE DEF others
    <3> QED BY <2>3, <3>1, <3>2 DEF ClaimSelect
  <2>4. CASE CompleteReadUser(s)
    BY <1>0, <2>4 DEF CompleteReadUser, Become
  <2> HIDE DEF others
  <2>5. CASE SubmitCommit(s) \/ ApproveCommit(s) \/ SuspendCommit(s)
    BY <2>5, <2>1 DEF SubmitCommit, ApproveCommit, SuspendCommit
  <2>6. CASE DrainCommit(s) \/ UndrainCommit(s)
    BY <2>6, <2>1 DEF DrainCommit, UndrainCommit, SetNodeStatus
  <2>7. CASE ClaimCheckRunning(s) \/ ClaimFlush(s)
    BY <2>7, <2>1, <2>2 DEF ClaimCheckRunning, ClaimFlush
  <2>8. CASE CancelFlush(s) \/ CancelCommitQueued(s) \/ CancelCommitRunning(s)
    BY <2>8, <2>1, <2>2 DEF CancelFlush, CancelCommitQueued, CancelCommitRunning
  <2>9. CASE ClaimCommit(s) \/ CompleteCommit(s)
    BY <2>9, <2>1 DEF ClaimCommit, CompleteCommit
  <2>10. CASE DeleteCheckRunning(s) \/ DeleteFlush(s) \/ DeleteCommit(s)
    BY <2>10, <2>1, <2>2 DEF DeleteCheckRunning, DeleteFlush, DeleteCommit
  <2>11. CASE CompleteFlush(s)
    BY <2>11, <2>2 DEF CompleteFlush
  <2> QED BY <1>2, <2>3, <2>4, <2>5, <2>6, <2>7, <2>8, <2>9, <2>10, <2>11
         DEF Continue
<1>3. CASE DeadlockVictim(s) \/ Abort(s)
  BY <1>0, <1>3 DEF DeadlockVictim, Abort, Finish, Become
<1> QED BY <1>1, <1>2, <1>3

\* The completions of a job in flight.
Completing(j) ==
  {s \in Sessions : /\ session[s].pc \in {"complete", "billing", "completing"}
                    /\ session[s].job = j}

\* The claims of a node in flight that have found it free.
Claiming(n) ==
  {s \in Sessions : /\ session[s].pc \in {"free", "locked", "claimed"}
                    /\ session[s].node = n}

RunningOn(n) == {j \in Jobs : job[j].status = RUNNING /\ job[j].assigned = n}

\* A job is billed by completions that were in flight together when it ended.
BillsOf(j) ==
  /\ job[j].status \notin TerminalStatuses => audit[j].billed = 0
  /\ audit[j].billed + Cardinality(Completing(j)) <= Cardinality(Sessions)

\* A node runs jobs of claims that were in flight together when it was free.
RunsOf(n) == Cardinality(RunningOn(n)) + Cardinality(Claiming(n)) <= Cardinality(Sessions)

Counted == (\A j \in Jobs : BillsOf(j)) /\ (\A n \in Nodes : RunsOf(n))

\* Sessions are finite in number, and so are those that do one thing.
LEMMA SomeSessions ==
  ASSUME IsFiniteSet(Sessions), NEW T \in SUBSET Sessions
  PROVE  /\ IsFiniteSet(T) /\ Cardinality(T) \in Nat
         /\ Cardinality(Sessions) \in Nat
         /\ Cardinality(T) <= Cardinality(Sessions)
BY FS_Subset, FS_CardinalityType

\* A node runs finitely many jobs.
LEMMA SomeJobs ==
  ASSUME NEW T \in SUBSET Jobs
  PROVE  IsFiniteSet(T) /\ Cardinality(T) \in Nat
<1>1. IsFiniteSet(Jobs)
  BY ConstantsAssumption, FS_Interval DEF Jobs
<1> QED BY <1>1, FS_Subset, FS_CardinalityType

\* The request a session goes on with, whatever it does.
LEMMA HandlerMoves ==
  ASSUME Inv, NEW s \in Sessions, Continue(s)
  PROVE  LET r == session[s]
             q == session'[s]
         IN  /\ q.pc \in {"billing", "completing"} =>
                  r.pc \in {"complete", "billing"} /\ q.job = r.job
             /\ q.pc \in {"locked", "claimed"} =>
                  r.pc \in {"free", "locked"} /\ q.node = r.node
             /\ q.pc = "free" =>
                  ClaimCheckRunning(s) /\ ~HasRunningJob(r.node) /\ q.node = r.node
             /\ q.pc # "complete"
<1> DEFINE r == session[s]
           q == session'[s]
<1>0. session \in [Sessions -> {Idle} \cup Requests] /\ r \in {Idle} \cup Requests
  BY DEF Inv, TypeOK
<1>1. CASE q = Idle
  BY <1>1 DEF Idle
<1>2. CASE ClaimCheckRunning(s)
  <2>1. q = Idle \/ (q = [r EXCEPT !.pc = "free"] /\ ~HasRunningJob(r.node))
    BY <1>0, <1>2 DEF ClaimCheckRunning, Finish, Become, Advance
  <2>2. r \in [pc : {"claim"}, node : Nodes]
    BY <1>0, <1>2 DEF ClaimCheckRunning, Requests, Idle
  <2> QED BY <1>1, <1>2, <2>1, <2>2
<1>3. CASE ClaimSelect(s)
  <2>1. CASE Finish(s)
    BY <1>0, <1>1, <2>1 DEF Finish, Become
  <2>2. ASSUME NEW j \in Jobs, Become(s, [pc |-> "locked", node |-> r.node, job |-> j])
        PROVE  q.pc = "locked" /\ q.node = r.node
    BY <1>0, <2>2 DEF Become
  <2>3. r.pc = "free"
    BY <1>3 DEF ClaimSelect
  <2> QED BY <1>3, <2>1, <2>2, <2>3 DEF ClaimSelect
<1>4. CASE ClaimFlush(s)
  <2>1. q = Idle \/ q = [r EXCEPT !.pc = "claimed"]
    BY <1>0, <1>4 DEF ClaimFlush, Finish, Become, Advance
  <2>2. r \in [pc : {"locked"}, node : Nodes, job : Jobs]
    BY <1>0, <1>4 DEF ClaimFlush, Requests, Idle
  <2> QED BY <1>1, <2>1, <2>2
<1>5. CASE CancelFlush(s)
  <2>1. q = [r EXCEPT !.pc = "cancelling"]
    BY <1>0, <1>5 DEF CancelFlush, Advance
  <2>2. r \in [pc : {"cancel"}, job : Jobs, seen : {QUEUED, RUNNING}]
    BY <1>0, <1>5 DEF CancelFlush, Requests, Idle
  <2> QED BY <2>1, <2>2
<1>6. CASE CompleteReadUser(s)
  <2>1. r.pc = "complete" /\ q.pc = "billing" /\ q.job = r.job
    BY <1>0, <1>6 DEF CompleteReadUser, Become
  <2> QED BY <2>1
<1>7. CASE CompleteFlush(s)
  <2>1. q = [r EXCEPT !.pc = "completing"] /\ r.pc = "billing"
    BY <1>0, <1>7 DEF CompleteFlush, Advance
  <2>2. r \in [pc : {"billing", "completing"}, job : Jobs, user : Users,
               target : TerminalStatuses, billed : Nat, credits : Nat]
    BY <1>0, <2>1 DEF Requests, Idle
  <2> QED BY <2>1, <2>2
<1>8. CASE DeleteCheckRunning(s) \/ DeleteFlush(s)
  <2>1. q = Idle \/ \E pc \in {"unused", "deleting"} : q = [r EXCEPT !.pc = pc]
    BY <1>0, <1>8 DEF DeleteCheckRunning, DeleteFlush, Finish, Become, Advance
  <2>2. r \in [pc : {"delete", "unused"}, node : Nodes]
    BY <1>0, <1>8 DEF DeleteCheckRunning, DeleteFlush, Requests, Idle
  <2> QED BY <1>1, <2>1, <2>2
<1> QED
  BY <1>0, <1>1, <1>2, <1>3, <1>4, <1>5, <1>6, <1>7, <1>8
     DEF Continue, SubmitCommit, ClaimCommit, CancelCommitQueued, CancelCommitRunning,
         CompleteCommit, ApproveCommit, SuspendCommit, DrainCommit, UndrainCommit,
         SetNodeStatus, DeleteCommit, Finish, Become

\* A completion that is new in flight has read a job that has not ended; a claim
\* that has found its node free has found it free just now.
LEMMA WhoIsNew ==
  ASSUME Inv, NEW s \in Sessions,
         Request(s) \/ Continue(s) \/ DeadlockVictim(s) \/ Abort(s)
  PROVE  /\ \A j \in Jobs :
              \/ Completing(j)' \in SUBSET Completing(j)
              \/ job[j].status \notin TerminalStatuses /\ UNCHANGED records
         /\ \A n \in Nodes :
              \/ Claiming(n)' \in SUBSET Claiming(n)
              \/ ~HasRunningJob(n) /\ UNCHANGED records
<1> DEFINE r == session[s]
           q == session'[s]
<1>1. \A t \in Sessions \ {s} : session'[t] = session[t]
  BY OneMoves
<1>2. CASE Request(s)
  <2>1. /\ UNCHANGED records
        /\ q.pc \notin {"billing", "completing", "free", "locked", "claimed"}
        /\ q.pc = "complete" =>
             q.job \in Jobs /\ job[q.job].status \notin TerminalStatuses
    <3>1. session \in [Sessions -> {Idle} \cup Requests]
      BY DEF Inv, TypeOK
    <3>2. ASSUME NEW j \in Jobs, CompleteRead(s, j)
          PROVE  /\ UNCHANGED records /\ q.pc = "complete" /\ q.job = j
                 /\ job[j].status \notin TerminalStatuses
      <4>1. /\ UNCHANGED records /\ q.pc = "complete" /\ q.job = j
            /\ \E target : AssertTransition(job[j].status, target)
        BY <3>1, <3>2 DEF CompleteRead, Become
      <4>2. job[j].status \in {QUEUED, RUNNING}
        BY <4>1 DEF AssertTransition, AllowedTransitions
      <4> QED BY <4>1, <4>2
              DEF TerminalStatuses, QUEUED, RUNNING, COMPLETED, FAILED, CANCELLED
    <3>3. ASSUME ~\E j \in Jobs : CompleteRead(s, j)
          PROVE  /\ UNCHANGED records
                 /\ q.pc \notin {"complete", "billing", "completing", "free", "locked",
                                 "claimed"}
      BY <1>2, <3>1, <3>3 DEF Request, SubmitCheck, AdminRead, ClaimAuth, DrainRead,
                              UndrainRead, DeleteRead, CancelRead, Become
    <3> QED BY <3>2, <3>3
  <2>2. \A n \in Nodes : Claiming(n)' \in SUBSET Claiming(n)
    BY <1>1, <2>1 DEF Claiming
  <2>3. ASSUME NEW j \in Jobs
        PROVE  \/ Completing(j)' \in SUBSET Completing(j)
               \/ job[j].status \notin TerminalStatuses /\ UNCHANGED records
    <3>1. CASE q.pc = "complete" /\ q.job = j
      BY <2>1, <3>1
    <3>2. CASE ~(q.pc = "complete" /\ q.job = j)
      BY <1>1, <2>1, <3>2 DEF Completing
    <3> QED BY <3>1, <3>2
  <2> QED BY <2>2, <2>3
<1>3. CASE Continue(s)
  <2>1. \A j \in Jobs : Completing(j)' \in SUBSET Completing(j)
    BY <1>1, <1>3, HandlerMoves DEF Completing
  <2>2. ASSUME NEW n \in Nodes
        PROVE  \/ Claiming(n)' \in SUBSET Claiming(n)
               \/ ~HasRunningJob(n) /\ UNCHANGED records
    <3>1. CASE q.pc = "free" /\ q.node = n
      BY <1>3, <3>1, HandlerMoves DEF ClaimCheckRunning
    <3>2. CASE ~(q.pc = "free" /\ q.node = n)
      BY <1>1, <1>3, <3>2, HandlerMoves DEF Claiming
    <3> QED BY <3>1, <3>2
  <2> QED BY <2>1, <2>2
<1>4. CASE DeadlockVictim(s) \/ Abort(s)
  <2>1. q = Idle
    BY <1>4 DEF DeadlockVictim, Abort, Finish, Become, Inv, TypeOK
  <2> QED BY <1>1, <2>1 DEF Idle, Completing, Claiming
<1> QED BY <1>2, <1>3, <1>4

\* A job is on a node where it did not run before by the commit of a claim only.
LEMMA WhoStarts ==
  ASSUME Inv, NEW s \in Sessions,
         Request(s) \/ Continue(s) \/ DeadlockVictim(s) \/ Abort(s),
         ~ClaimCommit(s), NEW n \in Nodes
  PROVE  RunningOn(n)' \in SUBSET RunningOn(n)
<1> SUFFICES ASSUME NEW j \in Jobs, job'[j].status = RUNNING, job'[j].assigned = n
             PROVE  job[j].status = RUNNING /\ job[j].assigned = n
  BY DEF RunningOn
<1>1. job \in [Jobs -> {AbsentJob} \cup JobRow]
  BY DEF Inv, TypeOK
<1>2. CASE UNCHANGED job
  BY <1>2
<1>3. CASE SubmitCommit(s)
  <2>1. session[s].row.status = QUEUED
    BY <1>3 DEF Inv, RequestOK, SubmitCommit
  <2> QED BY <1>1, <1>3, <2>1 DEF SubmitCommit, QUEUED, RUNNING
<1>4. CASE CancelCommitQueued(s)
  <2>1. job' = [job EXCEPT ![session[s].job].status = CANCELLED]
    BY <1>4 DEF CancelCommitQueued
  <2> QED BY <1>1, <2>1 DEF JobRow, AbsentJob, RUNNING, CANCELLED
<1>5. CASE CancelCommitRunning(s)
  <2>1. job' = [job EXCEPT ![session[s].job].cancel = TRUE]
    BY <1>5 DEF CancelCommitRunning
  <2> QED BY <1>1, <2>1 DEF JobRow, AbsentJob
<1>6. CASE CompleteCommit(s)
  <2>1. job' = [job EXCEPT ![session[s].job].status = session[s].target]
    BY <1>6 DEF CompleteCommit
  <2>2. session[s].target \in TerminalStatuses
    BY <1>6, RequestFields DEF Inv, CompleteCommit
  <2>3. session[s].target # RUNNING
    BY <2>2 DEF TerminalStatuses, RUNNING, COMPLETED, FAILED, CANCELLED
  <2> QED BY <1>1, <2>1, <2>3 DEF JobRow, AbsentJob
<1>7. CASE DeleteCommit(s)
  <2> DEFINE m == session[s].node
             kept == IF job[j].assigned = m THEN NULL ELSE job[j].assigned
             pin == IF job[j].preferred = m THEN NULL ELSE job[j].preferred
  <2>1. job'[j] = [job[j] EXCEPT !.assigned = kept, !.preferred = pin]
    BY <1>7 DEF DeleteCommit
  <2>2. kept = NULL \/ kept = job[j].assigned
    OBVIOUS
  <2> HIDE DEF kept, pin
  <2>3. job'[j].assigned = kept /\ job'[j].status = job[j].status
    BY <1>1, <2>1 DEF JobRow, AbsentJob
  <2> QED BY <2>2, <2>3, ConstantsAssumption
<1> QED
  BY <1>2, <1>3, <1>4, <1>5, <1>6, <1>7, OnlyCommitsWrite DEF Writes

\* Empty tables count nothing.
LEMMA InitCounted ==
  ASSUME IsFiniteSet(Sessions)
  PROVE  Init => Counted
<1> SUFFICES ASSUME Init PROVE Counted
  OBVIOUS
<1>1. ASSUME NEW j \in Jobs PROVE BillsOf(j)
  <2>1. Completing(j) = {} /\ audit[j].billed = 0
    BY <1>1 DEF Init, Idle, Completing
  <2> QED BY <2>1, FS_EmptySet, SomeSessions DEF BillsOf
<1>2. ASSUME NEW n \in Nodes PROVE RunsOf(n)
  <2>1. Claiming(n) = {} /\ RunningOn(n) = {}
    BY <1>2 DEF Init, Idle, Claiming, RunningOn, AbsentJob, RUNNING
  <2> QED BY <2>1, FS_EmptySet, SomeSessions DEF RunsOf
<1> QED BY <1>1, <1>2 DEF Counted

\* Each completion that commits bills once, and is then no longer in flight.
LEMMA BillsKept ==
  ASSUME IsFiniteSet(Sessions), Inv, NEW s \in Sessions,
         Request(s) \/ Continue(s) \/ DeadlockVictim(s) \/ Abort(s),
         NEW j \in Jobs, BillsOf(j)
  PROVE  BillsOf(j)'
<1>1. /\ Completing(j) \in SUBSET Sessions /\ Completing(j)' \in SUBSET Sessions
      /\ audit[j].billed \in Nat
  BY DEF Completing, Inv, TypeOK
<1>2. /\ Cardinality(Completing(j)) \in Nat /\ Cardinality(Completing(j)') \in Nat
      /\ Cardinality(Completing(j)') <= Cardinality(Sessions)
      /\ Cardinality(Sessions) \in Nat
  BY <1>1, SomeSessions
<1>3. job[j].status \in TerminalStatuses => job'[j].status \in TerminalStatuses
  BY EndedStep DEF Next
<1>4. CASE CompleteCommit(s) /\ session[s].job = j
  <2>1. session' = [session EXCEPT ![s] = Idle] /\ session[s].pc = "completing"
    BY <1>4 DEF CompleteCommit, Finish, Become
  <2>2. Completing(j)' = Completing(j) \ {s} /\ s \in Completing(j)
    BY <1>4, <2>1 DEF Completing, Idle, Inv, TypeOK
  <2>3. Cardinality(Completing(j)') = Cardinality(Completing(j)) - 1
    BY <1>1, <2>2, SomeSessions, FS_RemoveElement
  <2>4. audit'[j].billed = audit[j].billed + 1
    BY <1>4 DEF CompleteCommit, Inv, TypeOK
  <2>5. job'[j].status = session[s].target /\ session[s].target \in TerminalStatuses
    <3>1. session[s].target \in TerminalStatuses
      BY <1>4, RequestFields DEF CompleteCommit, Inv
    <3>2. job' = [job EXCEPT ![j].status = session[s].target]
      BY <1>4 DEF CompleteCommit
    <3>3. job \in [Jobs -> {AbsentJob} \cup JobRow]
      BY DEF Inv, TypeOK
    <3> QED BY <3>1, <3>2, <3>3 DEF AbsentJob, JobRow
  <2> QED BY <1>1, <1>2, <2>3, <2>4, <2>5 DEF BillsOf
<1>5. CASE ~(CompleteCommit(s) /\ session[s].job = j)
  <2>1. audit'[j].billed = audit[j].billed
    <3>1. audit \in [Jobs -> [assigned : Nat, ended : Nat, billed : Nat]]
      BY DEF Inv, TypeOK
    <3>2. CASE UNCHANGED audit
      BY <3>2
    <3>3. CASE ClaimCommit(s)
      <4>1. audit' = [audit EXCEPT ![session[s].job].assigned = @ + 1]
        BY <3>3 DEF ClaimCommit
      <4> QED BY <3>1, <4>1
    <3>4. CASE CancelCommitQueued(s)
      <4>1. audit' = [audit EXCEPT ![session[s].job].ended = @ + 1]
        BY <3>4 DEF CancelCommitQueued
      <4> QED BY <3>1, <4>1
    <3>5. CASE CompleteCommit(s)
      <4>1. \E k \in {session[s].job} :
              audit' = [audit EXCEPT ![k].ended = @ + 1, ![k].billed = @ + 1]
        BY <3>5 DEF CompleteCommit
      <4> QED BY <1>5, <3>1, <3>5, <4>1
    <3>6. CASE SubmitCommit(s) \/ CancelCommitRunning(s) \/ DeleteCommit(s)
      BY <3>2, <3>6 DEF SubmitCommit, CancelCommitRunning, DeleteCommit
    <3> QED BY <3>2, <3>3, <3>4, <3>5, <3>6, OnlyCommitsWrite DEF Writes
  <2>2. CASE Completing(j)' \in SUBSET Completing(j)
    <3>1. Cardinality(Completing(j)') <= Cardinality(Completing(j))
      BY <1>1, <2>2, SomeSessions, FS_Subset
    <3> QED BY <1>1, <1>2, <1>3, <2>1, <3>1 DEF BillsOf
  <2>3. CASE job[j].status \notin TerminalStatuses /\ UNCHANGED records
    <3>1. audit'[j].billed = 0
      BY <2>1, <2>3 DEF BillsOf
    <3> QED BY <1>2, <3>1 DEF BillsOf
  <2> QED BY <2>2, <2>3, WhoIsNew
<1> QED BY <1>4, <1>5

\* Each claim that commits starts one job, and is then no longer in flight.
LEMMA RunsKept ==
  ASSUME IsFiniteSet(Sessions), Inv, NEW s \in Sessions,
         Request(s) \/ Continue(s) \/ DeadlockVictim(s) \/ Abort(s),
         NEW n \in Nodes, RunsOf(n)
  PROVE  RunsOf(n)'
<1>1. /\ Claiming(n) \in SUBSET Sessions /\ Claiming(n)' \in SUBSET Sessions
      /\ RunningOn(n) \in SUBSET Jobs /\ RunningOn(n)' \in SUBSET Jobs
  BY DEF Claiming, RunningOn
<1>2. /\ Cardinality(Claiming(n)) \in Nat /\ Cardinality(Claiming(n)') \in Nat
      /\ Cardinality(Claiming(n)') <= Cardinality(Sessions)
      /\ Cardinality(Sessions) \in Nat
      /\ IsFiniteSet(RunningOn(n))
      /\ Cardinality(RunningOn(n)) \in Nat /\ Cardinality(RunningOn(n)') \in Nat
  BY <1>1, SomeSessions, SomeJobs
<1>3. CASE ClaimCommit(s) /\ session[s].node = n
  <2> DEFINE j == session[s].job
  <2>1. session' = [session EXCEPT ![s] = Idle] /\ session[s].pc = "claimed"
    BY <1>3 DEF ClaimCommit, Finish, Become
  <2>2. Claiming(n)' = Claiming(n) \ {s} /\ s \in Claiming(n)
    BY <1>3, <2>1 DEF Claiming, Idle, Inv, TypeOK
  <2>3. Cardinality(Claiming(n)') = Cardinality(Claiming(n)) - 1
    BY <1>1, <2>2, SomeSessions, FS_RemoveElement
  <2>4. RunningOn(n)' \in SUBSET (RunningOn(n) \cup {j})
    <3>1. job' = [job EXCEPT ![j].status = RUNNING, ![j].assigned = n]
      BY <1>3 DEF ClaimCommit
    <3> QED BY <3>1 DEF RunningOn, Inv, TypeOK
  <2>5. /\ IsFiniteSet(RunningOn(n) \cup {j})
        /\ Cardinality(RunningOn(n) \cup {j}) \in Nat
        /\ Cardinality(RunningOn(n) \cup {j}) <= Cardinality(RunningOn(n)) + 1
    <3> DEFINE R == RunningOn(n)
    <3>1. IsFiniteSet(R) /\ Cardinality(R) \in Nat
      BY <1>2
    <3> HIDE DEF R, j
    <3>2. Cardinality(R \cup {j}) = IF j \in R THEN Cardinality(R) ELSE Cardinality(R) + 1
      BY <3>1, FS_AddElement
    <3>3. IsFiniteSet(R \cup {j})
      BY <3>1, FS_AddElement
    <3>4. Cardinality(R \cup {j}) \in Nat /\ Cardinality(R \cup {j}) <= Cardinality(R) + 1
      BY <3>1, <3>2
    <3> QED BY <3>3, <3>4 DEF R
  <2>6. Cardinality(RunningOn(n)') <= Cardinality(RunningOn(n)) + 1
    <3>1. Cardinality(RunningOn(n)') <= Cardinality(RunningOn(n) \cup {j})
      BY <2>4, <2>5, FS_Subset
    <3> HIDE DEF j
    <3> QED BY <1>2, <2>5, <3>1
  <2> QED BY <1>2, <2>3, <2>6 DEF RunsOf
<1>4. CASE ~(ClaimCommit(s) /\ session[s].node = n)
  <2>1. RunningOn(n)' \in SUBSET RunningOn(n)
    <3>1. CASE ClaimCommit(s)
      <4> DEFINE j == session[s].job
                 m == session[s].node
      <4>1. job' = [job EXCEPT ![j].status = RUNNING, ![j].assigned = m] /\ m # n
        BY <1>4, <3>1 DEF ClaimCommit
      <4> HIDE DEF j, m
      <4>2. job \in [Jobs -> {AbsentJob} \cup JobRow]
        BY DEF Inv, TypeOK
      <4> QED BY <4>1, <4>2 DEF RunningOn, AbsentJob, JobRow
    <3> QED BY <3>1, WhoStarts
  <2>2. Cardinality(RunningOn(n)') <= Cardinality(RunningOn(n))
    BY <1>2, <2>1, FS_Subset
  <2>3. CASE Claiming(n)' \in SUBSET Claiming(n)
    <3>1. Cardinality(Claiming(n)') <= Cardinality(Claiming(n))
      BY <1>1, <2>3, SomeSessions, FS_Subset
    <3> QED BY <1>2, <2>2, <3>1 DEF RunsOf
  <2>4. CASE ~HasRunningJob(n) /\ UNCHANGED records
    <3>1. RunningOn(n)' = {}
      BY <2>4 DEF HasRunningJob, RunningOn, records
    <3> QED BY <1>2, <3>1, FS_EmptySet DEF RunsOf
  <2> QED BY <2>3, <2>4, WhoIsNew
<1> QED BY <1>3, <1>4

\* Every step keeps the counts.
LEMMA NextCounted ==
  ASSUME IsFiniteSet(Sessions)
  PROVE  Inv /\ Counted /\ [Next]_vars => Counted'
<1> SUFFICES ASSUME Inv, Counted, [Next]_vars PROVE Counted'
  OBVIOUS
<1>1. CASE UNCHANGED vars
  BY <1>1 DEF vars, Counted, BillsOf, RunsOf, Completing, Claiming, RunningOn
<1>2. CASE Next
  BY <1>2, BillsKept, RunsKept DEF Next, Counted
<1> QED BY <1>1, <1>2

\* complete_job reads the status without a lock, and may bill a job twice; but only
\* completions that were in flight together do.  A report that is repeated after the
\* end was committed is refused, so that no job is billed more often than requests
\* can overlap.
THEOREM BillsAreBounded ==
  ASSUME IsFiniteSet(Sessions)
  PROVE  Spec => [](\A j \in Jobs : audit[j].billed <= Cardinality(Sessions))
<1>1. Inv /\ Counted =>
        \A j \in Jobs : audit[j].billed <= Cardinality(Sessions)
  <2> SUFFICES ASSUME Inv, Counted, NEW j \in Jobs
               PROVE  audit[j].billed <= Cardinality(Sessions)
    OBVIOUS
  <2>1. BillsOf(j) /\ audit[j].billed \in Nat
    BY DEF Counted, Inv, TypeOK
  <2>2. Completing(j) \in SUBSET Sessions
    BY DEF Completing
  <2> QED BY <2>1, <2>2, SomeSessions DEF BillsOf
<1>2. QED
  BY <1>1, InitCounted, NextCounted, Invariance, PTL DEF Spec

\* claim_for_node asks for a running job without a lock, and may give a node two; but
\* only to claims that were in flight together.  An agent that claims after its answer
\* has never more jobs than its overlapping claims.
THEOREM RunsAreBounded ==
  ASSUME IsFiniteSet(Sessions)
  PROVE  Spec => [](\A n \in Nodes : Cardinality(RunningOn(n)) <= Cardinality(Sessions))
<1>1. Counted =>
        \A n \in Nodes : Cardinality(RunningOn(n)) <= Cardinality(Sessions)
  <2> SUFFICES ASSUME Counted, NEW n \in Nodes
               PROVE  Cardinality(RunningOn(n)) <= Cardinality(Sessions)
    OBVIOUS
  <2>1. RunsOf(n) /\ RunningOn(n) \in SUBSET Jobs /\ Claiming(n) \in SUBSET Sessions
    BY DEF Counted, RunningOn, Claiming
  <2> QED BY <2>1, SomeSessions, SomeJobs DEF RunsOf
<1>2. QED
  BY <1>1, InitCounted, NextCounted, Invariance, PTL DEF Spec
=============================================================================
