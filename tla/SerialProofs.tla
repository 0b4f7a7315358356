---------------------------- MODULE SerialProofs ----------------------------
(***************************************************************************)
(* What ControlPlane promises when requests are served one at a time, for   *)
(* any number of jobs, nodes and users: the balance, the nodes' one job, and *)
(* that the rows implement JobLifecycle.  With two sessions all of it fails. *)
(***************************************************************************)
EXTENDS ControlPlaneProofs

OneAtATime == \A s, t \in Sessions : s = t

\* What a handler has read is still true, since nobody else writes.
StillTrue(r) ==
  /\ r.pc \in {"claim", "free", "locked", "claimed"} => node[r.node] = "online"
  /\ r.pc \in {"free", "locked", "claimed", "unused", "deleting"} =>
       ~HasRunningJob(r.node)
  /\ r.pc \in {"cancel", "cancelling"} => job[r.job].status = r.seen
  /\ r.pc \in {"complete", "billing", "completing"} =>
       /\ job[r.job].status = RUNNING
       /\ job[r.job].cancel => r.target = CANCELLED
  /\ r.pc \in {"billing", "completing"} => r.credits = user[r.user].credits
  /\ r.pc \in {"approve", "suspend"} => r.seen = user[r.user]

SerialInv ==
  /\ Inv
  /\ \A s \in Sessions : StillTrue(session[s])
  /\ OneRunningPerNode
  /\ RunningHasNode
  /\ CreditsReconcile

-----------------------------------------------------------------------------
(* What a commit does to the jobs and to the bills of the audit log *)

SameStatus(j) ==
  job'[j].status = job[j].status /\ job'[j].assigned = job[j].assigned

SameBills == \A j \in Jobs : audit'[j].billed = audit[j].billed

\* Every other job is left as it is.
Only(j) == \A k \in Jobs \ {j} : SameStatus(k)

Submits(j) ==
  /\ job[j].status = "absent" /\ job'[j].status = QUEUED
  /\ job'[j].assigned = job[j].assigned
  /\ Only(j) /\ SameBills

Starts(j, n) ==
  /\ job[j].status = QUEUED /\ node[n] = "online" /\ ~HasRunningJob(n)
  /\ job'[j].status = RUNNING /\ job'[j].assigned = n
  /\ Only(j) /\ SameBills

Withdraws(j) ==
  /\ job[j].status = QUEUED /\ job'[j].status = CANCELLED
  /\ job'[j].assigned = job[j].assigned
  /\ Only(j) /\ SameBills

Ends(j, outcome) ==
  /\ job[j].status = RUNNING /\ job'[j].status = outcome
  /\ job[j].cancel => outcome = CANCELLED
  /\ job'[j].assigned = job[j].assigned
  /\ Only(j)
  /\ \A k \in Jobs :
       audit'[k].billed = IF k = j THEN audit[k].billed + 1 ELSE audit[k].billed

Forgets(n) ==
  /\ ~HasRunningJob(n)
  /\ \A j \in Jobs :
       /\ job'[j].status = job[j].status
       /\ job'[j].assigned = IF job[j].assigned = n THEN NULL ELSE job[j].assigned
  /\ SameBills

Rests == (\A j \in Jobs : SameStatus(j)) /\ SameBills

\* The steps the abstract life of a job has, and steps it does not see.
Effect ==
  \/ Rests
  \/ \E j \in Jobs : Submits(j) \/ Withdraws(j)
  \/ \E j \in Jobs, n \in Nodes : Starts(j, n)
  \/ \E j \in Jobs, outcome \in TerminalStatuses : Ends(j, outcome)
  \/ \E n \in Nodes : Forgets(n)

\* Nothing is written.
LEMMA RestsEffect ==
  ASSUME job' = job, audit' = audit
  PROVE  Effect
BY DEF Effect, Rests, SameStatus, SameBills

\* The commit of create inserts a job nobody holds.
LEMMA SubmitEffect ==
  ASSUME SerialInv, NEW s \in Sessions, SubmitCommit(s)
  PROVE  Effect
<1> DEFINE j == session[s].job
           row == session[s].row
<1>1. j \in Jobs /\ row \in JobRow
  BY RequestFields DEF SerialInv, Inv, SubmitCommit
<1>2. job[j].status = "absent" /\ row.status = QUEUED /\ row.assigned = NULL
  BY DEF SerialInv, Inv, RequestOK, SubmitCommit
<1>3. audit' = audit
  BY DEF SubmitCommit
<1>4. CASE job' = job
  BY <1>3, <1>4, RestsEffect
<1>5. CASE job' = [job EXCEPT ![j] = row]
  <2>1. \A k \in Jobs : job'[k] = IF k = j THEN row ELSE job[k]
    BY <1>1, <1>5 DEF SerialInv, Inv, TypeOK
  <2>2. job[j].assigned = NULL
    BY <1>1, <1>2 DEF SerialInv, Inv, Unstarted
  <2> HIDE DEF j, row
  <2>3. Submits(j)
    BY <1>1, <1>2, <1>3, <2>1, <2>2 DEF Submits, Only, SameStatus, SameBills
  <2> QED BY <1>1, <2>3 DEF Effect
<1> QED BY <1>4, <1>5 DEF SubmitCommit

\* A job that is queued or running has a row.
LEMMA HasRow ==
  ASSUME SerialInv, NEW j \in Jobs, job[j].status \in {QUEUED, RUNNING}
  PROVE  job[j] \in JobRow
BY DEF SerialInv, Inv, TypeOK, AbsentJob, QUEUED, RUNNING

\* What a claim checked when it arrived holds when it commits.
LEMMA ClaimEffect ==
  ASSUME SerialInv, NEW s \in Sessions, ClaimCommit(s)
  PROVE  Effect
<1> DEFINE j == session[s].job
           n == session[s].node
<1>1. j \in Jobs /\ n \in Nodes /\ session[s].pc = "claimed"
  BY RequestFields DEF SerialInv, Inv, ClaimCommit, Locking
<1>2. job[j].status = QUEUED
  BY <1>1 DEF SerialInv, Inv, RequestOK
<1>3. node[n] = "online" /\ ~HasRunningJob(n)
  BY <1>1 DEF SerialInv, StillTrue
<1>4. \A k \in Jobs : job'[k] =
        IF k = j THEN [job[j] EXCEPT !.status = RUNNING, !.assigned = n] ELSE job[k]
  BY <1>1 DEF ClaimCommit, SerialInv, Inv, TypeOK
<1>5. SameBills
  BY <1>1 DEF ClaimCommit, SerialInv, Inv, TypeOK, SameBills
<1> HIDE DEF j, n
<1>6. job'[j].status = RUNNING /\ job'[j].assigned = n
  <2>1. job[j] \in JobRow
    BY <1>1, <1>2, HasRow
  <2> QED BY <1>1, <1>4, <2>1 DEF JobRow
<1>7. Starts(j, n)
  BY <1>1, <1>2, <1>3, <1>4, <1>5, <1>6 DEF Starts, Only, SameStatus
<1> QED BY <1>1, <1>7 DEF Effect

\* A job read as queued is still queued when its cancellation commits.
LEMMA CancelEffect ==
  ASSUME SerialInv, NEW s \in Sessions, CancelCommitQueued(s) \/ CancelCommitRunning(s)
  PROVE  Effect
<1> DEFINE j == session[s].job
<1>1. j \in Jobs /\ session[s].pc = "cancelling"
  BY RequestFields DEF SerialInv, Inv, CancelCommitQueued, CancelCommitRunning, Locking
<1>2. job[j].status = session[s].seen
  BY <1>1 DEF SerialInv, StillTrue
<1>3. CASE CancelCommitQueued(s)
  <2>1. \A k \in Jobs :
          job'[k] = IF k = j THEN [job[j] EXCEPT !.status = CANCELLED] ELSE job[k]
    BY <1>1, <1>3 DEF CancelCommitQueued, SerialInv, Inv, TypeOK
  <2>2. SameBills
    BY <1>1, <1>3 DEF CancelCommitQueued, SerialInv, Inv, TypeOK, SameBills
  <2>3. job[j].status = QUEUED
    BY <1>2, <1>3 DEF CancelCommitQueued
  <2> HIDE DEF j
  <2>4. job'[j].status = CANCELLED /\ job'[j].assigned = job[j].assigned
    <3>1. job[j] \in JobRow
      BY <1>1, <2>3, HasRow
    <3> QED BY <1>1, <2>1, <3>1 DEF JobRow
  <2>5. Withdraws(j)
    BY <1>1, <2>1, <2>2, <2>3, <2>4 DEF Withdraws, Only, SameStatus
  <2> QED BY <1>1, <2>5 DEF Effect
<1>4. CASE CancelCommitRunning(s)
  <2>1. \A k \in Jobs :
          job'[k] = IF k = j THEN [job[j] EXCEPT !.cancel = TRUE] ELSE job[k]
    BY <1>1, <1>4 DEF CancelCommitRunning, SerialInv, Inv, TypeOK
  <2>2. job[j].status = RUNNING /\ audit' = audit
    BY <1>2, <1>4 DEF CancelCommitRunning
  <2> HIDE DEF j
  <2>3. SameStatus(j)
    <3>1. job[j] \in JobRow
      BY <1>1, <2>2, HasRow
    <3> QED BY <1>1, <2>1, <3>1 DEF JobRow, SameStatus
  <2>4. Rests
    BY <1>1, <2>1, <2>2, <2>3 DEF Rests, SameStatus, SameBills
  <2> QED BY <2>4 DEF Effect
<1> QED BY <1>3, <1>4

\* A job read as running is still running when its completion commits.
LEMMA CompleteEffect ==
  ASSUME SerialInv, NEW s \in Sessions, CompleteCommit(s)
  PROVE  Effect
<1> DEFINE j == session[s].job
           target == session[s].target
<1>1. j \in Jobs /\ target \in TerminalStatuses /\ session[s].pc = "completing"
  BY RequestFields DEF SerialInv, Inv, CompleteCommit, Locking
<1>2. job[j].status = RUNNING /\ (job[j].cancel => target = CANCELLED)
  BY <1>1 DEF SerialInv, StillTrue
<1>3. \A k \in Jobs :
        job'[k] = IF k = j THEN [job[j] EXCEPT !.status = target] ELSE job[k]
  BY <1>1 DEF CompleteCommit, SerialInv, Inv, TypeOK
<1>4. \A k \in Jobs :
        audit'[k].billed = IF k = j THEN audit[k].billed + 1 ELSE audit[k].billed
  BY <1>1 DEF CompleteCommit, SerialInv, Inv, TypeOK
<1> HIDE DEF j, target
<1>5. job'[j].status = target /\ job'[j].assigned = job[j].assigned
  <2>1. job[j] \in JobRow
    BY <1>1, <1>2, HasRow
  <2> QED BY <1>1, <1>3, <2>1 DEF JobRow
<1>6. Ends(j, target)
  BY <1>1, <1>2, <1>3, <1>4, <1>5 DEF Ends, Only, SameStatus
<1> QED BY <1>1, <1>6 DEF Effect

\* The node that is deleted runs no job, as when the handler asked.
LEMMA DeleteEffect ==
  ASSUME SerialInv, NEW s \in Sessions, DeleteCommit(s)
  PROVE  Effect
<1> DEFINE n == session[s].node
           kept(j) == IF job[j].assigned = n THEN NULL ELSE job[j].assigned
           pin(j) == IF job[j].preferred = n THEN NULL ELSE job[j].preferred
<1>1. n \in Nodes /\ session[s].pc = "deleting"
  BY RequestFields DEF SerialInv, Inv, DeleteCommit
<1>2. ~HasRunningJob(n)
  BY <1>1 DEF SerialInv, StillTrue
<1>3. \A j \in Jobs :
        job'[j] = [job[j] EXCEPT !.assigned = kept(j), !.preferred = pin(j)]
  BY DEF DeleteCommit
<1>4. audit' = audit
  BY DEF DeleteCommit
<1>5. ASSUME NEW j \in Jobs
      PROVE  job'[j].status = job[j].status /\ job'[j].assigned = kept(j)
  <2>1. job[j] \in {AbsentJob} \cup JobRow
    BY DEF SerialInv, Inv, TypeOK
  <2> HIDE DEF kept, pin
  <2> QED BY <1>3, <2>1 DEF JobRow, AbsentJob
<1>6. Forgets(n)
  BY <1>2, <1>4, <1>5 DEF Forgets, SameBills
<1> QED BY <1>1, <1>6 DEF Effect

\* What one step of the control plane does to the jobs.
LEMMA StepEffect ==
  ASSUME SerialInv, [Next]_vars
  PROVE  Effect
<1>1. CASE UNCHANGED vars
  BY <1>1, RestsEffect DEF vars
<1>2. ASSUME NEW s \in Sessions,
             Request(s) \/ Continue(s) \/ DeadlockVictim(s) \/ Abort(s)
      PROVE  Effect
  <2>1. CASE UNCHANGED <<job, audit>>
    BY <2>1, RestsEffect
  <2>2. CASE Writes(s)
    BY <2>2, SubmitEffect, ClaimEffect, CancelEffect, CompleteEffect, DeleteEffect
       DEF Writes
  <2> QED BY <1>2, <2>1, <2>2, OnlyCommitsWrite
<1> QED BY <1>1, <1>2 DEF Next

-----------------------------------------------------------------------------
(* The invariant *)

\* Every effect leaves a running job with a node, and a node with one.
LEMMA NodesKept ==
  ASSUME SerialInv, Effect
  PROVE  OneRunningPerNode' /\ RunningHasNode'
<1> USE DEF OneRunningPerNode, RunningHasNode, HasRunningJob, SameStatus
<1>1. OneRunningPerNode /\ RunningHasNode
  BY DEF SerialInv
<1>2. CASE Rests
  BY <1>1, <1>2 DEF Rests
<1>3. ASSUME NEW j \in Jobs, Submits(j) \/ Withdraws(j)
      PROVE  OneRunningPerNode' /\ RunningHasNode'
  <2>1. job'[j].status # RUNNING /\ Only(j)
    BY <1>3 DEF Submits, Withdraws, RUNNING, QUEUED, CANCELLED
  <2> QED BY <1>1, <2>1 DEF Only
<1>4. ASSUME NEW j \in Jobs, NEW n \in Nodes, Starts(j, n)
      PROVE  OneRunningPerNode' /\ RunningHasNode'
  <2>1. n # NULL
    BY ConstantsAssumption
  <2> QED BY <1>1, <1>4, <2>1 DEF Starts, Only
<1>5. ASSUME NEW j \in Jobs, NEW outcome \in TerminalStatuses, Ends(j, outcome)
      PROVE  OneRunningPerNode' /\ RunningHasNode'
  <2>1. job'[j].status # RUNNING /\ Only(j)
    BY <1>5 DEF Ends, TerminalStatuses, RUNNING, COMPLETED, FAILED, CANCELLED
  <2> QED BY <1>1, <2>1 DEF Only
<1>6. ASSUME NEW n \in Nodes, Forgets(n)
      PROVE  OneRunningPerNode' /\ RunningHasNode'
  BY <1>1, <1>6 DEF Forgets
<1> QED BY <1>2, <1>3, <1>4, <1>5, <1>6 DEF Effect

\* A step that writes nothing, to a request whose reads are of now.
LEMMA ReadStep ==
  ASSUME SerialInv, OneAtATime, Inv', UNCHANGED records,
         NEW s \in Sessions, NEW r, Become(s, r), StillTrue(r)
  PROVE  SerialInv'
<1>1. \A t \in Sessions : session'[t] = r
  BY DEF Become, OneAtATime, SerialInv, Inv, TypeOK
<1>2. \A t \in Sessions : StillTrue(session[t])'
  BY <1>1 DEF StillTrue, HasRunningJob, records
<1> QED BY <1>2 DEF SerialInv, OneRunningPerNode, RunningHasNode, CreditsReconcile,
                    records

\* A step that ends the only request.
LEMMA CloseStep ==
  ASSUME SerialInv, OneAtATime, Inv', Effect, NEW s \in Sessions, Finish(s),
         CreditsReconcile'
  PROVE  SerialInv'
<1>1. \A t \in Sessions : session'[t] = Idle
  BY DEF Finish, Become, OneAtATime, SerialInv, Inv, TypeOK
<1>2. \A t \in Sessions : StillTrue(session[t])'
  BY <1>1 DEF StillTrue, Idle
<1> QED BY <1>2, NodesKept DEF SerialInv

\* An arriving request reads what is there.
LEMMA RequestSerial ==
  ASSUME SerialInv, OneAtATime, Inv', NEW s \in Sessions, Request(s)
  PROVE  SerialInv'
<1>1. ASSUME NEW u \in Users, NEW j \in Jobs, SubmitCheck(s, u, j) PROVE SerialInv'
  <2>1. PICK gpus \in GpuCounts, p \in Nodes \cup {NULL} :
          Become(s, [pc |-> "submit", job |-> j, row |-> NewJob(u, gpus, p)])
    BY <1>1 DEF SubmitCheck
  <2>2. StillTrue([pc |-> "submit", job |-> j, row |-> NewJob(u, gpus, p)])
    BY DEF StillTrue
  <2> QED BY <1>1, <2>1, <2>2, ReadStep DEF SubmitCheck
<1>2. ASSUME NEW u \in Users, AdminRead(s, u) PROVE SerialInv'
  <2>1. PICK r : /\ Become(s, r) /\ r.pc \in {"approve", "suspend"}
                 /\ r.user = u /\ r.seen = user[u]
    <3>1. CASE Become(s, [pc |-> "suspend", user |-> u, seen |-> user[u]])
      BY <3>1
    <3>2. ASSUME NEW credits \in Grants,
                 Become(s, [pc |-> "approve", user |-> u, seen |-> user[u],
                            credits |-> credits])
          PROVE  \E r : /\ Become(s, r) /\ r.pc \in {"approve", "suspend"}
                        /\ r.user = u /\ r.seen = user[u]
      BY <3>2
    <3> QED BY <1>2, <3>1, <3>2 DEF AdminRead
  <2>2. StillTrue(r)
    BY <2>1 DEF StillTrue
  <2> QED BY <1>2, <2>1, <2>2, ReadStep DEF AdminRead
<1>3. ASSUME NEW n \in Nodes, \/ ClaimAuth(s, n) \/ DrainRead(s, n)
                              \/ UndrainRead(s, n) \/ DeleteRead(s, n)
      PROVE  SerialInv'
  <2>1. PICK pc \in {"claim", "drain", "undrain", "delete"} :
          /\ Become(s, [pc |-> pc, node |-> n])
          /\ pc = "claim" => node[n] = "online"
    BY <1>3 DEF ClaimAuth, DrainRead, UndrainRead, DeleteRead
  <2>2. StillTrue([pc |-> pc, node |-> n])
    BY <2>1 DEF StillTrue
  <2>3. UNCHANGED records
    BY <1>3 DEF ClaimAuth, DrainRead, UndrainRead, DeleteRead
  <2> QED BY <2>1, <2>2, <2>3, ReadStep
<1>4. ASSUME NEW j \in Jobs, CancelRead(s, j) PROVE SerialInv'
  <2>1. StillTrue([pc |-> "cancel", job |-> j, seen |-> job[j].status])
    BY DEF StillTrue
  <2> QED BY <1>4, <2>1, ReadStep DEF CancelRead
<1>5. ASSUME NEW j \in Jobs, CompleteRead(s, j) PROVE SerialInv'
  <2>1. PICK r : /\ Become(s, r) /\ r.pc = "complete" /\ r.job = j
                 /\ r.target \in TerminalStatuses
                 /\ AssertTransition(job[j].status, r.target)
                 /\ job[j].cancel => r.target = CANCELLED
    BY <1>5 DEF CompleteRead, TerminalStatuses
  <2>2. job[j].status # QUEUED
    BY <1>5 DEF CompleteRead, SerialInv, Inv, Unstarted
  <2>3. job[j].status = RUNNING
    BY <2>1, <2>2 DEF AssertTransition, AllowedTransitions
  <2>4. StillTrue(r)
    BY <2>1, <2>3 DEF StillTrue
  <2> QED BY <1>5, <2>1, <2>4, ReadStep DEF CompleteRead
<1> QED BY <1>1, <1>2, <1>3, <1>4, <1>5 DEF Request

\* A handler that goes on without writing: its earlier reads are still true, and
\* so is what it reads now.
LEMMA AwaitSerial ==
  ASSUME SerialInv, OneAtATime, Inv', NEW s \in Sessions,
         \/ ClaimCheckRunning(s) \/ ClaimSelect(s) \/ ClaimFlush(s) \/ CancelFlush(s)
         \/ CompleteReadUser(s) \/ CompleteFlush(s)
         \/ DeleteCheckRunning(s) \/ DeleteFlush(s)
  PROVE  SerialInv'
<1>1. StillTrue(session[s]) /\ StillTrue(Idle)
  BY DEF SerialInv, StillTrue, Idle
<1>2. UNCHANGED records
  BY DEF ClaimCheckRunning, ClaimSelect, ClaimFlush, CancelFlush, CompleteReadUser,
         CompleteFlush, DeleteCheckRunning, DeleteFlush
<1>3. CASE Finish(s)
  BY <1>1, <1>2, <1>3, ReadStep DEF Finish
<1>4. ASSUME NEW pc, Advance(s, pc),
             LET from == session[s].pc
             IN  \/ from \in {"claim", "delete"} /\ ~HasRunningJob(session[s].node)
                    /\ pc = IF from = "claim" THEN "free" ELSE "unused"
                 \/ from = "locked" /\ pc = "claimed"
                 \/ from = "cancel" /\ pc = "cancelling"
                 \/ from = "billing" /\ pc = "completing"
                 \/ from = "unused" /\ pc = "deleting"
      PROVE  SerialInv'
  <2> DEFINE r == [session[s] EXCEPT !.pc = pc]
  <2>1. Become(s, r)
    BY <1>4 DEF Advance, Become, SerialInv, Inv, TypeOK
  <2>2. StillTrue(r)
    <3>1. session[s] \in Requests
      BY <1>4 DEF SerialInv, Inv, TypeOK, Idle
    <3> QED BY <1>1, <1>4, <3>1 DEF StillTrue, Requests
  <2> HIDE DEF r
  <2> QED BY <1>2, <2>1, <2>2, ReadStep
<1>5. CASE ClaimSelect(s) /\ ~Finish(s)
  <2>1. PICK r : /\ Become(s, r) /\ r.pc = "locked" /\ r.node = session[s].node
                 /\ session[s].pc = "free"
    BY <1>5 DEF ClaimSelect
  <2>2. StillTrue(r)
    BY <1>1, <2>1 DEF StillTrue
  <2> QED BY <1>2, <2>1, <2>2, ReadStep
<1>6. CASE CompleteReadUser(s)
  <2>1. PICK r : /\ Become(s, r) /\ r.pc = "billing" /\ session[s].pc = "complete"
                 /\ r.job = session[s].job /\ r.target = session[s].target
                 /\ r.credits = user[r.user].credits
    BY <1>6 DEF CompleteReadUser
  <2>2. StillTrue(r)
    BY <1>1, <2>1 DEF StillTrue
  <2> QED BY <1>2, <2>1, <2>2, ReadStep
<1>7. CASE ClaimCheckRunning(s) /\ ~Finish(s)
  BY <1>4, <1>7 DEF ClaimCheckRunning
<1>8. CASE DeleteCheckRunning(s) /\ ~Finish(s)
  BY <1>4, <1>8 DEF DeleteCheckRunning
<1>9. CASE (ClaimFlush(s) \/ CancelFlush(s) \/ CompleteFlush(s) \/ DeleteFlush(s))
             /\ ~Finish(s)
  BY <1>4, <1>9 DEF ClaimFlush, CancelFlush, CompleteFlush, DeleteFlush
<1> QED BY <1>3, <1>5, <1>6, <1>7, <1>8, <1>9

\* The floor at zero does not lose a bill: deducting twice is deducting the sum.
LEMMA DeductTwice ==
  ASSUME NEW a \in Nat, NEW b \in Nat, NEW c \in Nat
  PROVE  /\ Deduct(Deduct(a, b), c) = Deduct(a, b + c)
         /\ Deduct(a, 0) = a
BY DEF Deduct

\* The balance a bill or a grant was computed from is the one it replaces.
LEMMA CreditsKept ==
  ASSUME SerialInv, NEW s \in Sessions,
         CompleteCommit(s) \/ ApproveCommit(s) \/ SuspendCommit(s)
  PROVE  CreditsReconcile'
<1> DEFINE u == session[s].user
<1>1. /\ user \in [Users -> UserRow]
      /\ ledger \in [Users -> [granted : Nat, charged : Nat]]
      /\ StillTrue(session[s]) /\ CreditsReconcile
  BY DEF SerialInv, Inv, TypeOK
<1>2. u \in Users
  BY RequestFields DEF SerialInv, Inv, CompleteCommit, ApproveCommit, SuspendCommit
<1>3. ASSUME NEW v \in Users
      PROVE  /\ user[v].credits \in Nat /\ ledger[v].granted \in Nat
             /\ ledger[v].charged \in Nat
             /\ user[v].credits = Deduct(ledger[v].granted, ledger[v].charged)
  BY <1>1 DEF UserRow, CreditsReconcile
<1> SUFFICES ASSUME NEW v \in Users
             PROVE  user'[v].credits = Deduct(ledger'[v].granted, ledger'[v].charged)
  BY DEF CreditsReconcile
<1>4. CASE CompleteCommit(s)
  <2> DEFINE seen == session[s].credits
             billed == session[s].billed
             left == Deduct(seen, billed)
  <2>1. seen = user[u].credits /\ billed \in Nat
    BY <1>1, <1>4, RequestFields DEF StillTrue, CompleteCommit, SerialInv, Inv
  <2>2. /\ ledger'[v].granted = ledger[v].granted
        /\ ledger'[v].charged = IF v = u THEN ledger[v].charged + billed
                                         ELSE ledger[v].charged
    BY <1>1, <1>2, <1>4 DEF CompleteCommit
  <2>3. user' = IF left # seen THEN [user EXCEPT ![u].credits = left] ELSE user
    BY <1>4 DEF CompleteCommit
  <2> HIDE DEF left, seen, billed, u
  <2>4. user'[v].credits = IF v = u THEN left ELSE user[v].credits
    BY <1>1, <1>2, <2>1, <2>3 DEF UserRow
  <2>5. left = Deduct(Deduct(ledger[u].granted, ledger[u].charged), billed)
    BY <1>2, <1>3, <2>1 DEF left
  <2>6. left = Deduct(ledger[u].granted, ledger[u].charged + billed)
    <3>1. ledger[u].granted \in Nat /\ ledger[u].charged \in Nat /\ billed \in Nat
      BY <1>2, <1>3, <2>1
    <3> QED BY <2>5, <3>1, DeductTwice
  <2> QED BY <1>3, <2>2, <2>4, <2>6
<1>5. CASE ApproveCommit(s)
  <2> DEFINE credits == session[s].credits
             status == IF session[s].seen.status # "active" THEN "active"
                                                            ELSE user[u].status
             balance == IF session[s].seen.credits # credits THEN credits
                                                             ELSE user[u].credits
  <2>1. session[s].seen = user[u] /\ credits \in Nat
    BY <1>1, <1>5, RequestFields DEF StillTrue, ApproveCommit, SerialInv, Inv
  <2>2. /\ user' = [user EXCEPT ![u] = [status |-> status, credits |-> balance]]
        /\ ledger' = [ledger EXCEPT ![u] = [granted |-> credits, charged |-> 0]]
    BY <1>1, <1>2, <1>5 DEF ApproveCommit
  <2>3. balance = credits
    BY <2>1
  <2> HIDE DEF status, balance, credits, u
  <2>4. CASE v = u
    <3>1. user'[v].credits = balance /\ ledger'[v].granted = credits
          /\ ledger'[v].charged = 0
      BY <1>1, <1>2, <2>2, <2>4
    <3> QED BY <2>1, <2>3, <3>1, DeductTwice
  <2>5. CASE v # u
    <3>1. user'[v] = user[v] /\ ledger'[v] = ledger[v]
      BY <1>1, <1>2, <2>2, <2>5
    <3> QED BY <1>3, <3>1
  <2> QED BY <2>4, <2>5
<1>6. CASE SuspendCommit(s)
  <2>1. ledger' = ledger
        /\ (user' = user \/ user' = [user EXCEPT ![u].status = "suspended"])
    BY <1>6 DEF SuspendCommit
  <2>2. user'[v].credits = user[v].credits
    <3>1. CASE user' = user
      BY <3>1
    <3>2. CASE user' = [user EXCEPT ![u].status = "suspended"]
      <4>1. user'[v] = IF v = u THEN [user[u] EXCEPT !.status = "suspended"] ELSE user[v]
        BY <1>1, <1>2, <3>2
      <4>2. user[u] \in UserRow
        BY <1>1, <1>2
      <4> HIDE DEF u
      <4> QED BY <4>1, <4>2 DEF UserRow
    <3> QED BY <2>1, <3>1, <3>2
  <2> HIDE DEF u
  <2> QED BY <1>3, <2>1, <2>2
<1> QED BY <1>4, <1>5, <1>6

\* A commit ends the only request, and with it all that was read.
LEMMA CommitSerial ==
  ASSUME SerialInv, OneAtATime, Inv', Effect, NEW s \in Sessions,
         \/ SubmitCommit(s) \/ ClaimCommit(s) \/ CancelCommitQueued(s)
         \/ CancelCommitRunning(s) \/ CompleteCommit(s) \/ ApproveCommit(s)
         \/ SuspendCommit(s) \/ DrainCommit(s) \/ UndrainCommit(s) \/ DeleteCommit(s)
  PROVE  SerialInv'
<1>1. Finish(s)
  BY Zenon DEF SubmitCommit, ClaimCommit, CancelCommitQueued, CancelCommitRunning,
         CompleteCommit, ApproveCommit, SuspendCommit, DrainCommit, UndrainCommit,
         SetNodeStatus, DeleteCommit
<1>2. CreditsReconcile'
  <2>1. CASE CompleteCommit(s) \/ ApproveCommit(s) \/ SuspendCommit(s)
    BY <2>1, CreditsKept
  <2>2. CASE \/ SubmitCommit(s) \/ ClaimCommit(s) \/ CancelCommitQueued(s)
             \/ CancelCommitRunning(s) \/ DrainCommit(s) \/ UndrainCommit(s)
             \/ DeleteCommit(s)
    <3>1. user' = user /\ ledger' = ledger
      BY <2>2, Zenon
         DEF SubmitCommit, ClaimCommit, CancelCommitQueued, CancelCommitRunning,
             DrainCommit, UndrainCommit, SetNodeStatus, DeleteCommit
    <3>2. CreditsReconcile
      BY DEF SerialInv
    <3> QED BY <3>1, <3>2, Zenon DEF CreditsReconcile
  <2> QED BY <2>1, <2>2
<1> QED BY <1>1, <1>2, CloseStep

\* Empty tables satisfy the invariant.
LEMMA SerialInit == Init => SerialInv
<1> SUFFICES ASSUME Init PROVE SerialInv OBVIOUS
<1>1. \A s \in Sessions : StillTrue(session[s])
  BY DEF Init, StillTrue, Idle
<1>2. OneRunningPerNode /\ RunningHasNode
  BY DEF Init, OneRunningPerNode, RunningHasNode, AbsentJob, RUNNING
<1>3. CreditsReconcile
  BY DEF Init, CreditsReconcile, Deduct
<1> QED BY <1>1, <1>2, <1>3, InitInv DEF SerialInv

\* Every step of the only session keeps the invariant.
LEMMA SerialStep ==
  ASSUME SerialInv, OneAtATime, [Next]_vars
  PROVE  SerialInv'
<1>1. Inv'
  BY NextInv DEF SerialInv
<1>2. Effect
  BY StepEffect
<1>3. CASE UNCHANGED vars
  BY <1>1, <1>3 DEF vars, SerialInv, StillTrue, HasRunningJob, OneRunningPerNode,
                    RunningHasNode, CreditsReconcile
<1>4. ASSUME NEW s \in Sessions, Request(s) PROVE SerialInv'
  BY <1>1, <1>4, RequestSerial
<1>5. ASSUME NEW s \in Sessions, Continue(s) PROVE SerialInv'
  BY <1>1, <1>2, <1>5, AwaitSerial, CommitSerial DEF Continue
<1>6. ASSUME NEW s \in Sessions, DeadlockVictim(s) \/ Abort(s) PROVE SerialInv'
  <2>1. UNCHANGED records /\ Become(s, Idle)
    BY <1>6 DEF DeadlockVictim, Abort, Finish
  <2>2. StillTrue(Idle)
    BY DEF StillTrue, Idle
  <2> QED BY <1>1, <2>1, <2>2, ReadStep
<1> QED BY <1>3, <1>4, <1>5, <1>6 DEF Next

-----------------------------------------------------------------------------
(* The theorems *)

\* With one request at a time, whatever a handler has read is true when it writes.
THEOREM SerialInvariance == OneAtATime /\ Spec => []SerialInv
<1>1. OneAtATime /\ SerialInv /\ [Next]_vars => SerialInv'
  BY SerialStep
<1>2. OneAtATime /\ Init /\ [][Next]_vars => []SerialInv
  <2> SUFFICES ASSUME OneAtATime PROVE Init /\ [][Next]_vars => []SerialInv
    OBVIOUS
  <2>1. SerialInv /\ [Next]_vars => SerialInv'
    BY <1>1
  <2> QED BY <2>1, SerialInit, PTL
<1> QED BY <1>2 DEF Spec

\* A node runs one job at a time (claim_for_node asks get_running_for_node).
THEOREM NodesRunOneJob == OneAtATime /\ Spec => []OneRunningPerNode
<1>1. SerialInv => OneRunningPerNode
  BY DEF SerialInv
<1> QED BY <1>1, SerialInvariance, PTL

\* delete_node refuses a busy node, so that a running job keeps its node.
THEOREM BusyNodesStay == OneAtATime /\ Spec => []RunningHasNode
<1>1. SerialInv => RunningHasNode
  BY DEF SerialInv
<1> QED BY <1>1, SerialInvariance, PTL

\* The balance is the last grant less the bills since, however many, floored once.
THEOREM BalanceIsAudited == OneAtATime /\ Spec => []CreditsReconcile
<1>1. SerialInv => CreditsReconcile
  BY DEF SerialInv
<1> QED BY <1>1, SerialInvariance, PTL

\* A job starts only on a node that is online at that moment: the draining check of
\* the claim still holds.
THEOREM DrainsAreRespected == OneAtATime /\ Spec => DrainRespected
<1> DEFINE Respected ==
      \A j \in Jobs : job[j].status # RUNNING /\ job'[j].status = RUNNING
                        => node[job'[j].assigned] = "online"
<1>1. SerialInv /\ [Next]_vars => [Respected]_vars
  <2> SUFFICES ASSUME SerialInv, [Next]_vars, NEW j \in Jobs,
                      job[j].status # RUNNING, job'[j].status = RUNNING
               PROVE  node[job'[j].assigned] = "online"
    OBVIOUS
  <2>1. Effect
    BY StepEffect
  <2>2. \E k \in Jobs, n \in Nodes : Starts(k, n)
    BY <2>1 DEF Effect, Rests, Submits, Withdraws, Ends, Forgets, Only, SameStatus,
                TerminalStatuses, RUNNING, QUEUED, COMPLETED, FAILED, CANCELLED
  <2>3. PICK k \in Jobs, n \in Nodes : Starts(k, n)
    BY <2>2
  <2>4. k = j
    BY <2>3 DEF Starts, Only, SameStatus
  <2> QED BY <2>3, <2>4 DEF Starts
<1> QED BY <1>1, SerialInvariance, PTL DEF Spec, DrainRespected

\* A cancellation recorded while the job runs decides its outcome: complete_job
\* reads the row as it still is when the outcome is written.
THEOREM CancellationsWin == OneAtATime /\ Spec => CancelWins
<1> DEFINE Wins ==
      \A j \in Jobs : /\ job[j].status = RUNNING /\ job[j].cancel
                      /\ job'[j].status # RUNNING
                      => job'[j].status = CANCELLED
<1>1. SerialInv /\ [Next]_vars => [Wins]_vars
  <2> SUFFICES ASSUME SerialInv, [Next]_vars, NEW j \in Jobs,
                      job[j].status = RUNNING, job[j].cancel, job'[j].status # RUNNING
               PROVE  job'[j].status = CANCELLED
    OBVIOUS
  <2>1. Effect
    BY StepEffect
  <2>2. \E k \in Jobs, outcome \in TerminalStatuses : Ends(k, outcome)
    BY <2>1 DEF Effect, Rests, Submits, Withdraws, Starts, Forgets, Only, SameStatus,
                RUNNING, QUEUED, CANCELLED
  <2>3. PICK k \in Jobs, outcome \in TerminalStatuses : Ends(k, outcome)
    BY <2>2
  <2>4. k = j
    BY <2>3 DEF Ends, Only, SameStatus
  <2> QED BY <2>3, <2>4 DEF Ends
<1> QED BY <1>1, SerialInvariance, PTL DEF Spec, CancelWins

-----------------------------------------------------------------------------
(* The refinement *)

\* Each effect is a step of the job's abstract life, or one it does not see.
LEMMA EffectIsLife ==
  ASSUME SerialInv, Effect
  PROVE  [Lifecycle!LifecycleNext]_Lifecycle!lifecycle
<1>1. ASSUME Rests PROVE UNCHANGED Lifecycle!lifecycle
  BY <1>1 DEF Rests, SameStatus, SameBills, Lifecycle!lifecycle
<1>2. ASSUME NEW j \in Jobs, Submits(j)
      PROVE  Lifecycle!Submitted(j)
  BY <1>2 DEF Submits, Only, SameStatus, SameBills, Lifecycle!Submitted,
              QUEUED, Lifecycle!QUEUED
<1>3. ASSUME NEW j \in Jobs, Withdraws(j)
      PROVE  Lifecycle!Withdrawn(j)
  BY <1>3 DEF Withdraws, Only, SameStatus, SameBills, Lifecycle!Withdrawn,
              Lifecycle!AssertTransition, Lifecycle!AllowedTransitions,
              QUEUED, Lifecycle!QUEUED, CANCELLED, Lifecycle!CANCELLED
<1>4. ASSUME NEW j \in Jobs, NEW n \in Nodes, Starts(j, n)
      PROVE  Lifecycle!Assigned(j, n)
  BY <1>4 DEF Starts, Only, SameStatus, SameBills, HasRunningJob, Lifecycle!Assigned,
              Lifecycle!AssertTransition, Lifecycle!AllowedTransitions,
              QUEUED, Lifecycle!QUEUED, RUNNING, Lifecycle!RUNNING
<1>5. ASSUME NEW j \in Jobs, NEW outcome \in TerminalStatuses, Ends(j, outcome)
      PROVE  Lifecycle!Ended(j, outcome)
  BY <1>5 DEF Ends, Only, SameStatus, Lifecycle!Ended,
              Lifecycle!AssertTransition, Lifecycle!AllowedTransitions,
              RUNNING, Lifecycle!RUNNING, TerminalStatuses, Lifecycle!TerminalStatuses,
              COMPLETED, FAILED, CANCELLED, Lifecycle!COMPLETED, Lifecycle!FAILED,
              Lifecycle!CANCELLED
<1>6. ASSUME NEW n \in Nodes, Forgets(n)
      PROVE  Lifecycle!Forgotten(n)
  BY <1>6 DEF Forgets, SameBills, HasRunningJob, Lifecycle!Forgotten,
              RUNNING, Lifecycle!RUNNING
<1>7. TerminalStatuses = Lifecycle!TerminalStatuses
  BY DEF TerminalStatuses, Lifecycle!TerminalStatuses, COMPLETED, FAILED, CANCELLED,
         Lifecycle!COMPLETED, Lifecycle!FAILED, Lifecycle!CANCELLED
<1>8. Lifecycle!LifecycleNext \/ UNCHANGED Lifecycle!lifecycle
  BY <1>1, <1>2, <1>3, <1>4, <1>5, <1>6, <1>7 DEF Effect, Lifecycle!LifecycleNext
<1> QED BY <1>8

\* The control plane, one request at a time, is the abstract life of its jobs: one
\* holder, one end, one bill for a job that ran and none for one that did not.
THEOREM RefinesLifecycle == OneAtATime /\ Spec => ImplementsLifecycle
<1>1. Init => Lifecycle!LifecycleInit
  BY DEF Init, Lifecycle!LifecycleInit, AbsentJob
<1>2. SerialInv /\ [Next]_vars => [Lifecycle!LifecycleNext]_Lifecycle!lifecycle
  BY StepEffect, EffectIsLife
<1> QED BY <1>1, <1>2, SerialInvariance, PTL
        DEF Spec, ImplementsLifecycle, Lifecycle!LifecycleSpec

-----------------------------------------------------------------------------
(* The audit log tells each job's life: who ran pays once, and nobody else *)

Agrees(status, entry) ==
  /\ status \in {"absent", QUEUED} =>
       entry.assigned = 0 /\ entry.ended = 0 /\ entry.billed = 0
  /\ status = RUNNING => entry.assigned = 1 /\ entry.ended = 0 /\ entry.billed = 0
  /\ status \in {COMPLETED, FAILED} =>
       entry.assigned = 1 /\ entry.ended = 1 /\ entry.billed = 1
  /\ status = CANCELLED =>
       entry.assigned \in {0, 1} /\ entry.ended = 1 /\ entry.billed = entry.assigned

AuditAgrees == \A j \in Jobs : Agrees(job[j].status, audit[j])

\* Each commit writes the entries that go with the status it writes.
LEMMA CommitAgrees ==
  ASSUME SerialInv, AuditAgrees, NEW s \in Sessions, Writes(s)
  PROVE  AuditAgrees'
<1> SUFFICES ASSUME NEW j \in Jobs PROVE Agrees(job'[j].status, audit'[j])
  BY DEF AuditAgrees
<1> DEFINE k == session[s].job
           entry == audit[j]
<1>1. /\ job \in [Jobs -> {AbsentJob} \cup JobRow]
      /\ audit \in [Jobs -> [assigned : Nat, ended : Nat, billed : Nat]]
      /\ Agrees(job[j].status, entry)
  BY DEF SerialInv, Inv, TypeOK, AuditAgrees
<1>2. ASSUME job'[j].status = job[j].status, audit'[j] = entry
      PROVE  Agrees(job'[j].status, audit'[j])
  BY <1>1, <1>2
<1>3. CASE SubmitCommit(s)
  <2>1. /\ k \in Jobs /\ job[k].status = "absent" /\ session[s].row.status = QUEUED
        /\ audit' = audit
    BY <1>3, RequestFields DEF SerialInv, Inv, RequestOK, SubmitCommit
  <2>2. CASE j = k
    <3>1. job'[j].status \in {"absent", QUEUED}
      BY <1>1, <1>3, <2>1, <2>2 DEF SubmitCommit
    <3> QED BY <1>1, <2>1, <2>2, <3>1
            DEF Agrees, QUEUED, RUNNING, COMPLETED, FAILED, CANCELLED
  <2>3. CASE j # k
    <3>1. job'[j] = job[j]
      BY <1>1, <1>3, <2>1, <2>3 DEF SubmitCommit
    <3> QED BY <1>2, <2>1, <3>1
  <2> QED BY <2>2, <2>3
<1>4. CASE ClaimCommit(s)
  <2>1. /\ k \in Jobs /\ job[k].status = QUEUED
        /\ job' = [job EXCEPT ![k].status = RUNNING, ![k].assigned = session[s].node]
        /\ audit' = [audit EXCEPT ![k].assigned = @ + 1]
    BY <1>4, RequestFields DEF SerialInv, Inv, RequestOK, ClaimCommit, Locking
  <2> HIDE DEF k
  <2>2. CASE j = k
    <3>1. job[j] \in JobRow
      BY <2>1, <2>2, HasRow
    <3>2. job'[j].status = RUNNING
      BY <1>1, <2>1, <2>2, <3>1 DEF JobRow
    <3>3. /\ audit'[j].assigned = entry.assigned + 1
          /\ audit'[j].ended = entry.ended /\ audit'[j].billed = entry.billed
      BY <1>1, <2>1, <2>2
    <3> HIDE DEF entry
    <3> QED BY <1>1, <2>1, <2>2, <3>2, <3>3
            DEF Agrees, QUEUED, RUNNING, COMPLETED, FAILED, CANCELLED
  <2>3. CASE j # k
    BY <1>1, <1>2, <2>1, <2>3
  <2> QED BY <2>2, <2>3
<1>5. CASE CancelCommitQueued(s)
  <2>1. /\ k \in Jobs /\ job[k].status = QUEUED
        /\ job' = [job EXCEPT ![k].status = CANCELLED]
        /\ audit' = [audit EXCEPT ![k].ended = @ + 1]
    BY <1>5, RequestFields DEF SerialInv, Inv, StillTrue, CancelCommitQueued, Locking
  <2> HIDE DEF k
  <2>2. CASE j = k
    <3>1. job[j] \in JobRow
      BY <2>1, <2>2, HasRow
    <3>2. job'[j].status = CANCELLED
      BY <1>1, <2>1, <2>2, <3>1 DEF JobRow
    <3>3. /\ audit'[j].ended = entry.ended + 1
          /\ audit'[j].assigned = entry.assigned /\ audit'[j].billed = entry.billed
      BY <1>1, <2>1, <2>2
    <3> HIDE DEF entry
    <3> QED BY <1>1, <2>1, <2>2, <3>2, <3>3
            DEF Agrees, QUEUED, RUNNING, COMPLETED, FAILED, CANCELLED
  <2>3. CASE j # k
    BY <1>1, <1>2, <2>1, <2>3
  <2> QED BY <2>2, <2>3
<1>6. CASE CancelCommitRunning(s)
  <2>1. /\ k \in Jobs /\ job[k].status = RUNNING /\ audit' = audit
        /\ job' = [job EXCEPT ![k].cancel = TRUE]
    BY <1>6, RequestFields DEF SerialInv, Inv, StillTrue, CancelCommitRunning, Locking
  <2> HIDE DEF k
  <2>2. job[k] \in JobRow
    BY <2>1, HasRow
  <2>3. job'[j].status = job[j].status
    BY <1>1, <2>1, <2>2 DEF JobRow
  <2> QED BY <1>2, <2>1, <2>3
<1>7. CASE CompleteCommit(s)
  <2> DEFINE target == session[s].target
  <2>1. /\ k \in Jobs /\ job[k].status = RUNNING /\ target \in TerminalStatuses
        /\ job' = [job EXCEPT ![k].status = target]
        /\ audit' = [audit EXCEPT ![k].ended = @ + 1, ![k].billed = @ + 1]
    BY <1>7, RequestFields DEF SerialInv, Inv, StillTrue, CompleteCommit, Locking
  <2> HIDE DEF k, target
  <2>2. CASE j = k
    <3>1. job[j] \in JobRow
      BY <2>1, <2>2, HasRow
    <3>2. job'[j].status = target
      BY <1>1, <2>1, <2>2, <3>1 DEF JobRow
    <3>3. /\ audit'[j].ended = entry.ended + 1 /\ audit'[j].billed = entry.billed + 1
          /\ audit'[j].assigned = entry.assigned
      BY <1>1, <2>1, <2>2
    <3> HIDE DEF entry
    <3> QED BY <1>1, <2>1, <2>2, <3>2, <3>3
            DEF Agrees, TerminalStatuses, QUEUED, RUNNING, COMPLETED, FAILED, CANCELLED
  <2>3. CASE j # k
    BY <1>1, <1>2, <2>1, <2>3
  <2> QED BY <2>2, <2>3
<1>8. CASE DeleteCommit(s)
  <2>1. audit' = audit
    BY <1>8 DEF DeleteCommit
  <2>2. job'[j].status = job[j].status
    <3> DEFINE n == session[s].node
               kept == IF job[j].assigned = n THEN NULL ELSE job[j].assigned
               pin == IF job[j].preferred = n THEN NULL ELSE job[j].preferred
    <3>1. job'[j] = [job[j] EXCEPT !.assigned = kept, !.preferred = pin]
      BY <1>8 DEF DeleteCommit
    <3> HIDE DEF kept, pin
    <3> QED BY <1>1, <3>1 DEF AbsentJob, JobRow
  <2> QED BY <1>2, <2>1, <2>2
<1> QED BY <1>3, <1>4, <1>5, <1>6, <1>7, <1>8 DEF Writes

\* Every step keeps the log and the rows together.
LEMMA AuditStep ==
  ASSUME OneAtATime
  PROVE  SerialInv /\ AuditAgrees /\ [Next]_vars => AuditAgrees'
<1> SUFFICES ASSUME SerialInv, AuditAgrees, [Next]_vars PROVE AuditAgrees'
  OBVIOUS
<1>1. CASE UNCHANGED <<job, audit>>
  BY <1>1 DEF AuditAgrees
<1>2. CASE UNCHANGED vars
  BY <1>1, <1>2 DEF vars
<1>3. ASSUME NEW s \in Sessions,
             Request(s) \/ Continue(s) \/ DeadlockVictim(s) \/ Abort(s)
      PROVE  AuditAgrees'
  BY <1>1, <1>3, CommitAgrees, OnlyCommitsWrite
<1> QED BY <1>2, <1>3 DEF Next

\* The audit log agrees with the rows: a job that completed or failed was assigned,
\* ended and billed once, a cancelled one was billed if it had been assigned, and the
\* others have not been billed at all.
THEOREM EveryRunIsPaidOnce == OneAtATime /\ Spec => []AuditAgrees
<1>1. Init => AuditAgrees
  BY DEF Init, AuditAgrees, Agrees, AbsentJob, QUEUED, RUNNING, COMPLETED, FAILED,
         CANCELLED
<1>2. OneAtATime /\ SerialInv /\ AuditAgrees /\ [Next]_vars => AuditAgrees'
  BY AuditStep
<1>3. OneAtATime /\ Init /\ []SerialInv /\ [][Next]_vars => []AuditAgrees
  <2> SUFFICES ASSUME OneAtATime
               PROVE  Init /\ []SerialInv /\ [][Next]_vars => []AuditAgrees
    OBVIOUS
  <2>1. SerialInv /\ AuditAgrees /\ [Next]_vars => AuditAgrees'
    BY <1>2
  <2> QED BY <1>1, <2>1, PTL
<1> QED BY <1>3, SerialInvariance, PTL DEF Spec
=============================================================================
