# GPU network: a TLA+ verification of the control plane and the node agent

The repository runs user jobs on other people's GPUs. A FastAPI **control
plane** keeps users, nodes and jobs in PostgreSQL. A Go **node agent** on each
machine polls it over HTTP, runs a job's container with the docker CLI, ships its
log and reports its end. This directory models the parts of both that decide
what happens to a job, a node and an account, and what readers are shown of them,
checks the models with TLC on small instances, and proves the main safety
properties with TLAPS for every size.

## 1. The system

### Components, their state and their operations

| component | code (under `src/`) | state | operations |
|---|---|---|---|
| job service | `control-plane/app/services/job_service.py`, `repositories/job_repo.py` | table `jobs` | submit, claim, cancel, force-kill, complete |
| node service | `services/node_service.py`, `repositories/node_repo.py` | table `nodes` | register, heartbeat, metrics, drain, force-drain, undrain, delete |
| admin service | `services/admin_service.py` | users' status and credits | approve (grant), suspend, listings, dashboard |
| accounts | `services/auth_service.py`, `api_key_service.py`, `deps.py` | users, API keys | authenticate, signup, login, key generation, revocation |
| errors | `core/errors.py`, `main.py` | – | the answer to each domain error |
| node status | `services/node_status.py` | `status`, `last_seen_at` | online, offline or draining |
| listings | `core/pagination.py`, the `list_*` methods | – | one keyset page |
| metrics | `observability.py` | the process's gauges | scrape |
| schema | `models/`, `alembic/versions/` | tables, `alembic_version` | upgrade, downgrade |
| job logs | `repositories/job_log_repo.py`, `schemas/job_logs.py` | table `job_logs`, unique (job_id, sequence) | append a batch, list after a cursor |
| sessions | `db.py` | one transaction per request | commit, rollback |
| agent daemon | `node-agent/internal/agent/daemon.go` | `runningID`, `cancelRun` | tick: heartbeat, decide, claim; job goroutine: run, complete |
| log pump | same file | `buf`, `nextSeq` | Emit, periodic flush, final flush |
| rest | agent CLI, GPU detection, configuration, two web apps | – | – |

### How they interact, and what is hard

* **Requests interleave at every `await`.** A handler is a coroutine with a
  session of its own; PostgreSQL runs at READ COMMITTED. What a handler has read
  can be stale when it writes. Only `claim_next_for_node` locks what it reads
  (`FOR UPDATE SKIP LOCKED`); everything else relies on the row locks of UPDATE,
  on foreign keys, on unique columns, or on luck. SQLAlchemy's UPDATE names only the
  columns that differ from what the session read, and checks no version.
* **A session keeps what it read.** A second SELECT of a row gives the object the
  session has, as it was first read: an administrator who decides about their own
  account, or a key that revokes itself, acts on the row authentication read.
* **Foreign keys lock too.** A claim's flush locks the node it names; a node's
  deletion waits for it, then updates every job that names the node. A claim of a
  pinned job and the deletion of that node can deadlock.
* **Lookups take one row.** API keys, claim tokens and agent tokens are found by a
  prefix with a few random characters; two rows with one prefix make every lookup of
  it fail.
* **The network between agent and control plane** loses requests and answers; a
  request may be handled after the agent has given it up. `claim` and `complete`
  are sent once.
* **Goroutines of the agent**: the ticker and the job goroutine share
  `runningID`; the scanners, the flusher and the runner share the log buffer.
* **A request outlives its caller**: the control plane goes on with a claim or a
  completion the agent gave up 30 s ago, beside the agent's next ones.
* **A cancellation takes a round trip**: recorded on the job, announced in a
  heartbeat, acted on by the agent, confirmed by `complete`.
* **Readers take several statements** or several requests, each of which sees the
  tables at its own moment, and all scrapes of a process fill the same gauges.

The properties each part should have: a job is handed out once, to a node that
exists and fits; an ended job stays ended; a node runs one job; the balance is
the grant less the bills; an agent's containers are the jobs the control plane
believes it runs, and what ends them is their own end or a cancel; a job ends; no log
line is lost without notice; a revoked key opens nothing; the last decision about an
account holds; a listing shows everything once; a node whose agent had one call in
trouble is not shown offline. The hazards behind
them are listed line by line in `PROJECT.json`.

## 2. The modules

```
JobStatus ──> JobLifecycle ──(refinement)── ControlPlane ──> ControlPlaneProofs ──> SerialProofs
    │              │ (variables)                 └──> MCControlPlane
    │              └──> Fleet ──> MCFleet, FleetProofs  JobLogs ──> MCJobLogs, JobLogsProofs
    └──> Observability ──────────┐
HttpErrors ──> Accounts          │       Registration ──> MCRegistration, RegistrationProofs
                   └──> Deployment ──> Views ──> MCViews
Schema ────────────────────┘     │         └──> AccountsProofs, ReadersProofs, SchemaProofs
NodeStatus, Pages ───────────────┘
```

* **JobStatus**: the five states and the transition table of `job_status.py`.
* **JobLifecycle**: the abstract specification. A job is submitted, assigned to
  a node that runs nothing, ends once with one bill, or is withdrawn unpaid.
* **ControlPlane**: the handlers over the database. `job`, `node` and `user` are
  the *committed* rows; `session[s]` holds the request a session serves, what it
  has read and what it will write, with `pc` naming the `await` it is at. One
  action is one statement up to the next `await`: e.g. claim is `ClaimAuth` (token
  and draining check), `ClaimCheckRunning`, `ClaimSelect` (takes the row lock, or
  finds nothing), `ClaimFlush` (waits for the foreign key), `ClaimCommit`. Reads
  whose result only raises an error have no action: the request leaves no trace.
  `HoldsJob`, `HoldsUser`, `RefersToNode` and `Deletes` derive the locks from
  the sessions. `audit` and `ledger` count what `audit_log` records, and the
  properties compare the rows with it. `Abort` is the server or the connection
  dying in mid-request, `DeadlockVictim` PostgreSQL ending a deadlock. Cancel and
  force-kill, drain and force-drain share their actions: they differ in
  who may call them.
* **Fleet**: agents, network and control plane. It has the variables of `JobLifecycle`
  for the rows of `jobs`, but not its steps: a handler reads in one action and commits
  in a later one, and others commit in between. A cancel is `CancelRead` and
  `CancelCommit`, which writes what follows from the status it read (`seen`); a claim
  is `ClaimCheck`, which locks nothing, and `ClaimAnswered`, which takes the oldest queued
  job under its row lock up to the commit; a completion is `CompleteRead`, which refuses it
  or chooses a status, and `CompleteCommit`, which writes that status whatever the row has
  become. `tick[n]` is where `tickOnce` is, the claim's handler included, and `run[n][j]` where the
  goroutine of a job is, the completion's handler included. `late` holds the claims and
  completions that were given up, each at the step its handler had reached;
  `LateClaim` and `LateReport` go on with them beside the agent's next requests.
* **JobLogs**: one job's log from its scanners to its reader. A line is a
  `(writer, number)`; `buf`, `posting`, `wire`, `table` follow a batch from the
  agent to the rows. The pull phase of docker is one more pair of scanners of the
  same kind and is folded into the container's; each of the runner's messages of a
  phase is one line.
* **Registration**: how a machine becomes a node. A node is named by its agent
  token. `claim` and `node` are the committed rows, `session[s]` a registration
  between its awaits (`RegisterRead`, `RegisterInsert`, `RegisterConsume`,
  `RegisterCommit`), `init[m]` and `config[m]` what `gpu-agent init` waits for and
  has saved on a machine. `Prefix` maps a token to the 12 characters it is looked
  up by, so that collisions happen. `made` is what the `node.registered` audit
  events say. Deletion here is the row's end alone; its races with claims are
  in ControlPlane, whose nodes are the registered ones.
* **HttpErrors**: the domain errors and the answer main.py gives to each.
* **Accounts**: the accounts, their API keys and the decisions of administrators.
  `users` and `keys` are the committed rows, `held` the credentials callers were
  given, `req[s]` a request with the `pc` of the await it is at: authentication
  (`DecodeToken`, or `LookupKey` by the prefix, then `LoadUser`), the handler's
  reads (`SignupRead`, `GenerateCheck`, `RevokeRead`, `DecisionRead`), its flushes and
  commit (`SignupCommit`, `GenerateCommit`, `RevokeCommit`, `ApproveCommit`,
  `SuspendCommit`), and the refresh after it. A flush and the commit
  that follows are one action: nobody sees a flushed row before, and a second
  writer of it waits for the commit. A login commits an audit event whether it succeeds
  or is refused (`AnswerAudited`); a refusal of any other request has committed nothing.
  `Abort` loses the connection in between. The ghosts
  `decided` and `blind` remember the last decision about an account and whether it
  was taken on a row another decision had changed since; `dead` and `barred` what was
  true of a request's credential when it arrived.
* **Schema**: what each Alembic revision adds and its downgrade takes away, as facts
  about columns, unique constraints and references, and what the models and
  repositories expect of the last one.
* **Deployment**: Accounts on a database the migrations made. The container
  migrates to the last revision and then serves; the first account of an empty
  database signs up and is made administrator from the command line.
* **NodeStatus**: one node's row and its agent's calls, in units of which `Tick` make the
  10 s of a tick. The ticker sends a heartbeat (`SendHeartbeat`) and, once it is
  answered, a claim; time may pass at every point of a call, up to the client's 30 s, and
  time.Ticker keeps one tick meanwhile. The server stamps a heartbeat some time after it
  was sent (`Stamp`) and commits it some time later (`RecordHeartbeat`). `other` is a
  metrics push, or a heartbeat the agent has given up, that the server commits when it
  likes, over a newer stamp too. The ghost `bad` counts the calls that failed or took
  longer than a tick since the last recorded heartbeat was sent, `stale` remembers a
  stamp that went over a newer one.
* **Pages**: a client that follows the cursors of a listing while rows are
  inserted, committed late, rolled back, and move into the filter or out of it.
  `Listed` is one page's query: of the rows it `Found` below the cursor, the ones of
  the first ranks, where a row's `Rank` is how many of them are newer.
* **Observability**: the five statements of the dashboard's figures, and scrapes that
  clear and fill gauges they share, while jobs, nodes and metrics change.
* **Views**: puts Deployment and the last three side by side. They share no state, so that a behaviour is
  about one of them, which `view` names.

A definition whose comment begins with "Fault:" is an altered copy of the one that
follows it, as a plausible bug would leave it. No specification uses it; `mutants` in
`PROJECT.json` names the property that notices it.

## 3. The runs

| run | instance | checks | result |
|---|---|---|---|
| cp_serial | 1 request at a time, 2 jobs, 2 nodes of 1 and 2 GPUs, run times 0 and 2 h | type, one job per node, busy nodes kept, balance = audit log, draining and cancels respected, refinement of JobLifecycle | holds |
| cp_concurrent | 2 requests in flight, 1 job, 2 nodes | assigned once, assignment fits, ended stays ended | holds |
| cp_progress | 2 requests in flight, 1 job, 1 node, fairness | every request ends | holds |
| cp_orphan | claim and deletion | a running job has a node | **violated** |
| cp_overwrite | cancel across claim and completion | an outcome is final | **violated** |
| cp_lost_debit | 2 requests in flight, 2 jobs of one user | a bill is deducted from the balance there is | **violated** |
| fleet_faults | 2 jobs, 1 agent, a cancel in flight at a time, 2 faults, fairness | an agent has one job that runs, runs are assigned and end by their report, kills have a cause, only faults strand a job, jobs end | holds |
| fleet_cancel | 1 job, 1 agent, 1 fault | a cancellation is honoured | **violated** |
| logs_lossy | 2 scanners of a line, one line oversized, lossy network | lines accounted for, streams in order, exit line last, reader misses nothing, run finishes | holds |
| logs_tail | 1 scanner, no loss | the tail is stored | **violated** |
| reg_races | 2 registrations in flight, 3 claim tokens and 3 agent tokens, two of each with one prefix, 2 machines | unique lookups, token consumed with its node, shared only by overlapping registrations, saved configs committed, heartbeats on the own node | holds |
| views | 2 requests in flight and 3 in all, 3 keys of which two share a prefix, any revision; 1 agent, time in units of 5 s; pages of two of 4 rows; 1 job, 1 node, 2 scrapes | keys open their account, revoked ones nothing, none while suspended, decisions stick, answers are true; the last schema serves the code, rows survive a migration; offline needs trouble; pages descend and skip nothing; the dashboard misses nothing, a scrape alone is exact | holds |

The types of Fleet, JobLogs and Registration are proved (`TypeCorrect` of their proof
modules) and have no run.

The violated runs are disagreements between the code and what its documents,
comments or tests of it say; `findings` in `PROJECT.json` quotes them. Three of
them share one cause, a check and a write in one handler with nothing that holds
the row between them. In cp_lost_debit two completions have both read the balance when
the first commits, and the second writes its own result over it: `BillIsDeducted`
compares, at the step that ends a run, the balance with what it was just before.

`OneRunningPerNode`, `RunningHasNode`, `CreditsReconcile`, `DrainRespected`,
`CancelWins` and `ImplementsLifecycle` hold for one request at a time; with two
in flight each has a counterexample. Two overlapping claims of one node, e.g.,
both find no running job, and SKIP LOCKED gives them different ones: the node
then runs two, where INSTRUCTIONS.md:132 asks for one.

### What the models say of the code beside the runs

* The status that `complete_job` reads and the running job that `claim_for_node` asks
  for are not locked. How far that goes is proved: a job is billed at most as often as
  sessions can complete it together, a node runs at most as many jobs as sessions can
  claim together. A completion repeated after the first's commit, or a claim made
  after the first's, does no harm.
* A cancel that read a job as queued can mark it cancelled after its claim, as in
  cp_overwrite. The node has nothing running then; if the job's goroutine has not set
  `runningID` yet, the agent claims again and starts a second container beside the
  first, though daemon.go:2 says it "claims queued jobs when idle" and INSTRUCTIONS.md:138
  "if idle, try to claim a job". `AgentRunsOneJob` and `RunsEndByReport`
  hold and say how far this goes: of two jobs in the agent's hands one is cancelled, and
  nothing but such a cancel or its own report ends a job under its container.
* A job that was cancelled under its container still sends its report, which is refused,
  unless the completion had read it before: then the completion overwrites the
  cancellation and bills the run.
* A claim the agent gave up can overlap its next one, and both find the node free: it
  then has two running jobs, of which the agent knows one. When the other is cancelled,
  the heartbeat names it and the agent kills the container it has, of a job nobody
  cancelled; by INSTRUCTIONS.md:95 `cancel_job_id` is about "the node's
  current job", and the agent does not compare it. `KillsWithCause` says that this
  is the only way: the named job is then one the agent does not work on.
* Two overlapping decisions about an account can leave the earlier one in place
  and answer both with success: the UPDATE of an approval that saw the account
  active names no status. `DecisionsStick` says this is the only way (`blind`).
* Two overlapping scrapes clear each other's gauges, and either may answer less
  than it read, hence `alone` in `AloneScrapeIsExact`.
* A key revoked while its request is in flight still serves it; so does a status
  read before a suspension. Neither outlives the request: this is what
  `RevokedKeyIsOut` and `NoKeyWhileSuspended` say, and they deny neither.
* A row of `job_logs` can be stored behind a reader's cursor once batches overlap, after
  the pump's end or a drop; `ReaderMissesNothing` is about the time before.
* The dashboard counts the live jobs before the ended ones. The order is why a job
  that ends between two statements is counted twice rather than missed; the
  altered order loses it.
* `job_logs` has its unique constraint from the migration alone: the model declares
  none, so that a schema made from the models would refuse ON CONFLICT.
* A node is online at 60 s exactly: the code compares with `<=` (node_status.py:20)
  where its docstring has "fresher than 60s" (node_status.py:13). One call in trouble, a
  lost heartbeat or one that hangs for 30 s, does not take a node offline as long as the
  others take less than a tick. Two can. So can a heartbeat its agent gave up, or a
  metrics push, that was stamped early and is committed late: `update_last_seen` does not
  compare the stamp with the one that is there.
* `grant-admin` writes no audit event, so that `audit_log` alone does not tell who
  made an administrator.

### Bounds, and why they are enough

* Two sessions: each hazard here is a race of two handlers. A third one could only
  matter for a chain of waits, and `DeadlocksAreBroken` proves, for any number of
  sessions, that a deadlock of any length contains the pair the run explores.
* One or two jobs, one or two nodes: with two of each, "another job" and "another
  node" exist, ids are ordered as `created_at` orders them, and a two-GPU job fits
  one node only. The proofs remove these bounds for what they prove.
* `RunTimes` has a run shorter than its bill's minimum of one hour and one longer
  than its budget, so that the floor at zero happens.
* `MaxFaults = 2` covers a fault and its echo (a claim handled late, after a
  restart). It bounds faults, never regular steps. A fault brings one late claim at
  most, so that two claims overlap with one fault and three with two. `Cancels` has one
  element: one cancel is in flight at a time, any number one after the other. One agent:
  agents meet only in the tables, where a job has one holder; the theorems are for any
  number of agents, jobs, cancels and faults.
* `MaxLines = 1` per scanner plus the runner's three or four lines give batches
  of several writers; `Oversized` makes one of them unacceptable; `PageLimit = 1` makes
  the reader page.
* Three agent tokens: one more than there are sessions, so that a third use of a
  claim token would show; a prefix of two tokens, so that one is given away again.
* `MaxRequests = 3` in views: two requests that race and one that sees the result.
  Its initial states have a second account of any status with a key in force or revoked, so that
  a request does not go into making one. Three keys: two with one prefix, and one
  without a rival.
* Pages of two among four rows and two instants: rows share a `created_at` within
  a page and across its end, and a page is left to follow. One job and one node for
  the dashboard and the scrapes, because each is counted alone.
* `Tick = 2`: time is told in units of 5 s, so that a heartbeat is answered within its
  tick, late in it, or after the next; `OfflineTakesTwo` is for every `Tick`. Ages beyond 60 s
  are not told apart (`MaxAge`), nor are more than two calls in trouble (`Enough`);
  one metrics push or abandoned heartbeat is under way at a time.
* The log runs and views have `CHECK_DEADLOCK FALSE`: a job's log ends, requests run
  out at their bound, and a deleted node's or finished listing's reader is done. All
  other runs check deadlock freedom.

### Fairness, and why the code justifies it

* ControlPlane: strong fairness of each handler's continuation and of the deadlock
  detector. asyncio resumes a coroutine whose statement has returned, and
  PostgreSQL grants row locks in the order of the queue, so a waiter that is
  enabled again and again gets its turn. No fairness is assumed of arriving requests.
* Fleet: weak fairness of each agent's ticker (every 10 s, each request bounded by
  the client's 30 s timeout) and of each job goroutine (the container is given
  `max_duration_seconds`). None of users, of a cancel's handler, of faults, or of late
  requests.
* JobLogs: weak fairness of the runner, of the HTTP client (timeouts of 30 s and
  3 s) and of the server. None of the ticker or the reader.
* Registration and Views: none; only safety is stated. In NodeStatus an agent
  that is free takes its tick before time goes on, which is what a ticker does.

Symmetry is used in `cp_concurrent` and `cp_lost_debit` (sessions), `reg_races` (sessions and machines)
and `views` (sessions, the keys with one prefix, the users but the administrator),
which check no liveness.

## 4. The proofs

### The control plane

`ControlPlaneProofs` proves of `Spec`, for any number of jobs, nodes, users and
sessions and any capacities, durations and grants (`ConstantsAssumption` only):

| theorem | states |
|---|---|
| `TypeCorrect` | `Spec => []TypeOK`, which includes that no balance is negative |
| `NeverAssignedTwice` | `Spec => []AssignedOnce` |
| `AlwaysFits` | `Spec => []AssignmentFits` |
| `EndedForGood` | `Spec => EndedStaysEnded` |
| `Invariance` | `Spec => []Inv`, the inductive invariant the others follow from |
| `DeadlocksAreBroken` | `Spec => []DeadlocksArePairs`: whoever waits in a circle, there is a claim and a deletion that wait for each other |
| `BillsAreBounded` | for finitely many sessions, no job is billed more often than there are sessions |
| `RunsAreBounded` | for finitely many sessions, no node runs more jobs than there are sessions |

None of the first four is inductive by itself: a claim writes, in its commit, what it
checked three awaits earlier. `Inv` therefore adds to the type invariant what a
request in flight relies on: the row a session has locked is held by no other
session; a claim that holds a job finds it still queued, fitting and pinned
to nobody else; the node a flushed claim refers to exists until it commits,
because the deletion waits for it; the job of a cancel or completion in flight
exists; a queued job was never assigned (`RequestOK`, `Apart`, `Unstarted`). The
proof has one lemma per action, then combines them over `Next`. `OnlyCommitsWrite` says
once that six commits write a job or its audit log and no other step does; what
follows step by step for jobs then looks at those six. `EndedForGood`
needs the same invariant: only a claim starts a job, and the job it holds is
still queued.

`DeadlocksAreBroken` rests on `Waits(s, t)`, which session waits for which, and
`WaitsAreTheGuards` proves it to be the negation of the lock guards of the actions.
Most locks are taken by the last statement before the commit, so that only a
claim with its job locked and a flushed deletion both hold a lock and wait for one
(`WaitersThatHold`). They wait for each other's kind, and a locked job is queued,
hence named only by the node it is pinned to (`PinnedToTheSame`): every circle of waits
closes after two, which is the pair `DeadlockVictim` breaks. This is what can be proved
of `RequestsEnd`; that a wait ends once its lock is free is fairness, and TLC's.

The last two count. The bills of a job and the completions in flight that have passed the
status check are together at most as many as the sessions, and so are the running jobs of
a node and the claims in flight that found it free (`Counted`): a handler passes its
check only while there are none of the former. With one session it is one bill
and one job; with two, TLC's counterexamples show that the bound is reached.

The proof is where the role of each lock is visible: without SKIP LOCKED's free row in
`Claimable`, or the foreign key's wait in `ClaimFlush`, the corresponding steps
have no proof (and TLC has a counterexample).

### The control plane, one request at a time

`SerialProofs` proves of the same `Spec` what needs `OneAtATime`, that any two sessions
are one, and is false without it:

| theorem | states |
|---|---|
| `RefinesLifecycle` | `OneAtATime /\ Spec => ImplementsLifecycle` |
| `BalanceIsAudited` | `OneAtATime /\ Spec => []CreditsReconcile` |
| `NodesRunOneJob` | `OneAtATime /\ Spec => []OneRunningPerNode` |
| `BusyNodesStay` | `OneAtATime /\ Spec => []RunningHasNode` |
| `DrainsAreRespected` | `OneAtATime /\ Spec => DrainRespected` |
| `CancellationsWin` | `OneAtATime /\ Spec => CancelWins` |
| `EveryRunIsPaidOnce` | `OneAtATime /\ Spec => []AuditAgrees` |

`SerialInv` adds to `Inv` that whatever a handler has read is still true (`StillTrue`):
the status a cancel branches on, the balance a bill is taken from, that a node runs
nothing. These are the facts that two requests in flight destroy, one counterexample
each. `StepEffect` says once what a step does to the jobs (`Submits`, `Starts`,
`Withdraws`, `Ends`, `Forgets`, or nothing the abstract life sees), and the invariants,
the action properties and the refinement follow from the effect. `BalanceIsAudited`
rests on `DeductTwice`: a balance floored at zero twice is the balance floored once. `AuditAgrees` says what the
audit log has of each job: one that completed or failed was assigned, ended and billed
once; a cancelled one was billed exactly if it had been assigned; a queued one has
no entry, and a running one has only been assigned.

### Registration

`RegistrationProofs` proves, for any tokens, prefixes, machines and finitely many
sessions (`RegistrationAssumption`): `LookupsAreUnique`, `AllOrNothing`,
`SavedIsCommitted`, `HeartbeatsAreOwn`, `TypeCorrect`, and `UsesAreBounded`. The
invariant adds what an insertion under way relies on (its prefix is taken by no
row and by no other insertion), and that an agent token not yet registered has no
trace. `UsesAreBounded` counts: the nodes made with a token plus the registrations
that hold it never exceed the number of sessions, because a registration reads a
token as valid only while no node was made with it.

With one session this says that a claim token registers one node, as
`test_nodes.py` expects ("already used"). With two in flight it says two, and TLC
has the behaviour: `register_node` reads `consumed_at` without a lock.

### Accounts

`AccountsProofs` proves of `Accounts`, for any users, addresses, keys, prefixes and
sessions and any number of requests (`AccountsAssumption`, and that NULL is no row):

| theorem | states |
|---|---|
| `TypeCorrect` | `Spec => []TypeOK` |
| `AddressesAreUnique` | `Spec => []EmailsUnique` |
| `KeysOpenTheirAccounts` | `Spec => []KeyOpensItsAccount` |
| `RevokedKeysAreOut` | `Spec => []RevokedKeyIsOut` |
| `SuspendedGetNoKey` | `Spec => []NoKeyWhileSuspended` |
| `LastDecisionHolds` | `Spec => []DecisionsStick` |
| `CallersAreToldTheTruth` | `Spec => []AnswersAreTrue` |
| `DeployedAccountsAreSafe` | the five before it, of `ViewsSpec` |

The invariant says of the tables that addresses and prefixes are unique and that
keys and credentials refer to rows (`Rooted`); and of a request (`RequestOK`) who it
acts for (`ActorOK`), what its stage implies about its subject (`StageOK`), that one
with a revoked key is at authentication or refused (`DeadOK`), that a caller who was never
active during the request is not active now and was not when authenticated (`BarredOK`),
and that a decision which no other has overtaken knows the status it changes
(`SeenOK`). The last is why `DecisionsStick` holds: an UPDATE that leaves the status
out does so because the row has it already, unless the decision is blind. Commits that
only add rows or revoke keys keep every other request's part of the invariant (`Grows`,
`Stays`); a decision changes one status, and every request in flight notices it
(`Notices`).

`CallersAreToldTheTruth` has an invariant of its own beside it. `TruthOK` says of every
request from its commit on what its answer will claim: the address signed up is one
account's, the key is there, or revoked, the account's status is what the
administrator asked for unless another decision was committed since the row was read, a
login's event is written; and of a refusal that it has committed nothing but a login's
event. `Lasts` says that a
step takes no account or key away, changes no address and restores no key, so that what
one request was told stays true while the others go on. A lost connection, before or
after the commit, is the 500 that `broke` records.

`Spec` starts with an administrator. `DeployedAccountsAreSafe` carries the
results over to the API as it is deployed and as `views` checks it: in every behaviour of
`ViewsSpec`, from an empty database after any migrations too.

### The fleet

`FleetProofs` proves of `Fleet`, for any jobs, agents and cancels in flight and any number
of lost messages and restarts (`FleetAssumption`):

| theorem | states |
|---|---|
| `WorkIsAssigned` | `Spec => []RunsAreAssigned` |
| `OneJobAtATime` | `Spec => []AgentRunsOneJob` |
| `RunsEndAsReported` | `Spec => RunsEndByReport` |
| `KillsHaveCause` | `Spec => KillsWithCause` |
| `OnlyFaultsStrandJobs` | `Spec => OnlyFaultsStrand` |
| `OneBillPerJob` | `Spec => []BilledOnce`: one bill a job, however often and late its end is reported, and whatever cancels overtake it |
| `TypeCorrect` | `Spec => []TypeOK` |

A job is assigned once, since nothing makes it queued again; the agent that was told of
it reports it once, in time or late, and until then it is not billed. That is the core of the
invariant (`RunsAreAssigned`, `LateIsOver`, `OneReport`, `BilledOnce`): whoever has a job in
its hands, or has given up a report of it, is its holder, and no other has it or reports
it. A status that an overlapping cancel wrote does not disturb this, because the report that
was read before it is still the only one.

The agent tests nothing that would keep it from two jobs: between an answered claim and
the goroutine's first statement it is idle in its own eyes. What keeps it from two that
run is the check of the claim it waits for, which comes after its last job was assigned.
`FreeRunsNothing` carries the check from there to the assignment: nothing the agent
works on runs in the tables, and since a job that has left RUNNING never returns to it, no
later commit undoes this. It is about what the *agent* works on. That the *node* runs
nothing is not kept, for a claim given up may assign it a job. `GivenIsFresh` says that a
job about to start has no goroutine that could still report it.

`ToldRan` is about the heartbeat's answer on its way to the decision: the job it names was
the agent's own, and if the agent works on it, all else it works on is cancelled. This is why
`cancelRun` kills with cause without looking at `cancel_job_id`, as long as the named job is
one the agent works on; the late claim above is the case where it is not.

`OnlyFaultsStrandJobs` is what `JobsEnd` rests on: the answer that assigns a job puts it in
the agent's hands in the same step, it is handed on without a gap, and the step that takes
it away ends it, unless it is a fault. A refused report does not strand a job,
because it is refused only when the job has ended. Lost heartbeats do not break this
chain. That the agent then goes on to the end is fairness, and TLC's.

### Job logs

`JobLogsProofs` proves of `JobLogs`, for any scanners, lines, oversized lines and page
limit, with a network that loses or not (`LogAssumption`):

| theorem | states |
|---|---|
| `TypeCorrect` | `Spec => []TypeOK` |
| `NoLineVanishes` | `Spec => []LinesAccounted` |
| `CleanRunIsStored` | when the run is done, its requests have returned and nothing was dropped, every line is in `job_logs` |
| `LogsKeepTheOrder` | `Spec => []StreamsInOrder` |
| `ExitIsTheLastLine` | `Spec => []ExitComesLast` |
| `FollowingMissesNothing` | `Spec => []ReaderMissesNothing` |

Batches are sent by two flushers and may be stored in any order, long after the agent has
given them up. The streams keep theirs
because it is decided before any of that: `Emit` numbers a line under the lock that
puts it in the buffer, so that of all entries there are, wherever they are, each line has
one number (`OneEach`), earlier lines of a stream have lower ones (`InOrder`), and what
is still in the buffer was numbered last (`BufferLast`). `Accounted` holds where every
emitted line is; `RunnerLast` says that the scanners are done before the exit line.
`FollowingMissesNothing` is the delicate one, because a row behind the reader's
cursor is never asked for again: it takes `OneOnItsWay`, that while the pump runs and
has dropped nothing one batch at most is on its way, and it comes after all that is
stored. That is the doing of the agent's waiting for an answer before the next one. A page is the lowest rows above the cursor;
`PageIsComplete` proves that nothing below its last row is left out.

### What readers are shown

`ReadersProofs` proves of `ViewsSpec`, for any jobs, nodes and scrapers, any finite set of rows, any page size and number of instants:

| theorem | states |
|---|---|
| `OfflineTakesTwo` | `ViewsSpec => []OfflineNeedsTrouble`, for every `Tick` |
| `DashboardIsComplete` | `ViewsSpec => []DashboardMissesNothing` |
| `LoneScrapeIsExact` | `ViewsSpec => []AloneScrapeIsExact` |
| `PagesAreInOrder` | `ViewsSpec => []PagesDescend` |
| `PagesAreComplete` | `ViewsSpec => []NothingDueIsSkipped` |

* A node's age is bounded by where its agent is (`AgeIsKept`): with no call in trouble it is
  at most three ticks when the next heartbeat is recorded (`NoneInTrouble`), and with one that
  took the whole timeout six (`OneInTrouble`), which is 60 s. A stamp is younger than its call
  (`CallsInTime`), so that a late commit does not make the row older than the bound. The
  proof takes one unit of time after the other, for units of any size that divides a tick.
* A job the dashboard is due to show was live when the first statement ran and is in its
  figure, or was over by then and is in the figure of its status once that statement has
  run (`Counted`). It rests on the job never leaving a terminal status
  (`TerminalStays`): with the live jobs counted last, one can end in between.
* A scrape that is alone has cleared the gauges, and nobody else has set one since
  (`NobodyElse`, `GaugesAreRead`).
* The pages rest on two facts about one query: a page is sorted and made of the newest
  rows found (`PageIsSorted`, from `Ranks`: the rank is one-to-one on a finite set that
  `Newer` orders totally, `NewerIsAnOrder`). Then the cursor is the key of the last row
  shown (`CursorIsLast`), and a row that is due was shown or is below the cursor
  (`DueIsAhead`); inserted rows may land on either side of it and concern neither.

The assumptions are `TickAssumption` (a tick has at least one unit), `PagesAssumption` (ids are ordered as numbers, a table is finite)
and `NoneIsARow` (the values that stand for no row and no cursor are neither).

### The migrations

`SchemaProofs` proves of `ViewsSpec`, that is, beside all that the API does meanwhile:

| theorem | states |
|---|---|
| `MigratedServesTheCode` | `ViewsSpec => []HeadServesTheCode` |
| `MigrationsApply` | `ViewsSpec => []RowsSurvive` |

The invariant is that the schema is what the revisions up to the current one have made
(`SchemaInv`), however often the database went up and down. A downgrade must therefore
undo its revision and nothing else: each of the ten takes away only what it had added
(`Goes`, `UpgradesGo`), which no earlier revision added too. What the models ask of the
head is compared table by table (`HeadUsers`, ..., `HeadHasTheModels`); `RevisionsApply`
says that a column which every INSERT must name comes with a new table only, where no
row can lack it, and that the tables a revision refers to are there.
`SchemaAt` is a recursive function; `SchemaAtMade` shows it equal to the
union of the revisions by giving the function that satisfies its equation.

### Only model-checked

* Liveness: `RequestsEnd`, `JobsEnd`, `RunFinishes`. TLAPS does not reason about fairness
  and ENABLED.
* The properties of the violated runs, which are false.

## 5. What is not modelled

* Passwords and tokens: a login has the right password or not, a JWT names its
  account, has expired, or is nobody's. bcrypt and jose are libraries.
* In ControlPlane, authentication and ownership checks: a request of the wrong caller
  is refused on its first read and changes nothing. Authentication itself is in
  Accounts.
* Reads that take one statement (`/me`, the lists of keys and nodes, one job), and the
  budget checks of the user interface.
* Exit codes and messages beyond the outcome they select; the content of logs and
  of audit events.
* Column types, plain indexes and `updated_at` of the schema.
* HTTP counters and histograms: they are added to and never read by the program.
* In Fleet: drains, deletions, pins and capacities, aborted handlers of requests an
  agent still waits for other than as lost messages (they are ControlPlane's); what
  docker does when its CLI is killed.
* GPU detection and the agent's command line: they parse a tool's output and print,
  and what registration gets from them is data.
* Configuration, the images and scripts of the deployment, the web apps (their logs
  are mocked).

## 6. What could follow

1. Fleet with drains and deletions of nodes: what an agent does when its token
   stops working while a container runs.
2. A submission against the balance its overlapping siblings use: the code promises
   no reservation, so that a property would first have to be asked for.
