--------------------------- MODULE Observability ---------------------------
(***************************************************************************)
(* Two readers of many tables: the admin dashboard, whose statements each see   *)
(* the database at their own moment (READ COMMITTED), and the /metrics scrape,  *)
(* which fills gauges that all scrapes of the process share.                   *)
(***************************************************************************)
EXTENDS Naturals, Sequences, FiniteSets, JobStatus

CONSTANTS Jobs, Nodes, Scrapers   \* model values

VARIABLES
  jobs,       \* job -> its status, and old: completed_at is before the cutoff
  nodes,      \* the nodes there are
  telemetry,  \* the nodes with rows in node_metrics
  dashboard,  \* statements done, and what each counted
  gauges,     \* the process's gauges: which samples each one exports
  scrapes     \* scraper -> where it is, what it read, what it answered; ghost
              \* alone: no other scrape was under way since it began

tableVars == <<jobs, nodes, telemetry, dashboard, gauges, scrapes>>

Sampled == <<"jobs", "nodes", "telemetry">>

JobSamples == {<<j, jobs[j].status>> : j \in Jobs}

\* What a statement on a table sees.
Select(table) ==
  CASE table = "jobs" -> JobSamples
    [] table = "nodes" -> nodes
    [] table = "telemetry" -> telemetry

-----------------------------------------------------------------------------
(* The dashboard *)

\* Fault: what is over is counted before what is under way.
StatementsLate ==
  <<{COMPLETED}, {FAILED}, {CANCELLED}, {QUEUED, RUNNING}, TerminalStatuses>>

\* AdminService.dashboard: the statuses each statement on jobs counts, in order:
\* the live ones, each terminal one, and the jobs the GPU-hours are summed over.
Statements ==
  <<{QUEUED, RUNNING}, {COMPLETED}, {FAILED}, {CANCELLED}, TerminalStatuses>>

DashboardStatement ==
  LET n == Len(dashboard.counted) + 1
      seen == {j \in Jobs : jobs[j].status \in Statements[n] /\ ~jobs[j].old}
  IN  /\ n <= Len(Statements)
      /\ dashboard' = [counted |-> Append(dashboard.counted, seen),
                       due |-> IF n = 1 THEN {j \in Jobs : ~jobs[j].old}
                                        ELSE dashboard.due]
      /\ UNCHANGED <<jobs, nodes, telemetry, gauges, scrapes>>

-----------------------------------------------------------------------------
(* The scrape *)

NotBegun == [next |-> 0, read |-> {}, pending |-> FALSE, alone |-> TRUE,
         got |-> << >>, answer |-> << >>]

NoSamples == [t \in {"jobs", "nodes", "telemetry"} |-> {}]

\* Fault: the GPU gauges are not cleared.
ClearedInPart == [gauges EXCEPT !["jobs"] = {}, !["nodes"] = {}]

\* The clear() calls at the head of refresh_platform_gauges.
Cleared == NoSamples

UnderWay(s) == scrapes[s].next \in 1 .. 3

\* A scrape begins: it clears every gauge and sends its first statement.
BeginScrape(s) ==
  /\ scrapes[s].next = 0
  /\ gauges' = Cleared
  /\ scrapes' = [r \in Scrapers |->
       IF r = s THEN [NotBegun EXCEPT !.next = 1, !.alone = ~ \E q \in Scrapers : UnderWay(q)]
       ELSE [scrapes[r] EXCEPT !.alone = @ /\ ~UnderWay(r)]]
  /\ UNCHANGED <<jobs, nodes, telemetry, dashboard>>

\* The database runs the statement the scrape waits for.
ScrapeSelect(s) ==
  /\ UnderWay(s) /\ ~scrapes[s].pending
  /\ scrapes' = [scrapes EXCEPT ![s].pending = TRUE,
                                ![s].read = Select(Sampled[scrapes[s].next])]
  /\ UNCHANGED <<jobs, nodes, telemetry, dashboard, gauges>>

\* The scrape goes on: every status has its sample set, a GPU's is added; after the
\* last statement the gauges are rendered at once.
ScrapeSet(s) ==
  LET table == Sampled[scrapes[s].next]
      set == [gauges EXCEPT ![table] = IF table = "telemetry"
                                       THEN @ \cup scrapes[s].read ELSE scrapes[s].read]
  IN  /\ scrapes[s].pending
      /\ gauges' = set
      /\ scrapes' = [scrapes EXCEPT ![s].pending = FALSE, ![s].next = @ + 1,
                                    ![s].got = Append(@, scrapes[s].read),
                                    ![s].answer = IF table = "telemetry"
                                                  THEN [n \in 1 .. 3 |-> set[Sampled[n]]] ELSE @]
      /\ UNCHANGED <<jobs, nodes, telemetry, dashboard>>

-----------------------------------------------------------------------------
(* What changes meanwhile *)

Transition(j) ==
  /\ \E s \in JobStatuses :
       /\ AssertTransition(jobs[j].status, s)
       /\ jobs' = [jobs EXCEPT ![j] = [status |-> s, old |-> FALSE]]
  /\ UNCHANGED <<nodes, telemetry, dashboard, gauges, scrapes>>

\* register_node.
Register(n) ==
  /\ n \notin nodes
  /\ nodes' = nodes \cup {n}
  /\ UNCHANGED <<jobs, telemetry, dashboard, gauges, scrapes>>

\* record_metrics: the foreign key refuses samples of a node that is gone.
RecordMetrics(n) ==
  /\ n \in nodes
  /\ telemetry' = telemetry \cup {n}
  /\ UNCHANGED <<jobs, nodes, dashboard, gauges, scrapes>>

\* delete_node, and ON DELETE CASCADE.
RemoveNode(n) ==
  /\ n \in nodes
  /\ nodes' = nodes \ {n}
  /\ telemetry' = telemetry \ {n}
  /\ UNCHANGED <<jobs, dashboard, gauges, scrapes>>

TablesInit ==
  /\ nodes = {} /\ telemetry = {}
  /\ dashboard = [counted |-> << >>, due |-> {}]
  /\ gauges = NoSamples /\ scrapes = [s \in Scrapers |-> NotBegun]

\* The dashboard starts on a table with jobs of any status.
DashboardInit ==
  /\ TablesInit
  /\ jobs \in [Jobs -> {[status |-> s, old |-> o] : s \in JobStatuses, o \in BOOLEAN}]
  /\ \A j \in Jobs : jobs[j].old => jobs[j].status \in TerminalStatuses

ScrapeInit == TablesInit /\ jobs = [j \in Jobs |-> [status |-> QUEUED, old |-> FALSE]]

DashboardNext == DashboardStatement \/ \E j \in Jobs : Transition(j)

ScrapeNext ==
  \/ \E s \in Scrapers : BeginScrape(s) \/ ScrapeSelect(s) \/ ScrapeSet(s)
  \/ \E j \in Jobs : Transition(j)
  \/ \E n \in Nodes : Register(n) \/ RecordMetrics(n) \/ RemoveNode(n)

-----------------------------------------------------------------------------
(* Properties *)

\* Every job that is live, or was over within the day, is in one of the figures of
\* the dashboard though its status moves while the statements run; and every job
\* counted as over is in the sum of GPU-hours (the order of the statements).
DashboardMissesNothing ==
  LET done == dashboard.counted
  IN  Len(done) = Len(Statements) =>
        /\ dashboard.due \subseteq UNION {done[n] : n \in 1 .. 4}
        /\ done[2] \cup done[3] \cup done[4] \subseteq done[5]

\* A scrape that no other overlaps answers exactly what it read, and no sample of
\* a GPU whose node is gone or of an earlier scrape (the clear() calls, and
\* rendering without an await after the last set).
AloneScrapeIsExact ==
  \A s \in Scrapers :
    scrapes[s].next = 4 /\ scrapes[s].alone => scrapes[s].answer = scrapes[s].got
=============================================================================
