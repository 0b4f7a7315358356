------------------------------- MODULE JobLogs -------------------------------
(***************************************************************************)
(* The log of one job, from the lines its container writes to the client    *)
(* that reads them: the agent's scanners and its log pump (daemon.go), the   *)
(* table job_logs with its unique (job_id, sequence), and a client that      *)
(* follows the log with after_sequence.                                     *)
(*                                                                         *)
(* Three goroutines of the agent share the buffer: the scanners and the     *)
(* runner emit, the pump's ticker takes all of it and POSTs it, and at the   *)
(* end of the job the runner stops the pump and POSTs what is left.         *)
(***************************************************************************)
EXTENDS Integers, FiniteSets

CONSTANTS
  Scanners,   \* the streamPipe goroutines of a run: stdout and stderr
  MaxLines,   \* bound: the lines each of them reads
  Oversized,  \* lines longer than the 64 KiB job_logs accepts, as <<scanner, k>>
  PageLimit,  \* the reader's limit
  Lossy       \* whether requests and answers can be lost or time out

ASSUME LogAssumption ==
  /\ "runner" \notin Scanners
  /\ MaxLines \in Nat
  /\ PageLimit \in Nat \ {0}
  /\ Lossy \in BOOLEAN

Writers == Scanners \cup {"runner"}

VARIABLES
  phase,    \* where runJob is
  open,     \* the scanners that have not reached the end of their pipe
  lines,    \* how many lines each writer has emitted
  buf,      \* logPump.buf
  nextSeq,  \* logPump.nextSeq
  posting,  \* the batch each flush is POSTing, {} when it is not
  wire,     \* batches the control plane may still be handed
  refused,  \* batches it has answered with an error status
  dropped,  \* entries whose batch the agent has given up
  table,    \* rows of job_logs
  cursor,   \* the reader's after_sequence
  shown     \* rows the reader has been given

agentVars == <<phase, open, lines, buf, nextSeq>>
readerVars == <<cursor, shown>>
vars == <<phase, open, lines, buf, nextSeq, posting, wire, refused, dropped,
          table, cursor, shown>>

Flushers == {"ticker", "final"}

\* runJob: the first line, the container, the last lines, complete, pumpCancel
\* and the final flush.
Phases == {"starting", "container", "failing", "exiting", "completing",
           "stopping", "flushing", "done"}

\* A logEntry: which line of which writer it carries, and its sequence.
Entries == [writer : Writers, line : Nat, sequence : Nat]

\* The pump has been told to stop (pumpCancel).
Stopped == phase \in {"flushing", "done"}

-----------------------------------------------------------------------------
(* Emitting *)

\* Fault: sequences count the entries of a batch.
EmitPerBatch(w) ==
  /\ lines' = [lines EXCEPT ![w] = @ + 1]
  /\ buf' = buf \cup {[writer |-> w, line |-> lines[w] + 1,
                       sequence |-> Cardinality(buf)]}
  /\ nextSeq' = nextSeq + 1
  /\ UNCHANGED <<posting, wire, refused, dropped, table, readerVars>>

\* logPump.Emit
Emit(w) ==
  /\ lines' = [lines EXCEPT ![w] = @ + 1]
  /\ buf' = buf \cup {[writer |-> w, line |-> lines[w] + 1, sequence |-> nextSeq]}
  /\ nextSeq' = nextSeq + 1
  /\ UNCHANGED <<posting, wire, refused, dropped, table, readerVars>>

\* "Job ... assigned to node ...", and the container starts.
Started ==
  /\ phase = "starting"
  /\ phase' = "container"
  /\ Emit("runner")
  /\ UNCHANGED open

\* streamPipe: a scanner reads a line, until its pipe ends.
ScanLine(w) ==
  /\ phase # "starting"
  /\ w \in open
  /\ lines[w] < MaxLines
  /\ Emit(w)
  /\ UNCHANGED <<phase, open>>

ScanEnd(w) ==
  /\ phase # "starting"
  /\ w \in open
  /\ open' = open \ {w}
  /\ UNCHANGED <<phase, lines, buf, nextSeq, posting, wire, refused, dropped,
                 table, readerVars>>

\* Fault: the runner does not wait for the scanners.
ContainerEndsEarly ==
  /\ phase = "container"
  /\ phase' \in {"failing", "exiting"}
  /\ UNCHANGED <<open, lines, buf, nextSeq, posting, wire, refused, dropped,
                 table, readerVars>>

\* dockerRun returns after wg.Wait, with or without an error to report.
ContainerEnds ==
  /\ phase = "container"
  /\ open = {}
  /\ phase' \in {"failing", "exiting"}
  /\ UNCHANGED <<open, lines, buf, nextSeq, posting, wire, refused, dropped,
                 table, readerVars>>

\* "Runner error: ..." or "Cancelled by user request"
Failed ==
  /\ phase = "failing"
  /\ phase' = "exiting"
  /\ Emit("runner")
  /\ UNCHANGED open

\* "Container exited (code ...)"
Exited ==
  /\ phase = "exiting"
  /\ phase' = "completing"
  /\ Emit("runner")
  /\ UNCHANGED open

\* POST /complete has returned, with or without an error; then pumpCancel.
GoesOn(from, to) ==
  /\ phase = from
  /\ phase' = to
  /\ UNCHANGED <<open, lines, buf, nextSeq, posting, wire, refused, dropped,
                 table, readerVars>>

Completed == GoesOn("completing", "stopping")
PumpCancel == GoesOn("stopping", "flushing")

-----------------------------------------------------------------------------
(* Flushing *)

\* flush: take the buffer and POST it.
Post(f) ==
  /\ buf # {}
  /\ buf' = {}
  /\ posting' = [posting EXCEPT ![f] = buf]
  /\ wire' = wire \cup {buf}
  /\ UNCHANGED <<open, lines, nextSeq, refused, dropped, table, readerVars>>

\* logPump.run: the ticker fires while no flush of its own is under way.
TickFlush ==
  /\ phase \notin {"starting", "flushing", "done"}
  /\ posting["ticker"] = {}
  /\ Post("ticker")
  /\ UNCHANGED phase

\* select may still choose the ticker when the context is cancelled as well:
\* the buffer is taken, and the request fails before it is sent.
TickFlushCancelled ==
  /\ phase = "flushing"
  /\ posting["ticker"] = {}
  /\ buf # {}
  /\ buf' = {}
  /\ dropped' = dropped \cup buf
  /\ UNCHANGED <<phase, open, lines, nextSeq, posting, wire, refused, table,
                 readerVars>>

\* The final flush, when there is something to send ...
FinalFlush ==
  /\ phase = "flushing"
  /\ posting["final"] = {}
  /\ Post("final")
  /\ UNCHANGED phase

\* ... and the end of runJob, once it has returned.
RunEnds ==
  /\ phase = "flushing"
  /\ buf = {}
  /\ posting["final"] = {}
  /\ phase' = "done"
  /\ UNCHANGED <<open, lines, buf, nextSeq, posting, wire, refused, dropped,
                 table, readerVars>>

\* Fault: the buffer is emptied when the answer comes, not when it is taken.
AnsweredLate(f) ==
  /\ posting[f] # {}
  /\ posting[f] \notin wire
  /\ posting' = [posting EXCEPT ![f] = {}]
  /\ buf' = {}
  /\ dropped' = IF posting[f] \in refused THEN dropped \cup posting[f] ELSE dropped
  /\ UNCHANGED <<phase, open, lines, nextSeq, wire, refused, table, readerVars>>

\* The answer arrives; a batch answered with an error status is not sent again.
Answered(f) ==
  /\ posting[f] # {}
  /\ posting[f] \notin wire
  /\ posting' = [posting EXCEPT ![f] = {}]
  /\ dropped' = IF posting[f] \in refused THEN dropped \cup posting[f] ELSE dropped
  /\ UNCHANGED <<agentVars, wire, refused, table, readerVars>>

\* Fault: a batch that fails goes back to the buffer.
PostFailsRetried(f) ==
  /\ posting[f] # {}
  /\ Lossy \/ (f = "ticker" /\ Stopped)
  /\ posting' = [posting EXCEPT ![f] = {}]
  /\ buf' = buf \cup posting[f]
  /\ wire' \in {wire, wire \ {posting[f]}}
  /\ UNCHANGED <<phase, open, lines, nextSeq, refused, dropped, table, readerVars>>

\* The request fails: the network, a timeout, or pumpCancel for the ticker's
\* one.  The control plane may have been handed it, or still be.
PostFails(f) ==
  /\ posting[f] # {}
  /\ Lossy \/ (f = "ticker" /\ Stopped)
  /\ posting' = [posting EXCEPT ![f] = {}]
  /\ dropped' = dropped \cup posting[f]
  /\ wire' \in {wire, wire \ {posting[f]}}
  /\ UNCHANGED <<agentVars, refused, table, readerVars>>

-----------------------------------------------------------------------------
(* The control plane *)

\* POST /api/jobs/{id}/logs: the schema refuses a batch with an oversized line;
\* ON CONFLICT DO NOTHING skips the sequences job_logs already has.
PushLogs(batch) ==
  /\ batch \in wire
  /\ wire' = wire \ {batch}
  /\ IF \E e \in batch : <<e.writer, e.line>> \in Oversized
       THEN refused' = refused \cup {batch} /\ UNCHANGED table
       ELSE /\ table' = table \cup
                 {e \in batch : \A row \in table : row.sequence # e.sequence}
            /\ UNCHANGED refused
  /\ UNCHANGED <<agentVars, posting, dropped, readerVars>>

\* Fault: no ORDER BY.
ListUnordered(after) ==
  {page \in SUBSET {row \in table : row.sequence > after} :
     Cardinality(page) <= PageLimit}

\* list_after: at most PageLimit rows past the cursor, the first ones.
ListAfter(after) ==
  LET rows == {row \in table : row.sequence > after}
      before(row) == {r \in rows : r.sequence <= row.sequence}
  IN  {{row \in rows : Cardinality(before(row)) <= PageLimit}}

\* A client asks for what follows the last sequence it has seen.
ReadPage ==
  /\ \E page \in ListAfter(cursor) :
       /\ page # {}
       /\ shown' = shown \cup page
       /\ cursor' = CHOOSE q \in {row.sequence : row \in page} :
                      \A row \in page : row.sequence <= q
  /\ UNCHANGED <<agentVars, posting, wire, refused, dropped, table>>

-----------------------------------------------------------------------------
Init ==
  /\ phase = "starting"
  /\ open = Scanners
  /\ lines = [w \in Writers |-> 0]
  /\ buf = {}
  /\ nextSeq = 0
  /\ posting = [f \in Flushers |-> {}]
  /\ wire = {}
  /\ refused = {}
  /\ dropped = {}
  /\ table = {}
  /\ cursor = -1
  /\ shown = {}

Runner ==
  \/ Started \/ ContainerEnds \/ Failed \/ Exited \/ Completed \/ PumpCancel
  \/ FinalFlush \/ RunEnds
  \/ \E w \in Scanners : ScanEnd(w)

Client(f) == Answered(f) \/ PostFails(f)

Next ==
  \/ Runner
  \/ \E w \in Scanners : ScanLine(w)
  \/ TickFlush \/ TickFlushCancelled
  \/ \E f \in Flushers : Client(f)
  \/ \E batch \in wire : PushLogs(batch)
  \/ ReadPage

Spec == Init /\ [][Next]_vars

\* The container ends (runCtx carries max_duration_seconds) and every POST
\* returns: the client has a 30 s timeout, the final flush one of 3 s.
FairSpec ==
  /\ Spec
  /\ WF_vars(Runner)
  /\ \A f \in Flushers : WF_vars(Client(f))
  /\ WF_vars(\E batch \in wire : PushLogs(batch))
-----------------------------------------------------------------------------
(* Properties *)

\* What the agent has, or may still hand over, of the lines it has emitted.
InAgent == buf \cup posting["ticker"] \cup posting["final"]

\* Every variable keeps its type.
TypeOK ==
  /\ phase \in Phases
  /\ open \subseteq Scanners
  /\ lines \in [Writers -> Nat]
  /\ nextSeq \in Nat
  /\ posting \in [Flushers -> SUBSET Entries]
  /\ buf \subseteq Entries /\ dropped \subseteq Entries
  /\ wire \subseteq SUBSET Entries /\ refused \subseteq SUBSET Entries
  /\ table \subseteq Entries /\ shown \subseteq Entries
  /\ cursor \in Nat \cup {-1}

\* No line disappears without a trace (flush: "errors log and drop"): each one
\* emitted is with the agent, stored, or in a batch whose failure was logged.
LinesAccounted ==
  \A w \in Writers, k \in 1..(MaxLines + 3) :
    k <= lines[w] =>
      \E e \in InAgent \cup table \cup dropped : e.writer = w /\ e.line = k

\* job_logs lists the lines of each stream in the order it wrote them, in
\* whatever order the batches arrived.
StreamsInOrder ==
  \A r, q \in table :
    r.writer = q.writer => (r.line < q.line <=> r.sequence < q.sequence)

\* "Container exited" is the last line of the log: dockerRun waits for the
\* scanners before it returns.
ExitComesLast ==
  phase \in {"completing", "stopping", "flushing", "done"} =>
    \A r \in table : r.sequence = nextSeq - 1 => r.writer = "runner"

\* While the pump runs and has dropped nothing, a client that follows the cursor
\* misses no row: list_after pages in order and none appears behind it.  (From
\* pumpCancel on, the last two batches are on their way together.)
ReaderMissesNothing ==
  dropped = {} /\ ~Stopped => shown = {row \in table : row.sequence <= cursor}

\* The agent is free for its next job at last, whatever the network does to its
\* logs: log delivery is best-effort and never holds runJob up.
RunFinishes == <>(phase = "done")

\* "Stopped and final-flushed below so the demo never loses the tail of a job"
\* (runJob): once the run has ended and its requests were handled, the last
\* line the runner emitted is stored.
TailIsStored ==
  phase = "done" /\ wire = {} =>
    \E row \in table : row.writer = "runner" /\ row.sequence = nextSeq - 1
=============================================================================
