---------------------------- MODULE JobLogsProofs ----------------------------
(***************************************************************************)
(* Safety of JobLogs for any scanners and lines, any page limit, and however  *)
(* many batches are refused, lost or late.                                    *)
(***************************************************************************)
EXTENDS JobLogs, FiniteSetTheorems, WellFoundedInduction, TLAPS

\* The entries that have left the buffer, and every entry there still is.
Posted ==
  posting["ticker"] \cup posting["final"] \cup (UNION wire) \cup (UNION refused)
    \cup dropped \cup table
Seen == buf \cup Posted

\* An entry was numbered by Emit: below the next sequence, and one of the lines
\* its writer has emitted.
Numbered ==
  \A e \in Seen : e.sequence < nextSeq /\ e.line \in 1 .. lines[e.writer]

\* No two entries share a sequence, so that ON CONFLICT skips only what is stored.
OneEach == \A d, e \in Seen : d.sequence = e.sequence => d = e

\* A writer's entries are numbered in the order of its lines.
InOrder ==
  \A d, e \in Seen :
    d.writer = e.writer => (d.line < e.line <=> d.sequence < e.sequence)

\* What is in the buffer came after all that has left it.
BufferLast == \A d \in Posted, e \in buf : d.sequence < e.sequence

\* A batch whose answer is awaited is on its way, refused, or stored.
Settled ==
  \A f \in Flushers : posting[f] \in wire \cup refused \/ posting[f] \subseteq table

\* The two flushes have taken different entries.
Apart == posting["ticker"] \cap posting["final"] = {}

\* Each line emitted is with the agent, stored, or given up.
Accounted ==
  \A w \in Writers, k \in Nat \ {0} :
    k <= lines[w] =>
      \E e \in InAgent \cup table \cup dropped : e.writer = w /\ e.line = k

\* The scanners have ended once dockerRun has returned.
ScannersDone == phase \notin {"starting", "container"} => open = {}

\* The phases from the exit line on.
Ending == {"completing", "stopping", "flushing", "done"}

\* From then on, the last line is the runner's.
RunnerLast ==
  phase \in Ending =>
    \A e \in Seen : e.sequence = nextSeq - 1 => e.writer = "runner"

\* While the pump runs and has dropped nothing, the ticker's batch is the only one
\* on its way, and what it carries comes after all that is stored.
OneOnItsWay ==
  /\ {} \notin wire
  /\ ~Stopped => posting["final"] = {}
  /\ dropped = {} /\ ~Stopped =>
       \A b \in wire :
         b = posting["ticker"] /\ \A e \in b, r \in table : r.sequence < e.sequence

\* The cursor is the sequence of a row, or the client has seen none.
CursorOfRow == cursor = -1 \/ \E r \in table : r.sequence = cursor

\* runJob ends when the final flush has emptied the buffer and is answered.
DoneIsEmpty == phase = "done" => buf = {} /\ posting["final"] = {}

Inv ==
  /\ TypeOK
  /\ Numbered /\ OneEach /\ InOrder
  /\ BufferLast /\ Settled /\ Apart /\ Accounted
  /\ ScannersDone /\ RunnerLast /\ DoneIsEmpty
  /\ OneOnItsWay /\ CursorOfRow /\ ReaderMissesNothing
-----------------------------------------------------------------------------
(* Numbers *)

\* A set of naturals that has a member and an upper bound has a greatest member:
\* its least upper bound is one of them.
LEMMA GreatestNatural ==
  ASSUME NEW S, S \subseteq Nat, S # {}, NEW n \in Nat, \A s \in S : s <= n
  PROVE  \E m \in S : \A s \in S : s <= m
<1> DEFINE Bounds == {b \in Nat : \A s \in S : s <= b}
           T == {0 .. b : b \in Bounds}
           R == StrictSubsetOrdering(Nat)
<1>1. \A b \in Nat : 0 .. b \in FiniteSubsetsOf(Nat)
  BY FS_Interval DEF FiniteSubsetsOf
<1>2. T \subseteq FiniteSubsetsOf(Nat) /\ T # {}
  BY <1>1
<1>3. PICK x \in T : \A y \in T : ~ (<<y, x>> \in R)
  <2>1. IsWellFoundedOn(R, FiniteSubsetsOf(Nat))
    BY FS_StrictSubsetOrderingWellFounded
  <2> HIDE DEF R, T
  <2> QED
    BY <1>2, <2>1, WFMin
<1>4. PICK m \in Bounds : x = 0 .. m
  BY <1>3
<1>5. CASE m \in S
  BY <1>5, <1>4
<1>6. CASE m \notin S
  <2>1. \A s \in S : s <= m - 1 /\ 0 <= s
    BY <1>6, <1>4
  <2>2. m - 1 \in Bounds
    <3>1. PICK s \in S : TRUE
      OBVIOUS
    <3>2. m - 1 \in Nat
      BY <3>1, <2>1, <1>4
    <3> QED
      BY <3>2, <2>1
  <2>3. 0 .. (m - 1) \in T
    BY <2>2
  <2>4. 0 .. (m - 1) \subseteq 0 .. m /\ m \in 0 .. m /\ m \notin 0 .. (m - 1)
    BY <1>4
  <2>5. 0 .. (m - 1) \in SUBSET Nat /\ 0 .. m \in SUBSET Nat
    BY <1>4, <2>2
  <2>6. <<0 .. (m - 1), 0 .. m>> \in R
    BY <2>4, <2>5 DEF StrictSubsetOrdering
  <2> QED
    BY <1>3, <1>4, <2>3, <2>6
<1> QED
  BY <1>5, <1>6

\* job_logs is finite: its sequences are distinct and below nextSeq.
LEMMA TableFinite ==
  ASSUME TypeOK, Numbered, OneEach
  PROVE  IsFiniteSet(table)
<1> DEFINE f == [e \in table |-> e.sequence]
           S == 0 .. nextSeq
<1>1. table \subseteq Entries /\ nextSeq \in Nat
  BY DEF TypeOK
<1>2. \A e \in table : e.sequence \in S
  BY <1>1 DEF Numbered, Seen, Posted, Entries
<1>3. f \in [table -> S]
  BY <1>2
<1>4. \A d, e \in table : f[d] = f[e] => d = e
  BY DEF OneEach, Seen, Posted
<1>5. f \in Injection(table, S)
  BY <1>3, <1>4 DEF Injection, IsInjective
<1>6. IsFiniteSet(S)
  BY <1>1, FS_Interval
<1> QED
  <2> HIDE DEF f, S
  <2> QED
    BY <1>5, <1>6, FS_Injection

\* Every entry, wherever it is, is one.
LEMMA SeenEntries == ASSUME TypeOK PROVE Seen \subseteq Entries /\ buf \subseteq Entries
BY DEF TypeOK, Seen, Posted, Flushers

-----------------------------------------------------------------------------
(* The reader *)

\* The sequence the client asks after once it has been given a page.
LastOf(page) ==
  CHOOSE q \in {row.sequence : row \in page} : \A row \in page : row.sequence <= q

\* list_after returns all rows from the cursor to the last one it returns.
LEMMA PageIsComplete ==
  ASSUME TypeOK, Numbered, OneEach,
         NEW page \in ListAfter(cursor), page # {}
  PROVE  /\ page \subseteq table
         /\ LastOf(page) \in Nat
         /\ \E row \in table : row.sequence = LastOf(page)
         /\ page = {row \in table :
                      cursor < row.sequence /\ row.sequence <= LastOf(page)}
         /\ cursor < LastOf(page)
<1> DEFINE rows == {row \in table : row.sequence > cursor}
           before(row) == {r \in rows : r.sequence <= row.sequence}
           S == {row.sequence : row \in page}
<1>1. page = {row \in rows : Cardinality(before(row)) <= PageLimit}
  BY DEF ListAfter
<1>2. /\ page \subseteq rows /\ rows \subseteq table /\ table \subseteq Entries
      /\ cursor \in Int /\ nextSeq \in Nat
  BY <1>1 DEF TypeOK
<1>3. \A row \in rows : row.sequence \in Nat /\ row.sequence <= nextSeq
  BY <1>2 DEF Numbered, Seen, Posted, Entries
<1>4. S \subseteq Nat /\ S # {} /\ \A s \in S : s <= nextSeq
  BY <1>2, <1>3
<1>5. \E m \in S : \A s \in S : s <= m
  <2> HIDE DEF S
  <2> QED
    BY <1>2, <1>4, GreatestNatural
<1>6. LastOf(page) \in S /\ \A row \in page : row.sequence <= LastOf(page)
  BY <1>5 DEF LastOf
<1>7. PICK last \in page : last.sequence = LastOf(page)
  BY <1>6
<1>8. LastOf(page) \in Nat /\ cursor < LastOf(page)
  BY <1>2, <1>3, <1>7
<1>9. ASSUME NEW row \in rows, row.sequence <= LastOf(page)
      PROVE  row \in page
  <2>1. before(row) \subseteq before(last)
    BY <1>2, <1>3, <1>7, <1>9
  <2>2. IsFiniteSet(rows)
    BY <1>2, TableFinite, FS_Subset
  <2>3. IsFiniteSet(before(last)) /\ IsFiniteSet(before(row))
    BY <2>2, FS_Subset
  <2>4. Cardinality(before(row)) <= Cardinality(before(last))
    BY <2>1, <2>3, FS_Subset
  <2>5. Cardinality(before(row)) \in Nat /\ Cardinality(before(last)) \in Nat
    BY <2>3, FS_CardinalityType
  <2>6. Cardinality(before(last)) <= PageLimit
    BY <1>1, <1>7
  <2>7. Cardinality(before(row)) <= PageLimit
    <3> HIDE DEF before
    <3> QED
      BY <2>4, <2>5, <2>6, LogAssumption
  <2> QED
    BY <1>1, <2>7
<1> HIDE DEF before
<1> QED
  BY <1>1, <1>2, <1>3, <1>6, <1>7, <1>8, <1>9

-----------------------------------------------------------------------------
(* The steps *)

\* A step that makes no entry and goes no phase ahead of the exit line keeps what
\* is known of every entry.
LEMMA EntriesMove ==
  ASSUME Numbered, OneEach, InOrder, RunnerLast,
         Seen' \subseteq Seen, UNCHANGED <<lines, nextSeq>>,
         phase' \in Ending => phase \in Ending
  PROVE  Numbered' /\ OneEach' /\ InOrder' /\ RunnerLast'
BY DEF Numbered, OneEach, InOrder, RunnerLast, Ending

\* Emit by the scanners and by the runner.
LEMMA EmitInv ==
  ASSUME Inv, NEW w \in Writers, Emit(w), phase' \in Phases, UNCHANGED open,
         ScannersDone', ~Stopped, ~Stopped', phase' \in Ending => w = "runner"
  PROVE  Inv'
<1> DEFINE e0 == [writer |-> w, line |-> lines[w] + 1, sequence |-> nextSeq]
<1>1. /\ TypeOK /\ Seen \subseteq Entries
      /\ lines \in [Writers -> Nat] /\ nextSeq \in Nat
  BY SeenEntries DEF Inv, TypeOK
<1>2. /\ e0 \in Entries /\ e0.writer = w /\ e0.line = lines[w] + 1
      /\ e0.sequence = nextSeq
  BY <1>1 DEF Entries
<1>3. /\ buf' = buf \cup {e0} /\ nextSeq' = nextSeq + 1
      /\ lines' = [lines EXCEPT ![w] = lines[w] + 1]
      /\ UNCHANGED <<posting, wire, refused, dropped, table, cursor, shown>>
  BY DEF Emit, readerVars
<1> HIDE DEF e0
<1>4. Posted' = Posted /\ Seen' = Seen \cup {e0}
  BY <1>3 DEF Posted, Seen
<1>5. \A v \in Writers : lines'[v] = IF v = w THEN lines[w] + 1 ELSE lines[v]
  BY <1>1, <1>3
<1>6. \A e \in Seen : /\ e.writer \in Writers /\ e.line \in Nat /\ e.sequence \in Nat
                      /\ e.sequence < nextSeq
                      /\ 1 <= e.line /\ e.line <= lines[e.writer]
  BY <1>1 DEF Inv, Numbered, Entries
<1>7. TypeOK'
  BY <1>1, <1>2, <1>3 DEF TypeOK
<1>8. Numbered'
  <2>1. ASSUME NEW e \in Seen
        PROVE  e.sequence < nextSeq' /\ e.line \in 1 .. lines'[e.writer]
    BY <1>1, <1>3, <1>5, <1>6
  <2>2. e0.sequence < nextSeq' /\ e0.line \in 1 .. lines'[e0.writer]
    BY <1>1, <1>2, <1>3, <1>5
  <2> QED
    BY <2>1, <2>2, <1>4 DEF Numbered
<1>9. OneEach'
  BY <1>1, <1>2, <1>4, <1>6 DEF Inv, OneEach
<1>10. InOrder'
  <2>1. \A e \in Seen : e.writer = w => e.line < e0.line /\ ~(e0.line < e.line)
    BY <1>1, <1>2, <1>6
  <2>2. \A e \in Seen : e.sequence < e0.sequence /\ ~(e0.sequence < e.sequence)
    BY <1>1, <1>2, <1>6
  <2>3. \A d, e \in Seen \cup {e0} :
          d.writer = e.writer => (d.line < e.line <=> d.sequence < e.sequence)
    <3>1. ~(e0.line < e0.line) /\ ~(e0.sequence < e0.sequence)
      BY <1>1, <1>2
    <3> QED
      BY <2>1, <2>2, <3>1, <1>2 DEF Inv, InOrder
  <2> QED
    BY <2>3, <1>4 DEF InOrder
<1>11. BufferLast'
  BY <1>2, <1>3, <1>4, <1>6 DEF Inv, BufferLast, Seen
<1>12. Settled' /\ Apart' /\ OneOnItsWay' /\ CursorOfRow' /\ ReaderMissesNothing'
  BY <1>3 DEF Inv, Settled, Apart, OneOnItsWay, CursorOfRow, ReaderMissesNothing
<1>13. Accounted'
  <2>1. (InAgent \cup table \cup dropped)' = InAgent \cup table \cup dropped \cup {e0}
    BY <1>3 DEF InAgent
  <2>2. SUFFICES ASSUME NEW v \in Writers, NEW k \in Nat \ {0}, k <= lines'[v]
                 PROVE  \E e \in InAgent \cup table \cup dropped \cup {e0} :
                          e.writer = v /\ e.line = k
    BY <2>1 DEF Accounted
  <2>3. CASE v = w /\ k = lines[w] + 1
    BY <2>3, <1>2
  <2>4. CASE ~(v = w /\ k = lines[w] + 1)
    <3>1. k <= lines[v]
      BY <2>2, <2>4, <1>1, <1>5
    <3> QED
      BY <3>1 DEF Inv, Accounted
  <2> QED
    BY <2>3, <2>4
<1>14. RunnerLast'
  <2>1. \A e \in Seen : e.sequence # nextSeq' - 1
    BY <1>1, <1>3, <1>6
  <2> QED
    BY <2>1, <1>2, <1>4 DEF RunnerLast
<1>15. DoneIsEmpty'
  BY DEF DoneIsEmpty, Stopped
<1> QED
  BY <1>7, <1>8, <1>9, <1>10, <1>11, <1>12, <1>13, <1>14, <1>15 DEF Inv

\* The steps of runJob and of the scanners that neither emit nor flush.
LEMMA ControlInv ==
  ASSUME Inv,
         UNCHANGED <<lines, buf, nextSeq, posting, wire, refused, dropped, table,
                     cursor, shown>>,
         phase' \in Phases, open' \subseteq Scanners, ScannersDone', DoneIsEmpty',
         Stopped => Stopped', phase' \in Ending => phase \in Ending
  PROVE  Inv'
<1>1. TypeOK'
  BY DEF Inv, TypeOK
<1>2. Posted' = Posted /\ Seen' = Seen
  BY DEF Posted, Seen
<1>3. Numbered' /\ OneEach' /\ InOrder' /\ RunnerLast'
  BY <1>2, EntriesMove DEF Inv
<1>4. BufferLast' /\ Settled' /\ Apart' /\ CursorOfRow'
  BY <1>2 DEF Inv, BufferLast, Settled, Apart, CursorOfRow
<1>5. Accounted'
  BY DEF Inv, Accounted, InAgent
<1>6. OneOnItsWay' /\ ReaderMissesNothing'
  BY DEF Inv, OneOnItsWay, ReaderMissesNothing
<1> QED
  BY <1>1, <1>3, <1>4, <1>5, <1>6 DEF Inv

\* flush takes the buffer: the entries have only moved, and while the pump runs
\* there was no other batch on its way.
LEMMA PostInv ==
  ASSUME Inv, NEW f \in Flushers, Post(f), posting[f] = {}, UNCHANGED phase,
         f = "final" => Stopped, phase # "done"
  PROVE  Inv'
<1>1. /\ TypeOK /\ buf # {} /\ buf' = {} /\ wire' = wire \cup {buf}
      /\ posting' = [posting EXCEPT ![f] = buf]
      /\ UNCHANGED <<open, lines, nextSeq, refused, dropped, table, cursor, shown>>
  BY DEF Inv, Post, readerVars
<1>2. posting \in [Flushers -> SUBSET Entries] /\ buf \subseteq Entries
  BY <1>1 DEF TypeOK
<1>3. \A g \in Flushers : posting'[g] = IF g = f THEN buf ELSE posting[g]
  BY <1>1, <1>2
<1>4. TypeOK'
  BY <1>1, <1>2 DEF TypeOK
<1>5. Seen' = Seen /\ Posted' = Seen
  BY <1>1, <1>3 DEF Seen, Posted, Flushers
<1>6. Numbered' /\ OneEach' /\ InOrder' /\ RunnerLast'
  BY <1>1, <1>5, EntriesMove DEF Inv
<1>7. BufferLast' /\ CursorOfRow' /\ ScannersDone' /\ DoneIsEmpty'
  BY <1>1 DEF Inv, BufferLast, CursorOfRow, ScannersDone, DoneIsEmpty
<1>8. Settled'
  BY <1>1, <1>3 DEF Inv, Settled
<1>9. \A d \in Posted, e \in buf : d.sequence \in Nat /\ e.sequence \in Nat /\ d # e
  <2>1. \A e \in Seen : e.sequence \in Nat
    BY <1>1, SeenEntries DEF Entries
  <2> QED
    BY <2>1 DEF Inv, BufferLast, Seen
<1>10. Apart'
  BY <1>3, <1>9 DEF Inv, Apart, Flushers, Posted
<1>11. Accounted'
  <2>1. (InAgent \cup table \cup dropped)' = InAgent \cup table \cup dropped
    BY <1>1, <1>3 DEF InAgent, Flushers
  <2> QED
    BY <2>1, <1>1 DEF Inv, Accounted
<1>12. OneOnItsWay'
  <2>1. {} \notin wire' /\ (Stopped' <=> Stopped)
    BY <1>1 DEF Inv, OneOnItsWay, Stopped
  <2>2. ASSUME ~Stopped
        PROVE  posting'["final"] = {} /\ f = "ticker"
    BY <2>2, <1>3 DEF Inv, OneOnItsWay, Flushers
  <2>3. ASSUME ~Stopped, dropped = {}
        PROVE  \A b \in wire' : /\ b = posting'["ticker"]
                                /\ \A e \in b, r \in table : r.sequence < e.sequence
    <3>1. wire = {}
      BY <2>2, <2>3 DEF Inv, OneOnItsWay
    <3>2. \A e \in buf, r \in table : r.sequence < e.sequence
      BY DEF Inv, BufferLast, Posted
    <3> QED
      BY <2>2, <2>3, <3>1, <3>2, <1>1, <1>3
  <2> QED
    BY <2>1, <2>2, <2>3, <1>1 DEF OneOnItsWay
<1>13. ReaderMissesNothing'
  BY <1>1 DEF Inv, ReaderMissesNothing, Stopped
<1> QED
  BY <1>4, <1>6, <1>7, <1>8, <1>10, <1>11, <1>12, <1>13 DEF Inv

\* The pump's last tick, after pumpCancel: what it took is dropped.
LEMMA TickFlushCancelledInv ==
  ASSUME Inv, TickFlushCancelled
  PROVE  Inv'
<1>1. /\ TypeOK /\ buf' = {} /\ dropped' = dropped \cup buf
      /\ UNCHANGED <<phase, open, lines, nextSeq, posting, wire, refused, table,
                     cursor, shown>>
      /\ phase = "flushing"
  BY DEF Inv, TickFlushCancelled, readerVars
<1>2. TypeOK'
  BY <1>1 DEF TypeOK
<1>3. Seen' = Seen
  BY <1>1 DEF Seen, Posted
<1>4. Numbered' /\ OneEach' /\ InOrder' /\ RunnerLast'
  BY <1>1, <1>3, EntriesMove DEF Inv
<1>5. BufferLast' /\ CursorOfRow' /\ ScannersDone' /\ DoneIsEmpty' /\ Settled' /\ Apart'
  BY <1>1 DEF Inv, BufferLast, CursorOfRow, ScannersDone, DoneIsEmpty, Settled, Apart
<1>6. Accounted'
  <2>1. (InAgent \cup table \cup dropped)' = InAgent \cup table \cup dropped
    BY <1>1 DEF InAgent
  <2> QED
    BY <2>1, <1>1 DEF Inv, Accounted
<1>7. OneOnItsWay' /\ ReaderMissesNothing'
  BY <1>1 DEF Inv, OneOnItsWay, ReaderMissesNothing, Stopped
<1> QED
  BY <1>2, <1>4, <1>5, <1>6, <1>7 DEF Inv

\* The answer to a batch: if it was refused its entries are dropped, otherwise the
\* batch was stored.
LEMMA AnsweredInv ==
  ASSUME Inv, NEW f \in Flushers, Answered(f)
  PROVE  Inv'
<1>1. /\ TypeOK /\ posting[f] # {} /\ posting[f] \notin wire
      /\ posting' = [posting EXCEPT ![f] = {}]
      /\ dropped' = IF posting[f] \in refused THEN dropped \cup posting[f] ELSE dropped
      /\ UNCHANGED <<phase, open, lines, buf, nextSeq, wire, refused, table,
                     cursor, shown>>
  BY DEF Inv, Answered, agentVars, readerVars
<1>2. posting \in [Flushers -> SUBSET Entries]
  BY <1>1 DEF TypeOK
<1>3. \A g \in Flushers : posting'[g] = IF g = f THEN {} ELSE posting[g]
  BY <1>1, <1>2
<1>4. TypeOK'
  BY <1>1, <1>2 DEF TypeOK
<1>5. posting[f] \subseteq dropped' \cup table
  BY <1>1 DEF Inv, Settled
<1>6. Posted' \subseteq Posted /\ Seen' \subseteq Seen
  BY <1>1, <1>3 DEF Seen, Posted, Flushers
<1>7. Numbered' /\ OneEach' /\ InOrder' /\ RunnerLast'
  BY <1>1, <1>6, EntriesMove DEF Inv
<1>8. BufferLast' /\ CursorOfRow' /\ ScannersDone' /\ DoneIsEmpty'
  BY <1>1, <1>3, <1>6
     DEF Inv, BufferLast, CursorOfRow, ScannersDone, DoneIsEmpty, Flushers
<1>9. Settled' /\ Apart'
  BY <1>1, <1>3 DEF Inv, Settled, Apart, Flushers
<1>10. Accounted'
  <2>1. InAgent \cup table \cup dropped \subseteq (InAgent \cup table \cup dropped)'
    BY <1>1, <1>3, <1>5 DEF InAgent, Flushers
  <2> QED
    BY <2>1, <1>1 DEF Inv, Accounted
<1>11. dropped \subseteq dropped'
  BY <1>1
<1>12. OneOnItsWay'
  <2>1. {} \notin wire' /\ (Stopped' <=> Stopped)
    BY <1>1 DEF Inv, OneOnItsWay, Stopped
  <2>2. ASSUME ~Stopped
        PROVE  posting'["final"] = {} /\ f = "ticker"
    BY <2>2, <1>1, <1>3 DEF Inv, OneOnItsWay, Flushers
  <2>3. ASSUME ~Stopped, dropped' = {}
        PROVE  wire' = {}
    BY <2>2, <2>3, <1>1, <1>11 DEF Inv, OneOnItsWay
  <2> QED
    BY <2>1, <2>2, <2>3 DEF OneOnItsWay
<1>13. ReaderMissesNothing'
  BY <1>1, <1>11 DEF Inv, ReaderMissesNothing, Stopped
<1> QED
  BY <1>4, <1>7, <1>8, <1>9, <1>10, <1>12, <1>13 DEF Inv

\* A request fails: its entries are dropped, whether or not the control plane is
\* handed them.
LEMMA PostFailsInv ==
  ASSUME Inv, NEW f \in Flushers, PostFails(f)
  PROVE  Inv'
<1>1. /\ TypeOK /\ posting[f] # {}
      /\ posting' = [posting EXCEPT ![f] = {}]
      /\ dropped' = dropped \cup posting[f]
      /\ wire' \in {wire, wire \ {posting[f]}}
      /\ UNCHANGED <<phase, open, lines, buf, nextSeq, refused, table, cursor, shown>>
  BY DEF Inv, PostFails, agentVars, readerVars
<1>2. posting \in [Flushers -> SUBSET Entries]
  BY <1>1 DEF TypeOK
<1>3. \A g \in Flushers : posting'[g] = IF g = f THEN {} ELSE posting[g]
  BY <1>1, <1>2
<1>4. wire' \subseteq wire /\ \A b \in wire : b # posting[f] => b \in wire'
  BY <1>1
<1>5. TypeOK'
  BY <1>1, <1>2, <1>4 DEF TypeOK
<1>6. Posted' \subseteq Posted /\ Seen' \subseteq Seen
  BY <1>1, <1>3, <1>4 DEF Seen, Posted, Flushers
<1>7. Numbered' /\ OneEach' /\ InOrder' /\ RunnerLast'
  BY <1>1, <1>6, EntriesMove DEF Inv
<1>8. BufferLast' /\ CursorOfRow' /\ ScannersDone' /\ DoneIsEmpty'
  BY <1>1, <1>3, <1>6
     DEF Inv, BufferLast, CursorOfRow, ScannersDone, DoneIsEmpty, Flushers
<1>9. Apart'
  BY <1>3 DEF Inv, Apart, Flushers
<1>10. Settled'
  <2>1. \A g \in Flushers : g # f => posting[g] \cap posting[f] = {}
    BY DEF Inv, Apart, Flushers
  <2>2. \A g \in Flushers : g # f => posting[g] # posting[f]
    BY <2>1, <1>1
  <2> QED
    BY <2>2, <1>1, <1>3, <1>4 DEF Inv, Settled
<1>11. Accounted'
  <2>1. InAgent \cup table \cup dropped \subseteq (InAgent \cup table \cup dropped)'
    BY <1>1, <1>3 DEF InAgent, Flushers
  <2> QED
    BY <2>1, <1>1 DEF Inv, Accounted
<1>12. dropped' # {}
  BY <1>1
<1>13. OneOnItsWay'
  BY <1>1, <1>3, <1>4, <1>12 DEF Inv, OneOnItsWay, Stopped, Flushers
<1>14. ReaderMissesNothing'
  BY <1>12 DEF ReaderMissesNothing
<1> QED
  BY <1>5, <1>7, <1>8, <1>9, <1>10, <1>11, <1>13, <1>14 DEF Inv

\* ON CONFLICT DO NOTHING: a batch that is stored leaves no entry out, for a
\* sequence that is there already is the entry itself.
LEMMA StoredWhole ==
  ASSUME OneEach, NEW batch \in wire
  PROVE  table \cup {e \in batch : \A row \in table : row.sequence # e.sequence}
           = table \cup batch
BY DEF OneEach, Seen, Posted

\* POST /api/jobs/{id}/logs.
LEMMA PushLogsInv ==
  ASSUME Inv, NEW batch \in wire, PushLogs(batch)
  PROVE  Inv'
<1>1. /\ TypeOK /\ wire' = wire \ {batch}
      /\ \/ refused' = refused \cup {batch} /\ table' = table
         \/ table' = table \cup batch /\ refused' = refused
      /\ UNCHANGED <<phase, open, lines, buf, nextSeq, posting, dropped, cursor, shown>>
  <2>1. OneEach
    BY DEF Inv
  <2> QED
    BY <2>1, StoredWhole DEF Inv, PushLogs, agentVars, readerVars
<1>2. table \subseteq table' /\ refused \subseteq refused'
  BY <1>1
<1>3. batch \subseteq Entries
  BY <1>1 DEF TypeOK
<1>4. TypeOK'
  BY <1>1, <1>3 DEF TypeOK
<1>5. Posted' \subseteq Posted /\ Seen' \subseteq Seen
  BY <1>1 DEF Seen, Posted
<1>6. Numbered' /\ OneEach' /\ InOrder' /\ RunnerLast'
  BY <1>1, <1>5, EntriesMove DEF Inv
<1>7. BufferLast' /\ CursorOfRow' /\ ScannersDone' /\ DoneIsEmpty' /\ Apart'
  BY <1>1, <1>2, <1>5
     DEF Inv, BufferLast, CursorOfRow, ScannersDone, DoneIsEmpty, Apart
<1>8. Settled'
  BY <1>1, <1>2 DEF Inv, Settled
<1>9. Accounted'
  <2>1. InAgent \cup table \cup dropped \subseteq (InAgent \cup table \cup dropped)'
    BY <1>1, <1>2 DEF InAgent
  <2> QED
    BY <2>1, <1>1 DEF Inv, Accounted
<1>10. ASSUME ~Stopped, dropped = {}
       PROVE  wire' = {} /\ \A e \in batch, r \in table : r.sequence < e.sequence
  BY <1>10, <1>1 DEF Inv, OneOnItsWay
<1>11. OneOnItsWay'
  BY <1>1, <1>10 DEF Inv, OneOnItsWay, Stopped
<1>12. ReaderMissesNothing'
  <2>1. SUFFICES ASSUME ~Stopped, dropped = {}
                 PROVE  shown = {row \in table' : row.sequence <= cursor}
    BY <1>1 DEF ReaderMissesNothing, Stopped
  <2>2. shown = {row \in table : row.sequence <= cursor}
    BY <2>1 DEF Inv, ReaderMissesNothing
  <2>3. ASSUME NEW e \in batch
        PROVE  ~(e.sequence <= cursor)
    <3>1. e.sequence \in Nat
      BY <1>3 DEF Entries
    <3>2. cursor = -1 \/ \E r \in table : r.sequence = cursor /\ r.sequence < e.sequence
      BY <2>1, <1>10 DEF Inv, CursorOfRow
    <3> QED
      BY <3>1, <3>2, <1>1 DEF TypeOK
  <2> QED
    BY <2>2, <2>3, <1>1
<1> QED
  BY <1>4, <1>6, <1>7, <1>8, <1>9, <1>11, <1>12 DEF Inv

\* The client is given a page, and moves its cursor to the end of it.
LEMMA ReadPageInv ==
  ASSUME Inv, ReadPage
  PROVE  Inv'
<1>1. PICK page \in ListAfter(cursor) :
        page # {} /\ shown' = shown \cup page /\ cursor' = LastOf(page)
  BY DEF ReadPage, LastOf
<1>2. /\ TypeOK /\ Numbered /\ OneEach
      /\ UNCHANGED <<phase, open, lines, buf, nextSeq, posting, wire, refused,
                     dropped, table>>
  BY DEF Inv, ReadPage, agentVars
<1>3. /\ page \subseteq table
      /\ LastOf(page) \in Nat
      /\ \E row \in table : row.sequence = LastOf(page)
      /\ page = {row \in table : cursor < row.sequence /\ row.sequence <= LastOf(page)}
      /\ cursor < LastOf(page)
  BY <1>1, <1>2, PageIsComplete
<1>4. TypeOK'
  BY <1>1, <1>2, <1>3 DEF TypeOK
<1>5. Posted' = Posted /\ Seen' = Seen
  BY <1>2 DEF Posted, Seen
<1>6. Numbered' /\ OneEach' /\ InOrder' /\ RunnerLast'
  BY <1>2, <1>5, EntriesMove DEF Inv
<1>7. BufferLast' /\ Settled' /\ Apart' /\ ScannersDone' /\ DoneIsEmpty' /\ OneOnItsWay'
  BY <1>2, <1>5
     DEF Inv, BufferLast, Settled, Apart, ScannersDone, DoneIsEmpty, OneOnItsWay, Stopped
<1>8. Accounted'
  BY <1>2 DEF Inv, Accounted, InAgent
<1>9. CursorOfRow'
  BY <1>1, <1>2, <1>3 DEF CursorOfRow
<1>10. ReaderMissesNothing'
  <2>1. SUFFICES ASSUME ~Stopped, dropped = {}
                 PROVE  shown' = {row \in table : row.sequence <= cursor'}
    BY <1>2 DEF ReaderMissesNothing, Stopped
  <2>2. shown = {row \in table : row.sequence <= cursor}
    BY <2>1 DEF Inv, ReaderMissesNothing
  <2>3. \A row \in table : row.sequence \in Nat
    BY <1>2 DEF TypeOK, Entries
  <2>4. cursor \in Int
    BY <1>2 DEF TypeOK
  <2>5. \A row \in table : row.sequence <= LastOf(page) <=>
                             row.sequence <= cursor \/ row \in page
    <3> DEFINE last == LastOf(page)
    <3>1. SUFFICES ASSUME NEW row \in table
                   PROVE  row.sequence <= last <=> row.sequence <= cursor \/ row \in page
      OBVIOUS
    <3>2. row \in page <=> cursor < row.sequence /\ row.sequence <= last
      BY <1>3
    <3>3. last \in Nat /\ row.sequence \in Nat /\ cursor < last
      BY <1>3, <2>3
    <3> HIDE DEF last
    <3> QED
      BY <3>2, <3>3, <2>4
  <2> QED
    BY <2>2, <2>5, <1>1, <1>3
<1> QED
  BY <1>4, <1>6, <1>7, <1>8, <1>9, <1>10 DEF Inv

-----------------------------------------------------------------------------
(* The invariant *)

\* It holds before the job's first line.
LEMMA InitInv == Init => Inv
<1> SUFFICES ASSUME Init PROVE Inv
  OBVIOUS
<1>1. TypeOK
  BY DEF Init, TypeOK, Phases
<1>2. Seen = {} /\ Posted = {}
  BY DEF Init, Seen, Posted, Flushers
<1>3. Numbered /\ OneEach /\ InOrder /\ BufferLast /\ RunnerLast
  BY <1>2 DEF Numbered, OneEach, InOrder, BufferLast, RunnerLast
<1>4. Settled /\ Apart /\ ScannersDone /\ DoneIsEmpty /\ OneOnItsWay /\ CursorOfRow
  BY DEF Init, Settled, Apart, ScannersDone, DoneIsEmpty, OneOnItsWay, CursorOfRow,
         Flushers
<1>5. Accounted
  BY DEF Init, Accounted
<1>6. ReaderMissesNothing
  BY DEF Init, ReaderMissesNothing
<1> QED
  BY <1>1, <1>3, <1>4, <1>5, <1>6 DEF Inv

\* Every step keeps it.
LEMMA NextInv == Inv /\ [Next]_vars => Inv'
<1> SUFFICES ASSUME Inv, [Next]_vars PROVE Inv'
  OBVIOUS
<1> USE DEF Phases, Ending, Stopped, ScannersDone, DoneIsEmpty
<1>1. phase \in Phases /\ open \subseteq Scanners /\ ScannersDone /\ DoneIsEmpty
  BY DEF Inv, TypeOK
<1>2. "runner" \in Writers /\ Scanners \subseteq Writers
  BY DEF Writers
<1>3. CASE Started
  <2>1. Emit("runner") /\ phase' = "container" /\ UNCHANGED open /\ phase = "starting"
    BY <1>3 DEF Started
  <2> QED
    BY <2>1, <1>1, <1>2, EmitInv
<1>4. CASE ContainerEnds
  <2>1. phase = "container" /\ open = {} /\ phase' \in {"failing", "exiting"}
    BY <1>4 DEF ContainerEnds
  <2>2. UNCHANGED <<open, lines, buf, nextSeq, posting, wire, refused, dropped, table,
                    cursor, shown>>
    BY <1>4 DEF ContainerEnds, readerVars
  <2> QED
    BY <2>1, <2>2, <1>1, ControlInv
<1>5. CASE Failed
  <2>1. Emit("runner") /\ phase' = "exiting" /\ UNCHANGED open /\ phase = "failing"
    BY <1>5 DEF Failed
  <2> QED
    BY <2>1, <1>1, <1>2, EmitInv
<1>6. CASE Exited
  <2>1. Emit("runner") /\ phase' = "completing" /\ UNCHANGED open /\ phase = "exiting"
    BY <1>6 DEF Exited
  <2> QED
    BY <2>1, <1>1, <1>2, EmitInv
<1>7. CASE Completed \/ PumpCancel
  <2>1. \/ phase = "completing" /\ phase' = "stopping"
        \/ phase = "stopping" /\ phase' = "flushing"
    BY <1>7 DEF Completed, PumpCancel, GoesOn
  <2>2. UNCHANGED <<open, lines, buf, nextSeq, posting, wire, refused, dropped, table,
                    cursor, shown>>
    BY <1>7 DEF Completed, PumpCancel, GoesOn, readerVars
  <2> QED
    BY <2>1, <2>2, <1>1, ControlInv
<1>8. CASE FinalFlush
  BY <1>8, <1>1, PostInv DEF FinalFlush, Flushers
<1>9. CASE RunEnds
  <2>1. phase = "flushing" /\ phase' = "done" /\ buf = {} /\ posting["final"] = {}
    BY <1>9 DEF RunEnds
  <2>2. UNCHANGED <<open, lines, buf, nextSeq, posting, wire, refused, dropped, table,
                    cursor, shown>>
    BY <1>9 DEF RunEnds, readerVars
  <2> QED
    BY <2>1, <2>2, <1>1, ControlInv
<1>10. CASE \E w \in Scanners : ScanEnd(w)
  <2>1. open' \subseteq open /\ phase' = phase
    BY <1>10 DEF ScanEnd
  <2>2. UNCHANGED <<lines, buf, nextSeq, posting, wire, refused, dropped, table,
                    cursor, shown>>
    BY <1>10 DEF ScanEnd, readerVars
  <2> QED
    BY <2>1, <2>2, <1>1, ControlInv
<1>11. CASE \E w \in Scanners : ScanLine(w)
  <2>1. PICK w \in Scanners : ScanLine(w)
    BY <1>11
  <2>2. phase # "starting" /\ w \in open /\ Emit(w) /\ UNCHANGED <<phase, open>>
    BY <2>1 DEF ScanLine
  <2>3. phase = "container"
    BY <2>2, <1>1
  <2> QED
    BY <2>2, <2>3, <1>1, <1>2, EmitInv
<1>12. CASE TickFlush
  BY <1>12, <1>1, PostInv DEF TickFlush, Flushers
<1>13. CASE TickFlushCancelled
  BY <1>13, TickFlushCancelledInv
<1>14. CASE \E f \in Flushers : Client(f)
  BY <1>14, AnsweredInv, PostFailsInv DEF Client
<1>15. CASE \E batch \in wire : PushLogs(batch)
  BY <1>15, PushLogsInv
<1>16. CASE ReadPage
  BY <1>16, ReadPageInv
<1>17. CASE UNCHANGED vars
  BY <1>17, <1>1, ControlInv DEF vars
<1> QED
  BY <1>3, <1>4, <1>5, <1>6, <1>7, <1>8, <1>9, <1>10, <1>11, <1>12, <1>13, <1>14,
     <1>15, <1>16, <1>17 DEF Next, Runner

\* The inductive invariant of the log.
THEOREM JobLogsInvariance == Spec => []Inv
BY InitInv, NextInv, PTL DEF Spec

\* Every variable keeps its type.
THEOREM TypeCorrect == Spec => []TypeOK
<1>1. Inv => TypeOK
  BY DEF Inv
<1> QED
  BY <1>1, JobLogsInvariance, PTL

\* flush logs the batches it drops and drops nothing else: every line any writer
\* emitted is with the agent, stored, or in a batch that was given up.
THEOREM NoLineVanishes == Spec => []LinesAccounted
<1>1. Inv => LinesAccounted
  BY LogAssumption DEF Inv, Accounted, LinesAccounted
<1> QED
  BY <1>1, JobLogsInvariance, PTL

\* Once runJob has ended and the ticker's last request has returned, every line is
\* in job_logs, unless a batch was dropped: the final flush leaves nothing behind.
THEOREM CleanRunIsStored ==
  Spec => [](phase = "done" /\ posting["ticker"] = {} /\ dropped = {} =>
               \A w \in Writers, k \in Nat \ {0} :
                 k <= lines[w] => \E row \in table : row.writer = w /\ row.line = k)
<1>1. Inv => (phase = "done" /\ posting["ticker"] = {} /\ dropped = {} =>
               \A w \in Writers, k \in Nat \ {0} :
                 k <= lines[w] => \E row \in table : row.writer = w /\ row.line = k)
  BY DEF Inv, Accounted, DoneIsEmpty, InAgent
<1> QED
  BY <1>1, JobLogsInvariance, PTL

\* Whatever the order in which batches arrive, job_logs lists each stream in the
\* order in which it was written.
THEOREM LogsKeepTheOrder == Spec => []StreamsInOrder
<1>1. Inv => StreamsInOrder
  BY DEF Inv, InOrder, StreamsInOrder, Seen, Posted
<1> QED
  BY <1>1, JobLogsInvariance, PTL

\* No line of a scanner is stored after "Container exited".
THEOREM ExitIsTheLastLine == Spec => []ExitComesLast
<1>1. Inv => ExitComesLast
  BY DEF Inv, RunnerLast, Ending, ExitComesLast, Seen, Posted
<1> QED
  BY <1>1, JobLogsInvariance, PTL

\* A client that follows the log of a running job by after_sequence is shown every
\* row up to its cursor, until a batch is dropped.
THEOREM FollowingMissesNothing == Spec => []ReaderMissesNothing
<1>1. Inv => ReaderMissesNothing
  BY DEF Inv
<1> QED
  BY <1>1, JobLogsInvariance, PTL
=============================================================================
