------------------------------- MODULE Pages -------------------------------
(***************************************************************************)
(* The keyset pages of jobs, users and audit events: a client follows next    *)
(* cursors from the first page to the last, while rows are added, committed    *)
(* late, rolled back, and come to match the filter or stop matching it.        *)
(*                                                                         *)
(* A row is sorted by <<created_at, id>>, newest first.  created_at is the     *)
(* start of the transaction that inserts it, so rows become visible in another *)
(* order, and several rows share one.  A cursor keeps both parts exactly: text *)
(* and column have the same microseconds.                                    *)
(***************************************************************************)
EXTENDS Integers, Sequences, SequencesExt, FiniteSets

CONSTANTS Ids,      \* the row ids, as numbers in the order of the uuids
          Limit,    \* rows a page holds
          MaxTime,  \* bound: instants that are told apart
          Unused, Start, End   \* model values: no row, no cursor yet, no next one

ASSUME PagesAssumption ==
  /\ Ids \subseteq Nat /\ IsFiniteSet(Ids)
  /\ Limit \in Nat \ {0} /\ MaxTime \in Nat

VARIABLES
  time,    \* the database's clock
  rows,    \* id -> Unused, or a row: committed or not, matching the filter or not
  cursor,  \* the next request's cursor: Start, a <<created_at, id>>, or End
  shown,   \* the ids the client has been shown, in order
  due      \* ghost: rows committed before the first page that match ever since

pageVars == <<time, rows, cursor, shown, due>>

Row == [at : 0 .. MaxTime, committed : BOOLEAN, matches : BOOLEAN]
CursorKeys == (0 .. MaxTime) \X Ids

\* Model values are no rows and no cursors.
ASSUME NoneIsARow ==
  /\ Unused \notin Row
  /\ Start # End /\ Start \notin CursorKeys /\ End \notin CursorKeys

Key(i) == <<rows[i].at, i>>

\* Fault: the cursor's own row passes its test.
BelowOrAt(key, bound) ==
  key[1] < bound[1] \/ (key[1] = bound[1] /\ key[2] <= bound[2])

\* Fault: the cursor compares times only.
BelowInTime(key, bound) == key[1] < bound[1]

\* created_at < ts OR (created_at = ts AND id < last_id)
Below(key, bound) ==
  key[1] < bound[1] \/ (key[1] = bound[1] /\ key[2] < bound[2])

\* ORDER BY created_at DESC, id DESC
Newer(i, j) == rows[i].at > rows[j].at \/ (rows[i].at = rows[j].at /\ i > j)

Visible(i) == rows[i] # Unused /\ rows[i].committed /\ rows[i].matches

\* list_filtered and list_for_user: the visible rows below the cursor, newest
\* first, up to the limit.
Found == {i \in Ids : Visible(i) /\ (cursor = Start \/ Below(Key(i), cursor))}
Rank(i) == Cardinality({j \in Found : Newer(j, i)})
Listed ==
  LET size == IF Cardinality(Found) < Limit THEN Cardinality(Found) ELSE Limit
  IN  [n \in 1 .. size |-> CHOOSE i \in Found : Rank(i) = n - 1]

\* One page: there is a next cursor when the page is full.
ReadPage ==
  /\ cursor # End
  /\ shown' = shown \o Listed
  /\ cursor' = IF Len(Listed) = Limit THEN Key(Last(Listed)) ELSE End
  /\ due' = IF cursor = Start THEN {i \in Ids : Visible(i)} ELSE due
  /\ UNCHANGED <<time, rows>>

\* A transaction inserts a row, and ends.  Rows with one created_at come from one
\* instant.
Insert(i) ==
  /\ rows[i] = Unused
  /\ \E m \in BOOLEAN :
       rows' = [rows EXCEPT ![i] = [at |-> time, committed |-> FALSE, matches |-> m]]
  /\ UNCHANGED <<time, cursor, shown, due>>

Commit(i) ==
  /\ rows[i] # Unused /\ ~rows[i].committed
  /\ rows' = [rows EXCEPT ![i].committed = TRUE]
  /\ UNCHANGED <<time, cursor, shown, due>>

Rollback(i) ==
  /\ rows[i] # Unused /\ ~rows[i].committed
  /\ rows' = [rows EXCEPT ![i] = Unused]
  /\ UNCHANGED <<time, cursor, shown, due>>

\* The status of a job or a user moves into the filter or out of it.
Move(i) ==
  /\ rows[i] # Unused /\ rows[i].committed
  /\ rows' = [rows EXCEPT ![i].matches = ~@]
  /\ due' = due \ {i}
  /\ UNCHANGED <<time, cursor, shown>>

ClockTicks ==
  /\ time < MaxTime
  /\ time' = time + 1
  /\ UNCHANGED <<rows, cursor, shown, due>>

PagesInit ==
  /\ time = 0 /\ rows = [i \in Ids |-> Unused]
  /\ cursor = Start /\ shown = << >> /\ due = {}

PagesNext ==
  \/ ReadPage \/ ClockTicks
  \/ \E i \in Ids : Insert(i) \/ Commit(i) \/ Rollback(i) \/ Move(i)

-----------------------------------------------------------------------------
(* Properties *)

\* A client that follows the cursors is shown rows newest first across all pages,
\* none of them twice, whatever is added meanwhile (list_filtered, encode_cursor).
PagesDescend ==
  \A m, n \in DOMAIN shown : m < n => Newer(shown[m], shown[n])

\* A row that was there before the first page and matched all along is on one of
\* the pages, however many rows share its created_at (the tie-break by id).
NothingDueIsSkipped == cursor = End => due \subseteq Range(shown)
=============================================================================
