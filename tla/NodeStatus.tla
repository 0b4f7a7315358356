----------------------------- MODULE NodeStatus -----------------------------
(***************************************************************************)
(* What the API says of a node, and the heartbeats it says it from.          *)
(*                                                                         *)
(* The agent sends a heartbeat each tick of 10 s and, once it is answered, a   *)
(* claim.  Each call may keep it waiting for the client's 30 s, during which    *)
(* time.Ticker keeps one tick.  The server stamps a heartbeat some time after   *)
(* it was sent and commits the stamp some time after that.                    *)
(***************************************************************************)
EXTENDS Integers

CONSTANTS
  Deleted,   \* model value: there is no row any more
  Tick       \* units of time in the 10 s of a tick: how finely time is told

ASSUME TickAssumption == Tick \in Nat \ {0}

VARIABLES
  node,   \* the row: its stored status and the age of last_seen_at
  agent,  \* the agent's calls; ghost bad: those that failed or took longer than a
          \* tick, since it sent the last heartbeat that was recorded
  other   \* a metrics push, or a heartbeat the agent has given up, that the server
          \* still handles: the age of its stamp; ghost stale: such a stamp went
          \* over a newer one after the last heartbeat that was recorded

nodeVars == <<node, agent, other>>

CallTimeout == 3 * Tick   \* httpClient's 30 s
Fresh == 6 * Tick         \* NODE_HEARTBEAT_TIMEOUT_SECONDS
MaxAge == Fresh + 1       \* bound: older is not told apart
Enough == 2               \* bound: more calls in trouble are not told apart

\* next: time until the ticker fires; due: a tick waits for the agent; waited: how
\* long the call under way has taken; stamp: the age of its heartbeat's.
NodeRow == [stored : {"online", "draining"}, age : 0 .. MaxAge]
AgentState ==
  [call : {"none", "sent", "stamped", "recorded", "claim"}, waited : 0 .. CallTimeout,
   stamp : 0 .. CallTimeout, next : 1 .. Tick, due : BOOLEAN, bad : 0 .. Enough]
OtherState == [open : BOOLEAN, age : 0 .. MaxAge, stale : BOOLEAN]

\* Fault: a node is offline at 60 s, not after.
ComputeNodeStatusStrict(n) ==
  CASE n.stored = "draining" -> "draining"
    [] n.stored # "draining" /\ n.age < Fresh -> "online"
    [] OTHER -> "offline"

\* compute_node_status; last_seen_at is never NULL, register_node sets it.
ComputeNodeStatus(n) ==
  CASE n.stored = "draining" -> "draining"
    [] n.stored # "draining" /\ n.age <= Fresh -> "online"
    [] OTHER -> "offline"

-----------------------------------------------------------------------------
(* Time *)

\* An age or a count grows up to its bound.
Grown(n, bound) == IF n < bound THEN n + 1 ELSE bound

\* One unit of time passes.  An agent that is free takes its tick first, and the
\* client's timeout ends a call.
Elapse ==
  LET calling == agent.call # "none" IN
  /\ agent.due => calling
  /\ calling => agent.waited < CallTimeout
  /\ node' = IF node = Deleted THEN node ELSE [node EXCEPT !.age = Grown(@, MaxAge)]
  /\ agent' = [agent EXCEPT
       !.next = IF @ = 1 THEN Tick ELSE @ - 1,
       !.due = @ \/ agent.next = 1,
       !.waited = IF calling THEN @ + 1 ELSE @,
       !.stamp = IF agent.call = "stamped" THEN @ + 1 ELSE @,
       !.bad = IF calling /\ agent.waited = Tick THEN Grown(@, Enough) ELSE @]
  /\ other' = IF other.open THEN [other EXCEPT !.age = Grown(@, MaxAge)] ELSE other

-----------------------------------------------------------------------------
(* The agent's calls *)

\* The agent makes a call, or has none to make.
Calls(call) == [agent EXCEPT !.call = call, !.waited = 0, !.stamp = 0]

\* tickOnce begins: the heartbeat is sent.
SendHeartbeat ==
  /\ agent.due /\ agent.call = "none"
  /\ agent' = [agent EXCEPT !.call = "sent", !.waited = 0, !.stamp = 0, !.due = FALSE]
  /\ UNCHANGED <<node, other>>

\* update_last_seen: the row gets the server's time, in its transaction.
Stamp ==
  /\ agent.call = "sent" /\ node # Deleted
  /\ agent' = [agent EXCEPT !.call = "stamped", !.stamp = 0]
  /\ UNCHANGED <<node, other>>

\* The UPDATE and its commit.  Only last_seen_at is written.
RecordHeartbeat ==
  /\ agent.call = "stamped" /\ node # Deleted
  /\ node' = [node EXCEPT !.age = agent.stamp]
  /\ agent' = [agent EXCEPT !.call = "recorded", !.stamp = 0,
                            !.bad = IF agent.waited > Tick THEN 1 ELSE 0]
  /\ other' = [other EXCEPT !.stale = FALSE]

\* The heartbeat is answered, and an agent without a job asks for one.
HeartbeatAnswered ==
  /\ agent.call = "recorded"
  /\ agent' \in {Calls("claim"), Calls("none")}
  /\ UNCHANGED <<node, other>>

ClaimAnswered ==
  /\ agent.call = "claim"
  /\ agent' = Calls("none")
  /\ UNCHANGED <<node, other>>

\* A call fails, by the client's timeout or before: the tick is over.  The server
\* may go on with a heartbeat it has stamped.
CallFails ==
  /\ agent.call # "none"
  /\ agent' = [Calls("none") EXCEPT
                 !.bad = IF agent.waited <= Tick THEN Grown(@, Enough) ELSE @]
  /\ \/ UNCHANGED other
     \/ /\ agent.call = "stamped" /\ ~other.open
        /\ other' = [other EXCEPT !.open = TRUE, !.age = agent.stamp]
  /\ UNCHANGED node

-----------------------------------------------------------------------------
(* Other requests that write last_seen_at; bound: one at a time *)

\* record_metrics: another client of the node's token, which counts as a sign of life.
PushMetrics ==
  /\ node # Deleted /\ ~other.open
  /\ other' = [other EXCEPT !.open = TRUE, !.age = 0]
  /\ UNCHANGED <<node, agent>>

\* It is committed, whatever was since, or it is not.
OtherEnds ==
  /\ other.open
  /\ \/ UNCHANGED node /\ other' = [other EXCEPT !.open = FALSE, !.age = 0]
     \/ /\ node # Deleted
        /\ node' = [node EXCEPT !.age = other.age]
        /\ other' = [open |-> FALSE, age |-> 0,
                     stale |-> other.stale \/ other.age > node.age]
  /\ UNCHANGED agent

-----------------------------------------------------------------------------
(* drain_node and admin_force_drain, undrain_node, delete_node *)

Drain ==
  /\ node # Deleted
  /\ node' = [node EXCEPT !.stored = "draining"]
  /\ UNCHANGED <<agent, other>>

Undrain ==
  /\ node # Deleted /\ node.stored = "draining"
  /\ node' = [node EXCEPT !.stored = "online"]
  /\ UNCHANGED <<agent, other>>

DeleteNode == node # Deleted /\ node' = Deleted /\ UNCHANGED <<agent, other>>

-----------------------------------------------------------------------------
(* The specification *)

\* No agent has sent a heartbeat, and the server handles nothing of the node.
NoAgent ==
  /\ agent = [call |-> "none", waited |-> 0, stamp |-> 0, next |-> Tick, due |-> TRUE,
              bad |-> Enough]
  /\ other = [open |-> FALSE, age |-> 0, stale |-> FALSE]

\* An agent starts some time after its node was registered: until its first
\* heartbeat is recorded it counts as trouble.
NodeInit == node \in [stored : {"online"}, age : 0 .. MaxAge] /\ NoAgent

NodeNext ==
  \/ Elapse
  \/ SendHeartbeat \/ Stamp \/ RecordHeartbeat \/ HeartbeatAnswered \/ ClaimAnswered
  \/ CallFails
  \/ PushMetrics \/ OtherEnds
  \/ Drain \/ Undrain \/ DeleteNode

-----------------------------------------------------------------------------
(* Properties *)

\* One call in trouble, however it is, does not take a node offline: as long as all
\* others are answered within a tick, a lost heartbeat, a call that hangs until the
\* client's timeout or an answer that is lost leaves the node online
\* (NODE_HEARTBEAT_TIMEOUT_SECONDS against DefaultTickInterval and httpClient's
\* Timeout).  Unless a stamp committed late goes over a newer one.
OfflineNeedsTrouble ==
  /\ node # Deleted
  /\ ComputeNodeStatus(node) = "offline"
  => agent.bad >= Enough \/ other.stale
=============================================================================
