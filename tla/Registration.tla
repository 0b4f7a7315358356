---------------------------- MODULE Registration ----------------------------
(***************************************************************************)
(* How a machine becomes a node: a host creates a claim token, gpu-agent     *)
(* init trades it for an agent token, and the agent authenticates with that. *)
(*                                                                         *)
(* Tokens are random strings of which the database keeps a hash and a short  *)
(* prefix in a unique column; a row is looked up by the prefix, then the     *)
(* hash is verified.  Requests run in sessions and interleave as in           *)
(* ControlPlane; a node is named by its agent token, which is never drawn     *)
(* twice.                                                                   *)
(***************************************************************************)
EXTENDS Naturals, FiniteSets

CONSTANTS
  ClaimTokens,  \* claim tokens that can be drawn
  AgentTokens,  \* agent tokens that can be drawn
  Prefix,       \* the first 12 characters of each, 3 of them random
  Machines,     \* where gpu-agent runs
  Sessions,     \* registrations that can be in flight at the same time
  NULL

ASSUME RegistrationAssumption ==
  /\ DOMAIN Prefix = ClaimTokens \cup AgentTokens
  /\ NULL \notin ClaimTokens \cup AgentTokens \cup Sessions
  /\ IsFiniteSet(Sessions)

VARIABLES
  claim,    \* table claim_tokens: "absent", "valid", or "consumed"
  expired,  \* claim tokens whose expires_at has passed
  node,     \* table nodes: "absent", "registered", or "deleted"
  made,     \* audit_log, node.registered: with which claim token
  seen,     \* the agent token of the node's last heartbeat
  session,  \* the registration each database session is serving
  init,     \* the run of gpu-agent init on each machine
  config    \* the agent token in each machine's config file

tables == <<claim, expired, node, made, seen>>
vars == <<tables, session, init, config>>

NoRequest == [pc |-> "idle"]

\* A registration in flight: before its INSERT, before its UPDATE of the claim
\* token, and before its commit.
Registrations ==
  [pc : {"read"}, machine : Machines, token : ClaimTokens]
    \cup [pc : {"inserted", "consumed"}, machine : Machines, token : ClaimTokens,
          agent : AgentTokens]

\* gpu-agent init: waiting for the session that serves it, or answered.
NoInit == [at |-> "idle"]

Inits == {NoInit} \cup [at : {"posted"}, session : Sessions]
                  \cup [at : {"answered"}, agent : AgentTokens]

\* The sessions that have inserted a node and not committed it.
Inserting == {s \in Sessions : session[s].pc \in {"inserted", "consumed"}}

-----------------------------------------------------------------------------
(* POST /api/nodes/claim-tokens *)

\* generate_claim_token and the insertion.  The unique prefix makes insertions
\* of one prefix wait for each other, and all but the first fail (500).
CreateClaimToken(t) ==
  /\ claim[t] = "absent"
  /\ \A u \in ClaimTokens : claim[u] # "absent" => Prefix[u] # Prefix[t]
  /\ claim' = [claim EXCEPT ![t] = "valid"]
  /\ UNCHANGED <<expired, node, made, seen, session, init, config>>

\* claim_token_ttl_hours have passed.
Expire(t) ==
  /\ claim[t] # "absent"
  /\ expired' = expired \cup {t}
  /\ UNCHANGED <<claim, node, made, seen, session, init, config>>

-----------------------------------------------------------------------------
(* POST /api/nodes/register, and the machine that asks *)

\* The answer to the machine that waits for session s, if it still does.
Answer(s, answer) ==
  init' = [m \in Machines |->
            IF init[m] = [at |-> "posted", session |-> s] THEN answer ELSE init[m]]

\* Fault: a consumed token is accepted.
RegisterReadConsumed(s, m, t) ==
  /\ session[s] = NoRequest
  /\ init[m] = NoInit
  /\ claim[t] # "absent"
  /\ t \notin expired
  /\ session' = [session EXCEPT ![s] = [pc |-> "read", machine |-> m, token |-> t]]
  /\ init' = [init EXCEPT ![m] = [at |-> "posted", session |-> s]]
  /\ UNCHANGED <<tables, config>>

\* get_by_prefix, verify_claim_token and the three refusals (400).
RegisterRead(s, m, t) ==
  /\ session[s] = NoRequest
  /\ init[m] = NoInit
  /\ claim[t] = "valid"
  /\ t \notin expired
  /\ session' = [session EXCEPT ![s] = [pc |-> "read", machine |-> m, token |-> t]]
  /\ init' = [init EXCEPT ![m] = [at |-> "posted", session |-> s]]
  /\ UNCHANGED <<tables, config>>

\* Fault: agent_token_prefix is not unique.
RegisterInsertCollides(s, a) ==
  /\ session[s].pc = "read"
  /\ node[a] = "absent"
  /\ \A i \in Inserting : session[i].agent # a
  /\ session' = [session EXCEPT ![s] = [pc |-> "inserted", machine |-> @.machine,
                                         token |-> @.token, agent |-> a]]
  /\ UNCHANGED <<tables, init, config>>

\* generate_agent_token and the INSERT.  It waits for an insertion of the same
\* prefix to commit, and fails (500) when the prefix is taken.
RegisterInsert(s, a) ==
  /\ session[s].pc = "read"
  /\ node[a] = "absent"
  /\ \A i \in Inserting : Prefix[session[i].agent] # Prefix[a]
  /\ IF \E n \in AgentTokens : node[n] = "registered" /\ Prefix[n] = Prefix[a]
       THEN /\ session' = [session EXCEPT ![s] = NoRequest]
            /\ Answer(s, NoInit)
       ELSE /\ session' = [session EXCEPT ![s] =
                 [pc |-> "inserted", machine |-> @.machine, token |-> @.token,
                  agent |-> a]]
            /\ UNCHANGED init
  /\ UNCHANGED <<tables, config>>

\* mark_consumed: the UPDATE waits for another one of the same row.
RegisterConsume(s) ==
  /\ session[s].pc = "inserted"
  /\ \A i \in Sessions :
       session[i].pc = "consumed" => session[i].token # session[s].token
  /\ session' = [session EXCEPT ![s].pc = "consumed"]
  /\ UNCHANGED <<tables, init, config>>

\* Fault: the node is committed before the token is consumed, and the answer sent.
RegisterCommitEarly(s) ==
  /\ session[s].pc = "inserted"
  /\ LET a == session[s].agent
     IN  /\ node' = [node EXCEPT ![a] = "registered"]
         /\ made' = [made EXCEPT ![a] = session[s].token]
         /\ seen' = [seen EXCEPT ![a] = a]
         /\ Answer(s, [at |-> "answered", agent |-> a])
  /\ session' = [session EXCEPT ![s] = NoRequest]
  /\ UNCHANGED <<claim, expired, config>>

\* The commit, and the answer with the agent token.
RegisterCommit(s) ==
  /\ session[s].pc = "consumed"
  /\ LET a == session[s].agent
         t == session[s].token
     IN  /\ claim' = [claim EXCEPT ![t] = "consumed"]
         /\ node' = [node EXCEPT ![a] = "registered"]
         /\ made' = [made EXCEPT ![a] = t]
         /\ seen' = [seen EXCEPT ![a] = a]
         /\ Answer(s, [at |-> "answered", agent |-> a])
  /\ session' = [session EXCEPT ![s] = NoRequest]
  /\ UNCHANGED <<expired, config>>

\* Fault: the answer is sent although the transaction is rolled back.
AbortAnswered(s) ==
  /\ session[s] # NoRequest
  /\ session' = [session EXCEPT ![s] = NoRequest]
  /\ IF s \in Inserting
       THEN Answer(s, [at |-> "answered", agent |-> session[s].agent])
       ELSE Answer(s, NoInit)
  /\ UNCHANGED <<tables, config>>

\* The server dies, or its connection is lost: nothing is written.
Abort(s) ==
  /\ session[s] # NoRequest
  /\ session' = [session EXCEPT ![s] = NoRequest]
  /\ Answer(s, NoInit)
  /\ UNCHANGED <<tables, config>>

\* init fails: the client's timeout, a lost answer, a config that cannot be
\* written.  The registration goes on; the host may run init again.
GiveUp(m) ==
  /\ init[m] # NoInit
  /\ init' = [init EXCEPT ![m] = NoInit]
  /\ UNCHANGED <<tables, session, config>>

\* cfg.Save writes the answer over whatever config the machine had.
SaveConfig(m) ==
  /\ init[m].at = "answered"
  /\ config' = [config EXCEPT ![m] = init[m].agent]
  /\ init' = [init EXCEPT ![m] = NoInit]
  /\ UNCHANGED <<tables, session>>

-----------------------------------------------------------------------------
(* The agent, and the end of a node *)

\* Fault: the hash is not verified.
AuthenticateUnverified(a) ==
  {n \in AgentTokens : node[n] = "registered" /\ Prefix[n] = Prefix[a]}

\* authenticate_agent: the row with the prefix of token a, if a is its token.
Authenticate(a) ==
  {n \in AgentTokens : node[n] = "registered" /\ Prefix[n] = Prefix[a] /\ n = a}

\* record_heartbeat, of the node get_current_node found.
Heartbeat(m) ==
  /\ config[m] # NULL
  /\ \E n \in Authenticate(config[m]) : seen' = [seen EXCEPT ![n] = config[m]]
  /\ UNCHANGED <<claim, expired, node, made, session, init, config>>

\* delete_node: the row goes, its prefix is free again.
DeleteNode(n) ==
  /\ node[n] = "registered"
  /\ node' = [node EXCEPT ![n] = "deleted"]
  /\ UNCHANGED <<claim, expired, made, seen, session, init, config>>

-----------------------------------------------------------------------------
Init ==
  /\ claim = [t \in ClaimTokens |-> "absent"]
  /\ expired = {}
  /\ node = [a \in AgentTokens |-> "absent"]
  /\ made = [a \in AgentTokens |-> NULL]
  /\ seen = [a \in AgentTokens |-> NULL]
  /\ session = [s \in Sessions |-> NoRequest]
  /\ init = [m \in Machines |-> NoInit]
  /\ config = [m \in Machines |-> NULL]

Serve(s) ==
  \/ \E m \in Machines, t \in ClaimTokens : RegisterRead(s, m, t)
  \/ \E a \in AgentTokens : RegisterInsert(s, a)
  \/ RegisterConsume(s) \/ RegisterCommit(s) \/ Abort(s)

Next ==
  \/ \E t \in ClaimTokens : CreateClaimToken(t) \/ Expire(t)
  \/ \E s \in Sessions : Serve(s)
  \/ \E m \in Machines : GiveUp(m) \/ SaveConfig(m) \/ Heartbeat(m)
  \/ \E n \in AgentTokens : DeleteNode(n)

Spec == Init /\ [][Next]_vars
-----------------------------------------------------------------------------
(* Properties *)

\* Every variable keeps its type.
TypeOK ==
  /\ claim \in [ClaimTokens -> {"absent", "valid", "consumed"}]
  /\ expired \subseteq ClaimTokens
  /\ node \in [AgentTokens -> {"absent", "registered", "deleted"}]
  /\ made \in [AgentTokens -> ClaimTokens \cup {NULL}]
  /\ seen \in [AgentTokens -> AgentTokens \cup {NULL}]
  /\ session \in [Sessions -> {NoRequest} \cup Registrations]
  /\ init \in [Machines -> Inits]
  /\ config \in [Machines -> AgentTokens \cup {NULL}]

\* The lookup by prefix finds one row at most (scalar_one_or_none raises on
\* two), whatever registrations and deletions overlap.
PrefixesUnique ==
  \A a, b \in AgentTokens :
    node[a] = "registered" /\ node[b] = "registered" /\ Prefix[a] = Prefix[b]
      => a = b

\* A token is consumed with the registration it paid for, never without one:
\* a registration that fails half-way leaves it usable (register_node commits
\* once), and one that succeeds leaves no valid token behind.
ConsumedWithNode ==
  \A t \in ClaimTokens :
    claim[t] = "consumed" <=> \E a \in AgentTokens : made[a] = t

\* "already used" (register_node): only registrations that were in flight
\* together can share a token; with one session it is a one-time token.
TokenUses ==
  \A t \in ClaimTokens :
    Cardinality({a \in AgentTokens : made[a] = t}) <= Cardinality(Sessions)

\* What init saved was committed: an agent that starts is a node the control
\* plane knows, or knew until its owner deleted it.
ConfigIsRegistered ==
  \A m \in Machines : config[m] # NULL => node[config[m]] # "absent"

\* A heartbeat refreshes the agent's own node, even when the node was deleted
\* and another one was given its prefix (authenticate_agent).
HeartbeatsOwnNode == \A n \in AgentTokens : seen[n] \in {NULL, n}
=============================================================================
