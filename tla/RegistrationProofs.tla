------------------------- MODULE RegistrationProofs -------------------------
(***************************************************************************)
(* Safety of Registration for every set of tokens, machines and sessions,    *)
(* and however many tokens share a prefix.                                  *)
(***************************************************************************)
EXTENDS Registration, FiniteSetTheorems, TLAPS

\* What a registration in flight relies on: its claim token exists, and from its
\* INSERT on the agent token and its prefix are its own.
RegistrationOK(s) ==
  LET r == session[s]
  IN  /\ r # NoRequest => claim[r.token] # "absent"
      /\ s \in Inserting =>
           /\ node[r.agent] = "absent"
           /\ \A n \in AgentTokens :
                node[n] = "registered" => Prefix[n] # Prefix[r.agent]
           /\ \A i \in Inserting \ {s} : Prefix[session[i].agent] # Prefix[r.agent]

\* A node that was never registered left no trace.
Unregistered ==
  \A a \in AgentTokens : node[a] = "absent" => made[a] = NULL

\* init is answered when the node is committed, not before.
AnswersAreRegistered ==
  \A m \in Machines : init[m].at = "answered" => node[init[m].agent] # "absent"

Inv ==
  /\ TypeOK
  /\ PrefixesUnique
  /\ ConsumedWithNode
  /\ ConfigIsRegistered
  /\ HeartbeatsOwnNode
  /\ Unregistered
  /\ AnswersAreRegistered
  /\ \A s \in Sessions : RegistrationOK(s)

\* Empty tables and no request under way satisfy the invariant.
THEOREM InitInv == Init => Inv
<1> SUFFICES ASSUME Init PROVE Inv OBVIOUS
<1> USE RegistrationAssumption
<1>1. TypeOK
  BY DEF Init, TypeOK, NoRequest, NoInit, Inits
<1>2. PrefixesUnique /\ ConfigIsRegistered /\ HeartbeatsOwnNode
  BY DEF Init, PrefixesUnique, ConfigIsRegistered, HeartbeatsOwnNode
<1>3. ConsumedWithNode /\ Unregistered
  BY DEF Init, ConsumedWithNode, Unregistered
<1>4. AnswersAreRegistered
  BY DEF Init, AnswersAreRegistered, NoInit
<1>5. \A s \in Sessions : RegistrationOK(s)
  BY DEF Init, RegistrationOK, Inserting, NoRequest
<1> QED BY <1>1, <1>2, <1>3, <1>4, <1>5 DEF Inv

\* The fields of a registration in flight.
LEMMA RegistrationFields ==
  ASSUME TypeOK, NEW s \in Sessions
  PROVE  /\ session[s] # NoRequest =>
              session[s].machine \in Machines /\ session[s].token \in ClaimTokens
         /\ s \in Inserting => session[s].agent \in AgentTokens
         /\ s \in Inserting => session[s] # NoRequest
         /\ session[s].pc = "read" => session[s] # NoRequest
BY DEF TypeOK, Registrations, NoRequest, Inserting

\* Whatever init is answered or told, its type is kept.
LEMMA AnswerType ==
  ASSUME TypeOK, NEW s \in Sessions, NEW answer \in Inits, Answer(s, answer)
  PROVE  init' \in [Machines -> Inits]
BY DEF Answer, TypeOK

\* A registration that ends with nothing written: an answer of an error, or none.
LEMMA FailureInv ==
  ASSUME Inv, NEW s \in Sessions, UNCHANGED <<tables, config>>,
         session' = [session EXCEPT ![s] = NoRequest], Answer(s, NoInit)
  PROVE  Inv'
<1>1. TypeOK'
  BY AnswerType DEF Inv, TypeOK, tables, Inits
<1>2. (PrefixesUnique /\ ConsumedWithNode /\ ConfigIsRegistered
       /\ HeartbeatsOwnNode /\ Unregistered)'
  BY DEF Inv, tables, PrefixesUnique, ConsumedWithNode, ConfigIsRegistered,
         HeartbeatsOwnNode, Unregistered
<1>3. AnswersAreRegistered'
  BY DEF Inv, TypeOK, tables, AnswersAreRegistered, Answer, NoInit
<1>4. \A i \in Sessions : RegistrationOK(i)'
  BY DEF Inv, TypeOK, tables, RegistrationOK, Inserting, NoRequest
<1> QED BY <1>1, <1>2, <1>3, <1>4 DEF Inv

\* A registration starts with the claim token it has read.
LEMMA RegisterReadInv ==
  ASSUME Inv, NEW s \in Sessions, NEW m \in Machines, NEW t \in ClaimTokens,
         RegisterRead(s, m, t)
  PROVE  Inv'
<1> DEFINE r == [pc |-> "read", machine |-> m, token |-> t]
<1>1. TypeOK'
  BY DEF RegisterRead, Inv, TypeOK, tables, Registrations, Inits
<1>2. (PrefixesUnique /\ ConsumedWithNode /\ ConfigIsRegistered
       /\ HeartbeatsOwnNode /\ Unregistered)'
  BY DEF RegisterRead, Inv, tables, PrefixesUnique, ConsumedWithNode,
         ConfigIsRegistered, HeartbeatsOwnNode, Unregistered
<1>3. AnswersAreRegistered'
  BY DEF RegisterRead, Inv, TypeOK, tables, AnswersAreRegistered
<1>4. \A i \in Sessions : RegistrationOK(i)'
  BY DEF RegisterRead, Inv, TypeOK, tables, RegistrationOK, Inserting, NoRequest
<1> QED BY <1>1, <1>2, <1>3, <1>4 DEF Inv

\* The INSERT: the prefix of the new agent token is free, in the table and among
\* the insertions under way.
LEMMA RegisterInsertInv ==
  ASSUME Inv, NEW s \in Sessions, NEW a \in AgentTokens, RegisterInsert(s, a)
  PROVE  Inv'
<1>1. CASE \E n \in AgentTokens : node[n] = "registered" /\ Prefix[n] = Prefix[a]
  BY <1>1, FailureInv DEF RegisterInsert
<1>2. CASE ~\E n \in AgentTokens : node[n] = "registered" /\ Prefix[n] = Prefix[a]
  <2> DEFINE r == [pc |-> "inserted", machine |-> session[s].machine,
                   token |-> session[s].token, agent |-> a]
  <2>1. /\ session' = [session EXCEPT ![s] = r]
        /\ UNCHANGED <<init, tables, config>>
    BY <1>2 DEF RegisterInsert
  <2>2. r \in Registrations /\ session[s] # NoRequest
    BY RegistrationFields DEF RegisterInsert, Inv, Registrations
  <2>3. TypeOK'
    BY <2>1, <2>2 DEF Inv, TypeOK, tables
  <2>4. (PrefixesUnique /\ ConsumedWithNode /\ ConfigIsRegistered
         /\ HeartbeatsOwnNode /\ Unregistered /\ AnswersAreRegistered)'
    BY <2>1 DEF Inv, tables, PrefixesUnique, ConsumedWithNode, ConfigIsRegistered,
                HeartbeatsOwnNode, Unregistered, AnswersAreRegistered
  <2>5. Inserting' = Inserting \cup {s}
    BY <2>1 DEF Inserting, Inv, TypeOK
  <2>6. \A i \in Sessions : session'[i] = IF i = s THEN r ELSE session[i]
    BY <2>1 DEF Inv, TypeOK
  <2>7. \A i \in Sessions : RegistrationOK(i)'
    <3> SUFFICES ASSUME NEW i \in Sessions PROVE RegistrationOK(i)'
      OBVIOUS
    <3>1. claim' = claim /\ node' = node
      BY <2>1 DEF tables
    <3>2. \A j \in Inserting : Prefix[session[j].agent] # Prefix[a]
      BY DEF RegisterInsert
    <3>3. RegistrationOK(i) /\ RegistrationOK(s)
      BY DEF Inv
    <3>4. s \notin Inserting
      BY DEF RegisterInsert, Inserting
    <3>5. CASE i = s
      <4>1. session'[i] = r /\ claim'[r.token] # "absent"
        BY <2>2, <2>6, <3>1, <3>3, <3>5 DEF RegistrationOK
      <4>2. node'[a] = "absent"
        BY <3>1 DEF RegisterInsert
      <4>3. \A n \in AgentTokens : node'[n] = "registered" => Prefix[n] # Prefix[a]
        BY <1>2, <3>1
      <4>4. \A j \in Inserting' \ {s} : Prefix[session'[j].agent] # Prefix[a]
        BY <2>5, <2>6, <3>2 DEF Inserting
      <4> QED BY <3>5, <4>1, <4>2, <4>3, <4>4 DEF RegistrationOK
    <3>6. CASE i # s
      BY <2>5, <2>6, <3>1, <3>2, <3>3, <3>6 DEF RegistrationOK, Inserting
    <3> QED BY <3>5, <3>6
  <2> QED BY <2>3, <2>4, <2>7 DEF Inv
<1> QED BY <1>1, <1>2

\* The UPDATE of the claim token.
LEMMA RegisterConsumeInv ==
  ASSUME Inv, NEW s \in Sessions, RegisterConsume(s)
  PROVE  Inv'
<1>1. session[s] \in [pc : {"inserted", "consumed"}, machine : Machines,
                     token : ClaimTokens, agent : AgentTokens]
  BY DEF RegisterConsume, Inv, TypeOK, Registrations, NoRequest
<1>2. TypeOK'
  BY <1>1 DEF RegisterConsume, Inv, TypeOK, tables, Registrations
<1>3. (PrefixesUnique /\ ConsumedWithNode /\ ConfigIsRegistered
       /\ HeartbeatsOwnNode /\ Unregistered /\ AnswersAreRegistered)'
  BY DEF RegisterConsume, Inv, tables, PrefixesUnique, ConsumedWithNode,
         ConfigIsRegistered, HeartbeatsOwnNode, Unregistered, AnswersAreRegistered
<1>4. Inserting' = Inserting
  BY DEF RegisterConsume, Inserting, Inv, TypeOK
<1>5. \A i \in Sessions : /\ session'[i].agent = session[i].agent
                          /\ session'[i].token = session[i].token
                          /\ session'[i] # NoRequest => session[i] # NoRequest
  BY <1>1 DEF RegisterConsume, Inv, TypeOK, NoRequest
<1>6. \A i \in Sessions : RegistrationOK(i)'
  BY <1>4, <1>5 DEF RegisterConsume, Inv, tables, RegistrationOK, Inserting
<1> QED BY <1>2, <1>3, <1>6 DEF Inv

\* The commit: the token is consumed and the node registered in one step, with
\* the prefix nobody else has.
LEMMA RegisterCommitInv ==
  ASSUME Inv, NEW s \in Sessions, RegisterCommit(s)
  PROVE  Inv'
<1> DEFINE a == session[s].agent
           t == session[s].token
<1>1. s \in Inserting /\ a \in AgentTokens /\ t \in ClaimTokens
  BY RegistrationFields DEF RegisterCommit, Inserting, Inv
<1>2. node[a] = "absent" /\ made[a] = NULL
  BY <1>1 DEF Inv, RegistrationOK, Unregistered
<1>3. /\ claim' = [claim EXCEPT ![t] = "consumed"]
      /\ node' = [node EXCEPT ![a] = "registered"]
      /\ made' = [made EXCEPT ![a] = t]
      /\ seen' = [seen EXCEPT ![a] = a]
      /\ session' = [session EXCEPT ![s] = NoRequest]
      /\ Answer(s, [at |-> "answered", agent |-> a])
      /\ UNCHANGED <<expired, config>>
  BY DEF RegisterCommit
<1> HIDE DEF a, t
<1>4. TypeOK'
  <2>1. [at |-> "answered", agent |-> a] \in Inits
    BY <1>1 DEF Inits
  <2>2. init' \in [Machines -> Inits]
    BY <1>3, <2>1, AnswerType DEF Inv
  <2> QED BY <1>1, <1>3, <2>2 DEF Inv, TypeOK
<1>5. PrefixesUnique'
  <2>1. \A n \in AgentTokens : node[n] = "registered" => Prefix[n] # Prefix[a]
    BY <1>1 DEF Inv, RegistrationOK, a
  <2> QED BY <1>1, <1>3, <2>1 DEF Inv, TypeOK, PrefixesUnique
<1>6. ConsumedWithNode'
  BY <1>1, <1>2, <1>3, RegistrationAssumption DEF Inv, TypeOK, ConsumedWithNode
<1>7. (ConfigIsRegistered /\ HeartbeatsOwnNode /\ Unregistered)'
  BY <1>1, <1>3 DEF Inv, TypeOK, ConfigIsRegistered, HeartbeatsOwnNode, Unregistered
<1>8. AnswersAreRegistered'
  BY <1>1, <1>3 DEF Inv, TypeOK, AnswersAreRegistered, Answer, Inits
<1>9. \A i \in Sessions : RegistrationOK(i)'
  <2>1. \A i \in Sessions : session'[i] = IF i = s THEN NoRequest ELSE session[i]
    BY <1>3 DEF Inv, TypeOK
  <2>2. Inserting' = Inserting \ {s}
    BY <2>1 DEF Inserting, NoRequest
  <2> SUFFICES ASSUME NEW i \in Sessions, i # s PROVE RegistrationOK(i)'
    BY <2>1, <2>2 DEF RegistrationOK
  <2>3. RegistrationOK(i) /\ session'[i] = session[i]
    BY <2>1 DEF Inv
  <2>4. session[i] # NoRequest => session[i].token \in ClaimTokens
    BY RegistrationFields DEF Inv
  <2>5. session'[i] # NoRequest => claim'[session'[i].token] # "absent"
    BY <1>1, <1>3, <2>3, <2>4 DEF RegistrationOK, Inv, TypeOK
  <2>6. ASSUME i \in Inserting
        PROVE  /\ node'[session[i].agent] = "absent"
               /\ \A n \in AgentTokens :
                    node'[n] = "registered" => Prefix[n] # Prefix[session[i].agent]
    <3>1. session[i].agent \in AgentTokens
      BY <2>6, RegistrationFields DEF Inv
    <3>2. Prefix[a] # Prefix[session[i].agent]
      BY <1>1, <2>3, <2>6 DEF RegistrationOK, a
    <3> QED BY <1>1, <1>3, <2>3, <2>6, <3>1, <3>2 DEF RegistrationOK, Inv, TypeOK
  <2>7. ASSUME i \in Inserting, NEW j \in Inserting' \ {i}
        PROVE  Prefix[session'[j].agent] # Prefix[session[i].agent]
    <3>1. j \in Inserting \ {i} /\ session'[j] = session[j]
      BY <2>1, <2>2, <2>7 DEF Inserting
    <3> QED BY <2>3, <2>7, <3>1 DEF RegistrationOK
  <2>8. i \in Inserting' => i \in Inserting
    BY <2>2
  <2> QED BY <2>3, <2>5, <2>6, <2>7, <2>8 DEF RegistrationOK
<1> QED BY <1>4, <1>5, <1>6, <1>7, <1>8, <1>9 DEF Inv

\* Steps that touch neither registrations nor nodes in the making: a new or an
\* expired token, a deletion, a machine that gives up, saves or heartbeats.
LEMMA OtherInv ==
  ASSUME Inv,
         \/ \E t \in ClaimTokens : CreateClaimToken(t) \/ Expire(t)
         \/ \E m \in Machines : GiveUp(m) \/ SaveConfig(m) \/ Heartbeat(m)
         \/ \E n \in AgentTokens : DeleteNode(n)
  PROVE  Inv'
<1>1. ASSUME NEW t \in ClaimTokens, CreateClaimToken(t) PROVE Inv'
  <2>1. TypeOK'
    BY <1>1 DEF CreateClaimToken, Inv, TypeOK
  <2>2. ConsumedWithNode'
    BY <1>1 DEF CreateClaimToken, Inv, TypeOK, ConsumedWithNode
  <2>3. (PrefixesUnique /\ ConfigIsRegistered /\ HeartbeatsOwnNode
         /\ Unregistered /\ AnswersAreRegistered)'
    BY <1>1 DEF CreateClaimToken, Inv, PrefixesUnique, ConfigIsRegistered,
                HeartbeatsOwnNode, Unregistered, AnswersAreRegistered
  <2>4. \A i \in Sessions : RegistrationOK(i)'
    BY <1>1, RegistrationFields
    DEF CreateClaimToken, Inv, TypeOK, RegistrationOK, Inserting
  <2> QED BY <2>1, <2>2, <2>3, <2>4 DEF Inv
<1>2. ASSUME NEW t \in ClaimTokens, Expire(t) PROVE Inv'
  BY <1>2 DEF Expire, Inv, TypeOK, PrefixesUnique, ConsumedWithNode,
     ConfigIsRegistered, HeartbeatsOwnNode, Unregistered, AnswersAreRegistered,
     RegistrationOK, Inserting
<1>3. ASSUME NEW m \in Machines, GiveUp(m) PROVE Inv'
  <2>1. TypeOK' /\ AnswersAreRegistered'
    BY <1>3 DEF GiveUp, Inv, TypeOK, Inits, AnswersAreRegistered, NoInit, tables
  <2>2. (PrefixesUnique /\ ConsumedWithNode /\ ConfigIsRegistered
         /\ HeartbeatsOwnNode /\ Unregistered)'
    BY <1>3 DEF GiveUp, Inv, PrefixesUnique, ConsumedWithNode, ConfigIsRegistered,
                HeartbeatsOwnNode, Unregistered, tables
  <2>3. \A i \in Sessions : RegistrationOK(i)'
    BY <1>3 DEF GiveUp, Inv, RegistrationOK, Inserting, tables
  <2> QED BY <2>1, <2>2, <2>3 DEF Inv
<1>4. ASSUME NEW m \in Machines, SaveConfig(m) PROVE Inv'
  <2>1. init[m].agent \in AgentTokens /\ node[init[m].agent] # "absent"
    BY <1>4 DEF SaveConfig, Inv, TypeOK, Inits, NoInit, AnswersAreRegistered
  <2>2. TypeOK' /\ AnswersAreRegistered' /\ ConfigIsRegistered'
    BY <1>4, <2>1 DEF SaveConfig, Inv, TypeOK, Inits, AnswersAreRegistered, NoInit,
                      ConfigIsRegistered, tables
  <2>3. (PrefixesUnique /\ ConsumedWithNode /\ HeartbeatsOwnNode /\ Unregistered)'
    BY <1>4 DEF SaveConfig, Inv, PrefixesUnique, ConsumedWithNode,
                HeartbeatsOwnNode, Unregistered, tables
  <2>4. \A i \in Sessions : RegistrationOK(i)'
    BY <1>4 DEF SaveConfig, Inv, RegistrationOK, Inserting, tables
  <2> QED BY <2>2, <2>3, <2>4 DEF Inv
<1>5. ASSUME NEW m \in Machines, Heartbeat(m) PROVE Inv'
  <2>1. TypeOK' /\ HeartbeatsOwnNode'
    BY <1>5 DEF Heartbeat, Authenticate, Inv, TypeOK, HeartbeatsOwnNode
  <2>2. (PrefixesUnique /\ ConsumedWithNode /\ ConfigIsRegistered /\ Unregistered
         /\ AnswersAreRegistered)'
    BY <1>5 DEF Heartbeat, Inv, PrefixesUnique, ConsumedWithNode, ConfigIsRegistered,
                Unregistered, AnswersAreRegistered
  <2>3. \A i \in Sessions : RegistrationOK(i)'
    BY <1>5 DEF Heartbeat, Inv, RegistrationOK, Inserting
  <2> QED BY <2>1, <2>2, <2>3 DEF Inv
<1>6. ASSUME NEW n \in AgentTokens, DeleteNode(n) PROVE Inv'
  <2>1. (TypeOK /\ PrefixesUnique /\ ConsumedWithNode /\ ConfigIsRegistered
         /\ HeartbeatsOwnNode /\ Unregistered /\ AnswersAreRegistered)'
    BY <1>6 DEF DeleteNode, Inv, TypeOK, PrefixesUnique, ConsumedWithNode,
                ConfigIsRegistered, HeartbeatsOwnNode, Unregistered,
                AnswersAreRegistered, Inits
  <2>2. \A i \in Sessions : RegistrationOK(i)'
    BY <1>6, RegistrationFields
    DEF DeleteNode, Inv, TypeOK, RegistrationOK, Inserting
  <2> QED BY <2>1, <2>2 DEF Inv
<1> QED BY <1>1, <1>2, <1>3, <1>4, <1>5, <1>6

\* Every step keeps the invariant.
LEMMA NextInv == Inv /\ [Next]_vars => Inv'
<1> SUFFICES ASSUME Inv, [Next]_vars PROVE Inv'
  OBVIOUS
<1>1. ASSUME NEW s \in Sessions, Serve(s) PROVE Inv'
  <2>1. ASSUME Abort(s) PROVE Inv'
    BY <2>1, FailureInv DEF Abort
  <2> QED BY <1>1, <2>1, RegisterReadInv, RegisterInsertInv, RegisterConsumeInv,
            RegisterCommitInv DEF Serve
<1>2. CASE UNCHANGED vars
  BY <1>2 DEF vars, tables, Inv, TypeOK, PrefixesUnique, ConsumedWithNode,
     ConfigIsRegistered, HeartbeatsOwnNode, Unregistered, AnswersAreRegistered,
     RegistrationOK, Inserting
<1> QED BY <1>1, <1>2, OtherInv DEF Next

\* The inductive invariant behind the theorems below.
THEOREM Invariance == Spec => []Inv
BY InitInv, NextInv, PTL DEF Spec

\* Types, for every set of tokens, machines and sessions.
THEOREM TypeCorrect == Spec => []TypeOK
<1>1. Inv => TypeOK BY DEF Inv
<1> QED BY <1>1, Invariance, PTL

\* authenticate_agent never finds two rows.
THEOREM LookupsAreUnique == Spec => []PrefixesUnique
<1>1. Inv => PrefixesUnique BY DEF Inv
<1> QED BY <1>1, Invariance, PTL

\* register_node consumes a token and creates its node together or not at all.
THEOREM AllOrNothing == Spec => []ConsumedWithNode
<1>1. Inv => ConsumedWithNode BY DEF Inv
<1> QED BY <1>1, Invariance, PTL

\* gpu-agent init saves only what was committed.
THEOREM SavedIsCommitted == Spec => []ConfigIsRegistered
<1>1. Inv => ConfigIsRegistered BY DEF Inv
<1> QED BY <1>1, Invariance, PTL

\* A heartbeat never refreshes another node, whoever was given the prefix.
THEOREM HeartbeatsAreOwn == Spec => []HeartbeatsOwnNode
<1>1. Inv => HeartbeatsOwnNode BY DEF Inv
<1> QED BY <1>1, Invariance, PTL

-----------------------------------------------------------------------------
(* How often a token is used *)

MadeWith(t) == {a \in AgentTokens : made[a] = t}

\* The registrations in flight that have read t as valid.
Holding(t) == {s \in Sessions : session[s] # NoRequest /\ session[s].token = t}

\* A token has as many nodes, and may still get as many, as there can be
\* registrations in flight.
UsesOf(t) ==
  /\ IsFiniteSet(MadeWith(t))
  /\ Cardinality(MadeWith(t)) + Cardinality(Holding(t)) <= Cardinality(Sessions)

UsesOK == \A t \in ClaimTokens : UsesOf(t)

\* The registrations that hold a token are sessions, and finite in number.
LEMMA HoldingIsFinite ==
  ASSUME NEW t
  PROVE  /\ IsFiniteSet(Holding(t))
         /\ Cardinality(Holding(t)) \in Nat
         /\ Cardinality(Holding(t)) <= Cardinality(Sessions)
         /\ Cardinality(Sessions) \in Nat
<1>1. Holding(t) \in SUBSET Sessions
  BY DEF Holding
<1> QED BY <1>1, RegistrationAssumption, FS_Subset, FS_CardinalityType

\* Nothing was made and nothing is held.
LEMMA InitUses == Init => UsesOK
<1> SUFFICES ASSUME Init, NEW t \in ClaimTokens PROVE UsesOf(t)
  BY DEF UsesOK
<1>1. MadeWith(t) = {}
  BY RegistrationAssumption DEF Init, MadeWith
<1> QED BY <1>1, FS_EmptySet, HoldingIsFinite DEF UsesOf

\* A step that makes no node and lets no new registration hold t.
LEMMA FewerHolding ==
  ASSUME NEW t \in ClaimTokens, UsesOf(t),
         MadeWith(t)' = MadeWith(t), Holding(t)' \in SUBSET Holding(t)
  PROVE  UsesOf(t)'
<1>1. IsFiniteSet(Holding(t)') /\ Cardinality(Holding(t)') <= Cardinality(Holding(t))
  BY HoldingIsFinite, FS_Subset
<1>2. Cardinality(Holding(t)') \in Nat
  BY <1>1, FS_CardinalityType
<1>3. Cardinality(MadeWith(t)) \in Nat
  BY FS_CardinalityType DEF UsesOf
<1> QED BY <1>1, <1>2, <1>3, HoldingIsFinite DEF UsesOf

\* A registration that reads a valid token finds no node made with it.
LEMMA ReadUses ==
  ASSUME Inv, NEW t \in ClaimTokens, NEW s \in Sessions, NEW m \in Machines,
         RegisterRead(s, m, t)
  PROVE  UsesOf(t)'
<1>1. made' = made
  BY DEF RegisterRead, tables
<1>2. MadeWith(t)' = {}
  BY <1>1 DEF RegisterRead, Inv, ConsumedWithNode, MadeWith
<1>3. Holding(t)' \in SUBSET Sessions
  BY DEF Holding
<1>4. /\ IsFiniteSet(Holding(t)')
      /\ Cardinality(Holding(t)') <= Cardinality(Sessions)
  BY <1>3, RegistrationAssumption, FS_Subset
<1>5. Cardinality(Holding(t)') \in Nat
  BY <1>4, FS_CardinalityType
<1> QED BY <1>2, <1>4, <1>5, HoldingIsFinite, FS_EmptySet DEF UsesOf

\* A registration that commits turns from a holder of its token into a node.
LEMMA CommitUses ==
  ASSUME Inv, NEW s \in Sessions, RegisterCommit(s), NEW t \in ClaimTokens, UsesOf(t)
  PROVE  UsesOf(t)'
<1> DEFINE a == session[s].agent
<1>1. a \in AgentTokens /\ session[s] # NoRequest
  BY RegistrationFields DEF RegisterCommit, Inserting, Inv
<1>2. made' = [made EXCEPT ![a] = session[s].token]
  BY DEF RegisterCommit
<1>3. session' = [session EXCEPT ![s] = NoRequest]
  BY DEF RegisterCommit
<1>4. Holding(t)' = Holding(t) \ {s}
  BY <1>3 DEF Holding, Inv, TypeOK
<1>5. made[a] = NULL
  BY <1>1 DEF RegisterCommit, Inv, RegistrationOK, Unregistered, Inserting
<1>6. CASE session[s].token # t
  <2>1. MadeWith(t)' = MadeWith(t)
    BY <1>1, <1>2, <1>5, <1>6, RegistrationAssumption DEF MadeWith, Inv, TypeOK
  <2> QED BY <1>4, <2>1, FewerHolding
<1>7. CASE session[s].token = t
  <2>1. s \in Holding(t)
    BY <1>1, <1>7 DEF Holding
  <2>2. MadeWith(t)' = MadeWith(t) \cup {a} /\ a \notin MadeWith(t)
    BY <1>1, <1>2, <1>5, <1>7, RegistrationAssumption DEF MadeWith, Inv, TypeOK
  <2>3. /\ IsFiniteSet(MadeWith(t)')
        /\ Cardinality(MadeWith(t)') = Cardinality(MadeWith(t)) + 1
    BY <2>2, FS_AddElement DEF UsesOf
  <2>4. Cardinality(Holding(t)') = Cardinality(Holding(t)) - 1
    BY <1>4, <2>1, HoldingIsFinite, FS_RemoveElement
  <2>5. Cardinality(MadeWith(t)) \in Nat
    BY FS_CardinalityType DEF UsesOf
  <2> QED BY <2>3, <2>4, <2>5, HoldingIsFinite DEF UsesOf
<1> QED BY <1>6, <1>7

\* Every step keeps the count.
LEMMA NextUses == Inv /\ UsesOK /\ [Next]_vars => UsesOK'
<1> SUFFICES ASSUME Inv, UsesOK, [Next]_vars, NEW t \in ClaimTokens PROVE UsesOf(t)'
  BY DEF UsesOK
<1>1. UsesOf(t)
  BY DEF UsesOK
<1>2. ASSUME made' = made, \A i \in Sessions :
               session'[i] # NoRequest /\ session'[i].token = t =>
                 session[i] # NoRequest /\ session[i].token = t
      PROVE  UsesOf(t)'
  BY <1>1, <1>2, FewerHolding DEF MadeWith, Holding
<1>3. ASSUME NEW s \in Sessions, NEW m \in Machines, NEW c \in ClaimTokens,
             RegisterRead(s, m, c)
      PROVE  UsesOf(t)'
  <2>1. CASE c = t
    BY <1>3, <2>1, ReadUses
  <2>2. CASE c # t
    BY <1>2, <1>3, <2>2 DEF RegisterRead, tables, Inv, TypeOK
  <2> QED BY <2>1, <2>2
<1>4. ASSUME NEW s \in Sessions, NEW a \in AgentTokens, RegisterInsert(s, a)
      PROVE  UsesOf(t)'
  <2>1. session[s] # NoRequest
    BY <1>4, RegistrationFields DEF RegisterInsert, Inv
  <2> QED BY <1>2, <1>4, <2>1 DEF RegisterInsert, tables, Inv, TypeOK
<1>5. ASSUME NEW s \in Sessions, RegisterConsume(s) PROVE UsesOf(t)'
  <2>1. session[s] \in [pc : {"inserted", "consumed"}, machine : Machines,
                       token : ClaimTokens, agent : AgentTokens]
    BY <1>5 DEF RegisterConsume, Inv, TypeOK, Registrations, NoRequest
  <2>2. \A i \in Sessions : /\ session'[i].token = session[i].token
                            /\ session'[i] # NoRequest => session[i] # NoRequest
    BY <1>5, <2>1 DEF RegisterConsume, Inv, TypeOK, NoRequest
  <2> QED BY <1>2, <1>5, <2>2 DEF RegisterConsume, tables
<1>6. ASSUME NEW s \in Sessions, RegisterCommit(s) PROVE UsesOf(t)'
  BY <1>1, <1>6, CommitUses
<1>7. ASSUME NEW s \in Sessions, Abort(s) PROVE UsesOf(t)'
  BY <1>2, <1>7 DEF Abort, tables, Inv, TypeOK
<1>8. CASE UNCHANGED <<made, session>>
  BY <1>2, <1>8
<1> QED BY <1>3, <1>4, <1>5, <1>6, <1>7, <1>8
        DEF Next, Serve, CreateClaimToken, Expire, GiveUp, SaveConfig, Heartbeat,
            DeleteNode, tables, vars

\* Only registrations that were in flight together share a claim token.
THEOREM UsesAreBounded == Spec => []TokenUses
<1>1. UsesOK => TokenUses
  <2> SUFFICES ASSUME UsesOK, NEW t \in ClaimTokens
               PROVE  Cardinality(MadeWith(t)) <= Cardinality(Sessions)
    BY DEF TokenUses, MadeWith
  <2>1. UsesOf(t) /\ Cardinality(MadeWith(t)) \in Nat
    BY FS_CardinalityType DEF UsesOK, UsesOf
  <2> QED BY <2>1, HoldingIsFinite DEF UsesOf
<1> QED BY <1>1, Invariance, InitUses, NextUses, PTL DEF Spec
=============================================================================
