\* Two registrations in flight, three tokens of each kind, two machines.
SPECIFICATION Spec
CONSTANTS
  NULL = NULL
  ClaimTokens = {c1, c2, c3}
  AgentTokens = {a1, a2, a3}
  c1 = c1
  c2 = c2
  c3 = c3
  a1 = a1
  a2 = a2
  a3 = a3
  Prefix <- MCPrefix
  Machines = {m1, m2}
  Sessions = {s1, s2}
INVARIANTS
  PrefixesUnique
  ConsumedWithNode
  TokenUses
  ConfigIsRegistered
  HeartbeatsOwnNode
SYMMETRY MCSymmetry
