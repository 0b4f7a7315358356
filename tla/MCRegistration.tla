--------------------------- MODULE MCRegistration ---------------------------
(* A small instance of Registration for TLC. *)
EXTENDS Registration, TLC

CONSTANTS c1, c2, c3, a1, a2, a3

\* c1 and c2 share a prefix, and so do a1 and a2.
MCPrefix == (c1 :> 1) @@ (c2 :> 1) @@ (c3 :> 2) @@ (a1 :> 3) @@ (a2 :> 3) @@ (a3 :> 4)

\* Sound: the run checks safety only, and none of these is told from the others.
MCSymmetry == Permutations(Sessions) \cup Permutations(Machines)
=============================================================================
