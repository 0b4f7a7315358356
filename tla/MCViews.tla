------------------------------ MODULE MCViews ------------------------------
(* Small instances of every part of Views for TLC. *)
EXTENDS Views, TLC

CONSTANTS k1, k2, k3, u2, u3

\* k1 and k2 share a prefix.
MCPrefix == (k1 :> 1) @@ (k2 :> 1) @@ (k3 :> 2)

MCIds == 1 .. 4

\* Sound: the run checks safety only; k1 and k2 have the same prefix, u2 and u3
\* are not the administrator, and sessions are not told apart.
MCSymmetry ==
  Permutations(Sessions) \cup Permutations({k1, k2}) \cup Permutations({u2, u3})
=============================================================================
