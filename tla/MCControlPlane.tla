--------------------------- MODULE MCControlPlane ---------------------------
(* Small instances of ControlPlane for TLC. *)
EXTENDS ControlPlane, TLC

CONSTANTS n1, n2

\* Node n2 has two GPUs, n1 one.
MCCapacity == [n \in Nodes |-> IF n = n2 THEN 2 ELSE 1]

\* Sound for the runs that check safety only: requests are interchangeable.
SessionSymmetry == Permutations(Sessions)
=============================================================================
