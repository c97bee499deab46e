-------------------------- MODULE MCLogicalSession --------------------------
(* LogicalSession for TLC: the connections are interchangeable. *)
EXTENDS LogicalSession, TLC

Symmetry == Permutations(Conns)
=============================================================================
