---------------------------- MODULE MCRedlockNodes ----------------------------
(***************************************************************************)
(* RedlockNodes on a small instance.                                       *)
(***************************************************************************)
EXTENDS RedlockNodes, TLC

\* Calls are interchangeable, and so are nodes that neither fail nor restart.
Symmetry == Permutations(Calls) \cup Permutations(Nodes \ (Flaky \cup Volatile))
==============================================================================
