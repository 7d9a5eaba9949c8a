----------------------------- MODULE MCApacheRules -----------------------------
(* Instances of ApacheRules for TLC. *)
EXTENDS ApacheRules, TLC

\* Addresses and solvers are interchangeable.
Symmetry == Permutations(IP) \cup Permutations(Solver)
==============================================================================
