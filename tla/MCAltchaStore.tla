----------------------------- MODULE MCAltchaStore -----------------------------
(* Instances of AltchaStore for TLC. *)
EXTENDS AltchaStore, TLC

\* Requests and addresses are interchangeable: no definition tells them apart.
Symmetry == Permutations(IP) \cup Permutations(Request)
==============================================================================
