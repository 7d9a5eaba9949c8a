--------------------------- MODULE ApacheRulesProofs ---------------------------
(***************************************************************************)
(* Proofs about ApacheRules: what the invariant of the pass store and its  *)
(* listener means for a client, for any number of addresses.               *)
(***************************************************************************)
EXTENDS ApacheRules, PassStoreProofs

\* A redirected client finds the challenge, and a store behind it, but for the moments
\* in which the listener is over and its readiness file is not.
THEOREM RedirectsAreAnswered == Spec => []RedirectsLeadToChallenge
<1>1. IInv => RedirectsLeadToChallenge
  <2> SUFFICES ASSUME IInv, NEW a \in IP, NEW maps \in Listing,
                      Verdict(a, maps, "page") = "redirected",
                      server \notin {"closing", "uncleared"}, Up
               PROVE  Verdict(a, maps, "challenge") = "challenged" /\ enabled
    BY DEF RedirectsLeadToChallenge
  <2>1. ready /\ "ban" \notin maps
    BY DEF Verdict, Stopped
  <2>2. server = "serving" /\ enabled
    BY <2>1 DEF IInv, ReadyIsBound, ListenerHasStore
  <2> QED
    BY <2>1, <2>2 DEF Verdict, Stopped, Serving
<1> QED
  BY <1>1, PassInvariance, PTL

\* A client that was told "solved" is let through, unless it is banned.
THEOREM SolvedIsServed == Spec => []SolvedGetsThrough
<1>1. IInv => SolvedGetsThrough
  BY DEF IInv, ToldIsExempt, SolvedGetsThrough, Verdict, Stopped, Solved
<1> QED
  BY <1>1, PassInvariance, PTL
==============================================================================
