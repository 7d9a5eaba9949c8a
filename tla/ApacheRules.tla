------------------------------ MODULE ApacheRules ------------------------------
(***************************************************************************)
(* What Apache does with a request: the rules of src/apache/blocklist.conf *)
(* with the captcha block enabled, read top to bottom, over the files that *)
(* PassStore maintains.  The two block lists are PollLoop's, so that here  *)
(* an address may be on any of them at any moment.                         *)
(***************************************************************************)
EXTENDS PassStore

\* The maps of decisions that an address may be on, and the requests it may make:
\* the challenge itself, a page, or whatever a page loads.
Listing == SUBSET {"ban", "captcha"}
Request == {"challenge", "page", "asset"}

\* A map that is missing answers every lookup with the default.
Solved(a) == exists /\ a \in file

\* The conditions that the challenge rule and the refuse rule share.
Stopped(a, maps, request) ==
  "captcha" \in maps /\ ~Solved(a) /\ request # "challenge"

\* The block rule, which exempts nothing; the challenge rule; the refuse rule; and
\* the proxy, which answers 503 when nobody listens.
Verdict(a, maps, request) ==
  IF "ban" \in maps THEN "refused"
  ELSE IF Stopped(a, maps, request)
         THEN IF request = "page" /\ ready THEN "redirected" ELSE "refused"
  ELSE IF request # "challenge" THEN "served"
  ELSE IF Serving THEN "challenged" ELSE "unavailable"

-------------------------------------------------------------------------------
(* Properties *)

\* A client that is redirected to the challenge finds it there, and a store to record
\* its answer in, over binds and templates that fail, crashes and restarts.  Left are
\* the moments between the end of the listener and the removal of the readiness file
\* (point 2 of the rules, serve and the gates of startChallenge).
RedirectsLeadToChallenge ==
  \A a \in IP, maps \in Listing :
    Verdict(a, maps, "page") = "redirected" =>
      \/ Verdict(a, maps, "challenge") = "challenged" /\ enabled
      \/ server \in {"closing", "uncleared"}
      \/ ~Up

\* Those moments end: no client is sent for ever to a challenge that is not there,
\* unless the readiness file could not be removed (clearReady, and the runtime
\* directory of the unit after a crash).
DeadRedirectsEnd ==
  \A a \in IP :
    (Verdict(a, {"captcha"}, "page") = "redirected" /\ ~Serving)
      ~> \/ Verdict(a, {"captcha"}, "page") # "redirected"
         \/ Serving
         \/ server = "uncleared"

\* A client that was told "solved" is served whatever it asks for, unless it is banned
\* as well, until its pass has lapsed and been pruned: whatever other solves and
\* prunes write, or fail to write, meanwhile.  A deleted map exempts nobody until it
\* is written again (add, prune).
SolvedGetsThrough ==
  phase \in {"polling", "stopping"} /\ exists =>
    \A a \in told, maps \in Listing, request \in {"page", "asset"} :
      "ban" \notin maps => Verdict(a, maps, request) = "served"
==============================================================================
