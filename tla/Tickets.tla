-------------------------------- MODULE Tickets --------------------------------
(***************************************************************************)
(* What the challenge store promises of a challenge, without the requests, *)
(* the lock, the claims and the copies that AltchaStore delivers it with.  *)
(* A ticket is minted once, for one address, and is from then on in one    *)
(* place: held by the store, taken out by somebody whose pass is being     *)
(* recorded, or gone for good.  An address has at most one ticket in the   *)
(* store; the store lets go of it only when it is taken, when it has       *)
(* lapsed, or when the address gets another.                               *)
(***************************************************************************)
EXTENDS Naturals

CONSTANTS
  IP, Ticket, NoOne,
  TTL,          \* a ticket is never good for longer than this from now
  MaxLifetime   \* nor for longer than this from its mint

VARIABLES
  clock,
  place,    \* ticket -> "unminted", "held", "taken" or "gone"
  owner,    \* ticket -> the address it was minted for, or NoOne
  minted,   \* ticket -> when it was minted
  expires,  \* ticket -> when it lapses, while it is held
  passes    \* ticket -> how many passes it has bought

vars == <<clock, place, owner, minted, expires, passes>>

Held(k) == place[k] = "held"

\* How long ticket k may be good for.
Allowed(k) == {e \in 0..(clock + TTL) : e <= minted[k] + MaxLifetime}

Init ==
  /\ clock = 0
  /\ place = [k \in Ticket |-> "unminted"]
  /\ owner = [k \in Ticket |-> NoOne]
  /\ minted = [k \in Ticket |-> 0]
  /\ expires = [k \in Ticket |-> 0]
  /\ passes = [k \in Ticket |-> 0]

\* The tickets in K leave the store, for places new.
Leave(K, new) ==
  /\ place' = [k \in Ticket |-> IF k \in K THEN new ELSE place[k]]
  /\ expires' = [k \in Ticket |-> IF k \in K THEN 0 ELSE expires[k]]

\* A fresh ticket for address a, as of a moment that has been.  It displaces
\* the one the address had.
Mint(k, a) ==
  LET displaced == {j \in Ticket : Held(j) /\ owner[j] = a}
  IN  /\ place[k] = "unminted"
      /\ owner' = [owner EXCEPT ![k] = a]
      /\ place' = [j \in Ticket |-> IF j = k THEN "held"
                                    ELSE IF j \in displaced THEN "gone" ELSE place[j]]
      /\ \E moment \in 0..clock :
           /\ minted' = [minted EXCEPT ![k] = moment]
           /\ expires' = [j \in Ticket |-> IF j = k THEN moment + TTL
                                           ELSE IF j \in displaced THEN 0 ELSE expires[j]]
      /\ UNCHANGED <<clock, passes>>

\* A ticket that is handed out again gets more time, never less.
Extend(k) ==
  /\ Held(k)
  /\ \E e \in Allowed(k) : e >= expires[k] /\ expires' = [expires EXCEPT ![k] = e]
  /\ UNCHANGED <<clock, place, owner, minted, passes>>

\* Tickets that have lapsed are given up.
Lapsed == {k \in Ticket : Held(k) /\ expires[k] < clock}
Lapse(K) ==
  /\ Leave(K, "gone")
  /\ UNCHANGED <<clock, owner, minted, passes>>

\* A right answer takes the ticket out.
Take(k) ==
  /\ Held(k)
  /\ Leave({k}, "taken")
  /\ UNCHANGED <<clock, owner, minted, passes>>

\* Its pass is recorded ...
Pass(k) ==
  /\ place[k] = "taken"
  /\ Leave({k}, "gone")
  /\ passes' = [passes EXCEPT ![k] = @ + 1]
  /\ UNCHANGED <<clock, owner, minted>>

\* ... or cannot be, and the ticket goes back, if its address has no other ...
GiveBack(k) ==
  /\ place[k] = "taken"
  /\ \A j \in Ticket : Held(j) => owner[j] # owner[k]
  /\ place' = [place EXCEPT ![k] = "held"]
  /\ \E e \in Allowed(k) : expires' = [expires EXCEPT ![k] = e]
  /\ UNCHANGED <<clock, owner, minted, passes>>

\* ... or is lost.
Lose(k) ==
  /\ place[k] = "taken"
  /\ Leave({k}, "gone")
  /\ UNCHANGED <<clock, owner, minted, passes>>

Tick == clock' = clock + 1 /\ UNCHANGED <<place, owner, minted, expires, passes>>

\* Most of what a request does shows on no ticket.
Unseen == UNCHANGED vars

Next ==
  \/ Unseen
  \/ \E k \in Ticket :
       \/ \E a \in IP : Mint(k, a)
       \/ Extend(k) \/ Take(k) \/ Pass(k) \/ GiveBack(k) \/ Lose(k)
  \/ \E K \in SUBSET Lapsed : Lapse(K)
  \/ Tick

Spec == Init /\ [][Next]_vars
==============================================================================
