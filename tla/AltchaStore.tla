------------------------------ MODULE AltchaStore ------------------------------
(***************************************************************************)
(* The challenges in flight: src/altcha.go, with the handlers of           *)
(* src/challenge.go that use it.  The store is shared by one goroutine per *)
(* HTTP request and by the poll loop.  Each action is one critical section *)
(* of the store's mutex, or one step outside it; what a goroutine read     *)
(* under the lock it keeps in local variables, which may be stale when it  *)
(* comes back.                                                             *)
(*                                                                         *)
(* A request is served once.  It either fetches a challenge for its        *)
(* address (altchaChallenge) or submits a solution (solve).  The secret    *)
(* key of a challenge is represented by the request that minted it, and a  *)
(* solution by the key it submits.  Time is a clock of MaxClock ticks.     *)
(***************************************************************************)
EXTENDS Integers, FiniteSets

CONSTANTS
  IP,           \* client addresses
  Request,      \* HTTP requests
  None,         \* neither an address nor a request
  MintTokens,   \* mintConcurrency: derivations allowed at once
  MaxLive,      \* altchaMaxLive
  TTL,          \* altchaChallengeTTL
  MaxLifetime,  \* altchaMaxLifetime
  SweepEvery,   \* altchaSweepEvery
  WritesFail,   \* recording a pass may fail
  MaxClock      \* bound on the clock

ASSUME StoreAssumption ==
  /\ IsFiniteSet(IP) /\ IsFiniteSet(Request)
  /\ None \notin IP \cup Request
  /\ MintTokens \in Nat \ {0} /\ MaxLive \in Nat /\ SweepEvery \in Nat
  /\ TTL \in Nat \ {0} /\ MaxLifetime \in Nat /\ TTL <= MaxLifetime
  /\ WritesFail \in BOOLEAN
  /\ MaxClock \in Nat

Time == 0..MaxClock
Entry == [key : Request, created : Time, expires : 0..(MaxClock + MaxLifetime)]
NoEntry == [key |-> None, created |-> 0, expires |-> 0]

VARIABLES
  clock,
  live,      \* ip -> its outstanding challenge, or NoEntry
  minting,   \* ip -> the request deriving for it, or None
  lastSweep, \* when a refusal last swept the store, or -1
  pc,        \* where each request is
  ip,        \* the address each request comes from
  now,       \* the time each request read
  kept,      \* the entry each request holds a copy of
  answer,    \* the key each solution submits
  published, \* ip -> the challenge last sent to it: key and expiry
  passed     \* key -> how many passes it has bought

store == <<live, minting, lastSweep>>
vars == <<clock, live, minting, lastSweep, pc, ip, now, kept, answer, published,
          passed>>

Outstanding(l) == {a \in IP : l[a] # NoEntry}

\* Mutant of AtCapacity: off by one.
AtCapacityLate(l) == Cardinality(Outstanding(l)) > MaxLive

AtCapacity(l) == Cardinality(Outstanding(l)) >= MaxLive

\* Mutant of Pruned: a dropped entry leaves its times behind.
PrunedKeyOnly(l, t) == [a \in IP |-> IF l[a] # NoEntry /\ t > l[a].expires
                                        THEN [l[a] EXCEPT !.key = None] ELSE l[a]]

\* Mutant of Pruned: an entry is dropped at its expiry, not after it.
PrunedEarly(l, t) == [a \in IP |-> IF l[a] # NoEntry /\ t >= l[a].expires THEN NoEntry
                                   ELSE l[a]]

\* prune: entries whose expiry has passed are dropped, at time t.
Pruned(l, t) == [a \in IP |-> IF l[a] # NoEntry /\ t > l[a].expires THEN NoEntry
                              ELSE l[a]]

\* A challenge that challengeFor still hands back at time t.
Current(e, t) == e # NoEntry /\ t < e.expires

\* Mutant of Publish: the widget is told the longest life, not the present one.
PublishLongest(a, e) ==
  published' = [published EXCEPT ![a] = [key |-> e.key, expires |-> e.created + MaxLifetime]]

\* publish: what the widget is told is the entry's own expiry.
Publish(a, e) == published' = [published EXCEPT ![a] = [key |-> e.key, expires |-> e.expires]]

Init ==
  /\ clock = 0
  /\ live = [a \in IP |-> NoEntry]
  /\ minting = [a \in IP |-> None]
  /\ lastSweep = -1
  /\ pc = [r \in Request |-> "new"]
  /\ ip = [r \in Request |-> None]
  /\ now = [r \in Request |-> 0]
  /\ kept = [r \in Request |-> NoEntry]
  /\ answer = [r \in Request |-> None]
  /\ published = [a \in IP |-> [key |-> None, expires |-> 0]]
  /\ passed = [k \in Request |-> 0]

Goto(r, place) == pc' = [pc EXCEPT ![r] = place]

-------------------------------------------------------------------------------
(* Fetching a challenge: altchaChallenge and challengeFor *)

ArriveToFetch(r, a) ==
  /\ pc[r] = "new"
  /\ Goto(r, "token")
  /\ ip' = [ip EXCEPT ![r] = a]
  /\ UNCHANGED <<clock, store, now, kept, answer, published, passed>>

\* The requests that hold a token: all that are inside challengeFor.
HoldsToken == {r \in Request : pc[r] \in {"fetch", "wait", "derive", "unclaim"}}

\* The client gives up waiting for a token.
GiveUp(r) ==
  /\ pc[r] = "token"
  /\ Goto(r, "done")
  /\ UNCHANGED <<clock, store, ip, now, kept, answer, published, passed>>

TakeToken(r) ==
  /\ pc[r] = "token"
  /\ Cardinality(HoldsToken) < MintTokens
  /\ Goto(r, "fetch")
  /\ now' = [now EXCEPT ![r] = clock]
  /\ UNCHANGED <<clock, store, ip, kept, answer, published, passed>>

\* More time for a challenge that is handed back, up to MaxLifetime from its mint.
Extended(e, t) ==
  IF t + TTL <= e.expires THEN e
  ELSE [e EXCEPT !.expires = IF t + TTL > e.created + MaxLifetime
                               THEN e.created + MaxLifetime ELSE t + TTL]

\* A current challenge is handed back, with more time.
HandBack(r) ==
  LET e == Extended(live[ip[r]], now[r])
  IN  /\ pc[r] = "fetch"
      /\ Current(live[ip[r]], now[r])
      /\ live' = [live EXCEPT ![ip[r]] = e]
      /\ Publish(ip[r], e)
      /\ Goto(r, "done")
      /\ UNCHANGED <<clock, minting, lastSweep, ip, now, kept, answer, passed>>

\* Mutant of Busy: requests for one address derive in parallel.
BusyNever(r) == FALSE

Busy(r) == minting[ip[r]] # None

\* Another request is deriving for this address: wait for it.
WaitForMint(r) ==
  /\ pc[r] = "fetch"
  /\ ~Current(live[ip[r]], now[r])
  /\ Busy(r)
  /\ Goto(r, "wait")
  /\ UNCHANGED <<clock, store, ip, now, kept, answer, published, passed>>

\* Before a refusal the store is swept, but not more than once per SweepEvery.
Sweeps(r) ==
  /\ live[ip[r]] = NoEntry /\ AtCapacity(live)
  /\ lastSweep = -1 \/ now[r] - lastSweep >= SweepEvery

AfterSweep(r) == IF Sweeps(r) THEN Pruned(live, now[r]) ELSE live

\* Neither current nor being derived: refuse at capacity, else claim the mint.
RefuseOrClaim(r) ==
  /\ pc[r] = "fetch"
  /\ ~Current(live[ip[r]], now[r])
  /\ ~Busy(r)
  /\ live' = AfterSweep(r)
  /\ lastSweep' = IF Sweeps(r) THEN now[r] ELSE lastSweep
  /\ IF live'[ip[r]] = NoEntry /\ AtCapacity(live')
       THEN Goto(r, "done") /\ UNCHANGED minting
       ELSE Goto(r, "derive") /\ minting' = [minting EXCEPT ![ip[r]] = r]
  /\ UNCHANGED <<clock, ip, now, kept, answer, published, passed>>

\* The derivation, outside the lock, and then the insertion.
Insert(r) ==
  LET e == [key |-> r, created |-> now[r], expires |-> now[r] + TTL]
  IN  /\ pc[r] = "derive"
      /\ live' = [live EXCEPT ![ip[r]] = e]
      /\ kept' = [kept EXCEPT ![r] = e]
      /\ Publish(ip[r], e)
      /\ Goto(r, "unclaim")
      /\ UNCHANGED <<clock, minting, lastSweep, ip, now, answer, passed>>

\* newAltchaChallenge fails: nothing is inserted.
DeriveFails(r) ==
  /\ pc[r] = "derive"
  /\ Goto(r, "unclaim")
  /\ UNCHANGED <<clock, store, ip, now, kept, answer, published, passed>>

\* Mutant of Woken: the channel is left open when the claim is dropped.
WokenNone(r) == {}

\* The requests that wait for the claim of r: its address has no other.
Woken(r) == {q \in Request : pc[q] = "wait" /\ ip[q] = ip[r]}

\* The deferred end of challengeFor: the claim goes, and its channel is closed.
Unclaim(r) ==
  /\ pc[r] = "unclaim"
  /\ minting' = [minting EXCEPT ![ip[r]] = None]
  /\ pc' = [q \in Request |-> IF q = r THEN "done"
                              ELSE IF q \in Woken(r) THEN "fetch" ELSE pc[q]]
  /\ UNCHANGED <<clock, live, lastSweep, ip, now, kept, answer, published, passed>>

-------------------------------------------------------------------------------
(* Submitting a solution: solve, check, redeem and restore *)

\* The keys of the challenges that were minted for an address.
Issued(a) == {q \in Request : ip[q] = a /\ kept[q].key = q}

\* A client may have solved any challenge its address was sent, and may submit
\* it again; any other answer is wrong, and stands as None.
ArriveToSolve(r, a, k) ==
  /\ pc[r] = "new"
  /\ k \in Issued(a) \cup {None}
  /\ Goto(r, "redeem")
  /\ ip' = [ip EXCEPT ![r] = a]
  /\ answer' = [answer EXCEPT ![r] = k]
  /\ now' = [now EXCEPT ![r] = clock]
  /\ UNCHANGED <<clock, store, kept, published, passed>>

\* redeem reads the entry under the lock and compares the copy outside it.
RedeemRead(r) ==
  LET e == live[ip[r]]
  IN  /\ pc[r] = "redeem"
      /\ IF e # NoEntry /\ now[r] <= e.expires /\ answer[r] = e.key
           THEN Goto(r, "spend") /\ kept' = [kept EXCEPT ![r] = e]
           ELSE Goto(r, "done") /\ UNCHANGED kept
      /\ UNCHANGED <<clock, store, ip, now, answer, published, passed>>

\* Mutant of StillSpendable: the second look at the store is left out.
StillSpendableAssumed(r) == TRUE

\* The entry is the one that was compared.
StillSpendable(r) == live[ip[r]].key = kept[r].key

Spend(r) ==
  /\ pc[r] = "spend"
  /\ IF StillSpendable(r)
       THEN Goto(r, "record") /\ live' = [live EXCEPT ![ip[r]] = NoEntry]
       ELSE Goto(r, "done") /\ UNCHANGED live
  /\ UNCHANGED <<clock, minting, lastSweep, ip, now, kept, answer, published, passed>>

\* passes.add, which PassStore models.
Record(r) ==
  /\ pc[r] = "record"
  /\ \/ /\ Goto(r, "done")
        /\ passed' = [passed EXCEPT ![kept[r].key] = @ + 1]
        /\ UNCHANGED now
     \/ /\ WritesFail
        /\ Goto(r, "restore")
        /\ now' = [now EXCEPT ![r] = clock]
        /\ UNCHANGED passed
  /\ UNCHANGED <<clock, store, ip, kept, answer, published>>

\* restore gives the challenge back, unless it has expired or the address has
\* another.
Restore(r) ==
  /\ pc[r] = "restore"
  /\ Goto(r, "failed")
  /\ live' = IF now[r] < kept[r].expires /\ live[ip[r]] = NoEntry
               THEN [live EXCEPT ![ip[r]] = kept[r]] ELSE live
  /\ UNCHANGED <<clock, minting, lastSweep, ip, now, kept, answer, published, passed>>

-------------------------------------------------------------------------------

\* prunePasses, on the poll tick.
Prune ==
  /\ live' = Pruned(live, clock)
  /\ UNCHANGED <<clock, minting, lastSweep, pc, ip, now, kept, answer, published,
                 passed>>

Tick ==
  /\ clock < MaxClock
  /\ clock' = clock + 1
  /\ UNCHANGED <<store, pc, ip, now, kept, answer, published, passed>>

\* What a request does once it has arrived.
Serve(r) ==
  \/ TakeToken(r) \/ HandBack(r) \/ WaitForMint(r) \/ RefuseOrClaim(r)
  \/ Insert(r) \/ DeriveFails(r) \/ Unclaim(r)
  \/ RedeemRead(r) \/ Spend(r) \/ Record(r) \/ Restore(r)

Next ==
  \/ \E r \in Request :
       \/ \E a \in IP : ArriveToFetch(r, a)
       \/ \E a \in IP, k \in Request \cup {None} : ArriveToSolve(r, a, k)
       \/ GiveUp(r)
       \/ Serve(r)
  \/ Prune
  \/ Tick

Spec == Init /\ [][Next]_vars

\* The Go scheduler runs every goroutine that can run, and a goroutine that waits
\* for a token gets one in its turn.  Clients need not arrive or give up, and the
\* clock and the poll loop are not needed for a request to end.
FairSpec == Spec /\ \A r \in Request : WF_vars(Serve(r))

-------------------------------------------------------------------------------
(* Properties *)

\* Types: every slot is a whole entry or free (the live map of altchaStore).
TypeOK ==
  /\ clock \in Time
  /\ live \in [IP -> Entry \cup {NoEntry}]
  /\ minting \in [IP -> Request \cup {None}]
  /\ lastSweep \in Time \cup {-1}
  /\ pc \in [Request -> {"new", "token", "fetch", "wait", "derive", "unclaim",
                         "redeem", "spend", "record", "restore", "failed",
                         "done"}]
  /\ ip \in [Request -> IP \cup {None}]
  /\ now \in [Request -> Time]
  /\ kept \in [Request -> Entry \cup {NoEntry}]
  /\ answer \in [Request -> Request \cup {None}]
  /\ published \in [IP -> [key : Request \cup {None}, expires : 0..(MaxClock + MaxLifetime)]]
  /\ passed \in [Request -> Nat]

\* No slot is held past MaxLifetime from its mint, by any mix of fetches, solves
\* and restores: a challenge that is re-fetched for ever is still given up.
SlotsAgeOut ==
  \A a \in IP : live[a] # NoEntry => live[a].expires <= live[a].created + MaxLifetime

\* One address buys one derivation at a time, however many requests it sends
\* (the claim in minting), and while it derives the claim is its own.
OneDerivationPerAddress ==
  \A r, q \in Request :
    pc[r] = "derive" /\ pc[q] = "derive" /\ ip[r] = ip[q] => r = q

\* Nobody waits in vain: a claim is that of a request which is deriving for its address
\* or about to drop it, and whoever waits, waits for a claim that is there.  So the mint
\* tokens are never all with requests that wait, and no address is locked by a claim
\* that nobody drops (challengeFor and its deferred end).
NobodyWaitsInVain ==
  /\ \A a \in IP : minting[a] # None =>
       pc[minting[a]] \in {"derive", "unclaim"} /\ ip[minting[a]] = a
  /\ \A r \in Request : pc[r] = "wait" => minting[ip[r]] # None

\* A proof of work is reported as solved once: no interleaving of submissions, restores and
\* fetches spends a challenge twice (redeem's second look under the lock).
SingleUse == \A k \in Request : passed[k] <= 1

\* Every pass so far has been recorded.
NoPassLost == \A r \in Request : pc[r] \notin {"restore", "failed"}

\* The requests whose pass could not be recorded and that have given their
\* challenge back, if they could.
GaveBack == {r \in Request : pc[r] = "failed"}

\* What the cap bounds: the requests that passed the check before any of them
\* inserted hold a token each, and restore, which does not look at the cap, adds
\* one for every pass that was lost (challengeFor, restore).
CapOvershootBounded ==
  Cardinality(Outstanding(live)) < MaxLive + MintTokens + Cardinality(GaveBack)

\* Every request that arrived is answered: waiting for another's derivation while
\* holding a token never leaves everyone waiting.
EveryRequestEnds ==
  \A r \in Request : pc[r] \in {"token", "redeem"} ~> pc[r] \in {"failed", "done"}

\* "the published copy cannot fall out of step with the one enforced"
\* (src/altcha.go:276): the widget's timer ends with the challenge.  It is not so
\* once a pass has been lost: restore puts back the copy that redeem took, whose
\* expiry may be older than the one a fetch published since.
PublishedInStep ==
  \A a \in IP : live[a] # NoEntry /\ published[a].key = live[a].key
                => published[a].expires = live[a].expires

\* The widget's timer ends with the challenge as long as passes are recorded, over
\* every fetch that mints, extends or replaces (publish).
InStepWhileRecorded == NoPassLost => PublishedInStep

\* A challenge that can still be solved ends in two ways only: a request that took a copy
\* of it spends it, or the one request with the claim of its address inserts another, which
\* it claimed when it found this one expired.  Never by the spend of a challenge it has
\* replaced, by a pass that was lost, a sweep or a prune (redeem, challengeFor, restore).
EndsRightly ==
  [][\A a \in IP : Current(live[a], clock) =>
       \/ live'[a].key = live[a].key
       \/ \E r \in Request : Spend(r) /\ ip[r] = a /\ kept[r].key = live[a].key
       \/ \E r \in Request : Insert(r) /\ minting[a] = r]_vars

\* Where a challenge is, and what is known of it.
Minted(k) == kept[k].key = k
Place ==
  [k \in Request |->
     IF ~Minted(k) THEN "unminted"
     ELSE IF live[ip[k]].key = k THEN "held"
     ELSE IF \E r \in Request : pc[r] \in {"record", "restore"} /\ kept[r].key = k THEN "taken"
     ELSE "gone"]
Owner == [k \in Request |-> IF Minted(k) THEN ip[k] ELSE None]
MintedAt == [k \in Request |-> IF Minted(k) THEN kept[k].created ELSE 0]
Expiry == [k \in Request |-> IF Minted(k) /\ live[ip[k]].key = k
                                THEN live[ip[k]].expires ELSE 0]

\* The store implements its abstract specification: critical sections, claims and
\* stale copies amount to tickets that are minted once, are in one place, lapse no
\* earlier and last no longer than they may, and buy one pass
\* (challengeFor, redeem, restore, prune).
Book == INSTANCE Tickets WITH
  Ticket <- Request, NoOne <- None, passes <- passed,
  place <- Place, owner <- Owner, minted <- MintedAt, expires <- Expiry

TicketSpec == Book!Spec
==============================================================================
