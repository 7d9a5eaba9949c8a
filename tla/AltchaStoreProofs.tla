--------------------------- MODULE AltchaStoreProofs ---------------------------
(***************************************************************************)
(* Proofs about AltchaStore for any number of addresses, requests, tokens  *)
(* and slots.  A challenge is somewhere between its mint and its pass: in  *)
(* the store, or with the one request that took it out to record a pass.   *)
(* The inductive invariant says that it is never in two of these places.   *)
(***************************************************************************)
EXTENDS AltchaStore, FiniteSetTheorems, TLAPS

\* A request that has not got an entry, and one that holds an entry it redeems.
Empty == {"new", "token", "fetch", "wait", "derive", "redeem"}
Redeeming == {"spend", "record", "restore"}
Taken == {"record", "restore"}

\* A request that derives owns the claim of its address.
ClaimsHeld == \A r \in Request : pc[r] \in {"derive", "unclaim"} => minting[ip[r]] = r

Placed == \A r \in Request : pc[r] # "new" => ip[r] \in IP

EmptyHanded == \A r \in Request : pc[r] \in Empty => kept[r] = NoEntry

\* What is in the store, or in the hands of a request, was minted for its address.
LiveIsIssued == \A a \in IP : live[a] # NoEntry => live[a].key \in Issued(a)
KeptIsIssued == \A r \in Request : pc[r] \in Redeeming => kept[r].key \in Issued(ip[r])

\* An entry that is taken out, and may come back, is within its lifetime too.
KeptAgesOut ==
  \A r \in Request : pc[r] \in Redeeming => kept[r].expires <= kept[r].created + MaxLifetime

\* A challenge that was not minted, is in the store, or is taken has bought nothing.
UnmintedUnspent == \A k \in Request : kept[k].key # k => passed[k] = 0
LiveUnspent == \A a \in IP : live[a] # NoEntry => passed[live[a].key] = 0
TakenUnspent == \A r \in Request : pc[r] \in Taken => passed[kept[r].key] = 0

\* A challenge that is taken is not in the store and not taken twice.
TakenIsOut ==
  \A r \in Request : pc[r] \in Taken => \A a \in IP : live[a].key # kept[r].key
TakenOnce ==
  \A r, q \in Request :
    pc[r] \in Taken /\ pc[q] \in Taken /\ kept[r].key = kept[q].key => r = q

IInv ==
  /\ TypeOK /\ ClaimsHeld /\ Placed /\ EmptyHanded
  /\ LiveIsIssued /\ KeptIsIssued
  /\ UnmintedUnspent /\ LiveUnspent /\ TakenUnspent
  /\ TakenIsOut /\ TakenOnce
  /\ SingleUse /\ SlotsAgeOut /\ KeptAgesOut

\* No address has no challenge: NoEntry is not an entry.
LEMMA NoEntryIsNone == NoEntry \notin Entry /\ NoEntry.key = None
BY StoreAssumption DEF NoEntry, Entry

\* The initial states satisfy the invariant.
LEMMA InitIInv == Init => IInv
<1> SUFFICES ASSUME Init PROVE IInv
  OBVIOUS
<1>1. TypeOK
  BY StoreAssumption, SMTT(30) DEF Init, TypeOK, Time, NoEntry
<1> QED
  BY <1>1, StoreAssumption
     DEF Init, IInv, ClaimsHeld, Placed, EmptyHanded, LiveIsIssued, KeptIsIssued,
         UnmintedUnspent, LiveUnspent, TakenUnspent, TakenIsOut, TakenOnce, Redeeming,
         Taken, SingleUse, SlotsAgeOut, KeptAgesOut, NoEntry

\* More time keeps an entry an entry, with the key and the mint it had, and within
\* MaxLifetime of the mint.
LEMMA ExtendedSound ==
  ASSUME NEW e \in Entry, NEW t \in Time, e.expires <= e.created + MaxLifetime
  PROVE  /\ Extended(e, t) \in Entry
         /\ Extended(e, t).key = e.key
         /\ Extended(e, t).created = e.created
         /\ Extended(e, t).expires <= e.created + MaxLifetime
BY StoreAssumption DEF Extended, Entry, Time

\* Pruning only empties slots.
LEMMA PrunedSound ==
  ASSUME NEW l \in [IP -> Entry \cup {NoEntry}], NEW t \in Time
  PROVE  /\ Pruned(l, t) \in [IP -> Entry \cup {NoEntry}]
         /\ \A a \in IP : Pruned(l, t)[a] \in {l[a], NoEntry}
BY DEF Pruned

\* Every step keeps the types; a request needs an address and an entry within its
\* lifetime to do so.
LEMMA TypeStep == TypeOK /\ SlotsAgeOut /\ Placed /\ KeptIsIssued /\ [Next]_vars => TypeOK'
<1> SUFFICES ASSUME TypeOK, SlotsAgeOut, Placed, KeptIsIssued, [Next]_vars PROVE TypeOK'
  OBVIOUS
<1> USE StoreAssumption DEF TypeOK, store, Goto
<1>1. ASSUME NEW r \in Request, NEW a \in IP, ArriveToFetch(r, a) PROVE TypeOK'
  BY <1>1 DEF ArriveToFetch
<1>2. ASSUME NEW r \in Request, NEW a \in IP, NEW k \in Request \cup {None},
             ArriveToSolve(r, a, k) PROVE TypeOK'
  BY <1>2 DEF ArriveToSolve
<1>3. ASSUME NEW r \in Request, GiveUp(r) PROVE TypeOK'
  BY <1>3 DEF GiveUp
<1>4. ASSUME NEW r \in Request, TakeToken(r) PROVE TypeOK'
  BY <1>4 DEF TakeToken
<1>5. ASSUME NEW r \in Request, HandBack(r) PROVE TypeOK'
  <2>1. ip[r] \in IP /\ live[ip[r]] \in Entry
    BY <1>5 DEF HandBack, Current, Placed
  <2>2. Extended(live[ip[r]], now[r]) \in Entry
    BY <2>1, NoEntryIsNone, ExtendedSound DEF SlotsAgeOut
  <2>3. /\ live' = [live EXCEPT ![ip[r]] = Extended(live[ip[r]], now[r])]
        /\ Publish(ip[r], Extended(live[ip[r]], now[r]))
    BY <1>5 DEF HandBack
  <2> QED
    BY <1>5, <2>1, <2>2, <2>3 DEF HandBack, Publish, Entry
<1>6. ASSUME NEW r \in Request, WaitForMint(r) PROVE TypeOK'
  BY <1>6 DEF WaitForMint
<1>7. ASSUME NEW r \in Request, RefuseOrClaim(r) PROVE TypeOK'
  <2>1. ip[r] \in IP
    BY <1>7 DEF RefuseOrClaim, Placed
  <2>2. live' \in [IP -> Entry \cup {NoEntry}]
    BY <1>7, PrunedSound DEF RefuseOrClaim, AfterSweep
  <2>3. minting' \in [IP -> Request \cup {None}]
    BY <1>7, <2>1 DEF RefuseOrClaim
  <2>4. lastSweep' \in Time \cup {-1}
    BY <1>7 DEF RefuseOrClaim
  <2>5. \E place \in {"done", "derive"} : pc' = [pc EXCEPT ![r] = place]
    BY <1>7 DEF RefuseOrClaim
  <2> QED
    BY <1>7, <2>2, <2>3, <2>4, <2>5 DEF RefuseOrClaim
<1>8. ASSUME NEW r \in Request, Insert(r) PROVE TypeOK'
  <2>1. [key |-> r, created |-> now[r], expires |-> now[r] + TTL] \in Entry
    BY DEF Entry, Time
  <2> QED
    BY <1>8, <2>1 DEF Insert, Publish, Entry
<1>9. ASSUME NEW r \in Request, DeriveFails(r) PROVE TypeOK'
  BY <1>9 DEF DeriveFails
<1>10. ASSUME NEW r \in Request, Unclaim(r) PROVE TypeOK'
  BY <1>10 DEF Unclaim
<1>11. ASSUME NEW r \in Request, RedeemRead(r) PROVE TypeOK'
  <2>1. ip[r] \in IP
    BY <1>11 DEF RedeemRead, Placed
  <2> QED
    BY <1>11, <2>1 DEF RedeemRead
<1>12. ASSUME NEW r \in Request, Spend(r) PROVE TypeOK'
  BY <1>12 DEF Spend
<1>13. ASSUME NEW r \in Request, Record(r) PROVE TypeOK'
  BY <1>13 DEF Record
<1>14. ASSUME NEW r \in Request, Restore(r) PROVE TypeOK'
  BY <1>14 DEF Restore
<1>15. CASE Prune
  BY <1>15, PrunedSound DEF Prune
<1>16. CASE Tick
  BY <1>16 DEF Tick, Time
<1>17. CASE UNCHANGED vars
  BY <1>17 DEF vars
<1> QED
  BY <1>1, <1>2, <1>3, <1>4, <1>5, <1>6, <1>7, <1>8, <1>9, <1>10, <1>11, <1>12,
     <1>13, <1>14, <1>15, <1>16, <1>17 DEF Next, Serve

\* Every step keeps the places of a challenge apart.
LEMMA StepIInv == IInv /\ [Next]_vars => IInv'
<1> SUFFICES ASSUME IInv, [Next]_vars PROVE IInv'
  OBVIOUS
<1>0. TypeOK /\ TypeOK'
  BY TypeStep DEF IInv
<1> USE <1>0, StoreAssumption, NoEntryIsNone
    DEF IInv, ClaimsHeld, Placed, EmptyHanded, LiveIsIssued, KeptIsIssued,
        UnmintedUnspent, LiveUnspent, TakenUnspent, TakenIsOut, TakenOnce, Issued,
        Empty, Redeeming, Taken, SingleUse, SlotsAgeOut, KeptAgesOut, store, Goto
<1>1. ASSUME NEW r \in Request, NEW a \in IP, ArriveToFetch(r, a) PROVE IInv'
  BY <1>1 DEF ArriveToFetch, TypeOK
<1>2. ASSUME NEW r \in Request, NEW a \in IP, NEW k \in Request \cup {None},
             ArriveToSolve(r, a, k) PROVE IInv'
  BY <1>2 DEF ArriveToSolve, TypeOK
<1>3. ASSUME NEW r \in Request, GiveUp(r) PROVE IInv'
  BY <1>3 DEF GiveUp, TypeOK
<1>4. ASSUME NEW r \in Request, TakeToken(r) PROVE IInv'
  BY <1>4 DEF TakeToken, TypeOK
<1>5. ASSUME NEW r \in Request, HandBack(r) PROVE IInv'
  <2> DEFINE e == Extended(live[ip[r]], now[r])
  <2>1. ip[r] \in IP /\ live[ip[r]] # NoEntry /\ live[ip[r]] \in Entry
    BY <1>5 DEF HandBack, Current, TypeOK
  <2>2. /\ e \in Entry /\ e.key = live[ip[r]].key /\ e.created = live[ip[r]].created
        /\ e.expires <= e.created + MaxLifetime
    BY <2>1, ExtendedSound DEF TypeOK
  <2>3. live' = [live EXCEPT ![ip[r]] = e]
    BY <1>5 DEF HandBack
  <2>4. \A a \in IP : live'[a].key = live[a].key /\ (live'[a] # NoEntry => live[a] # NoEntry)
    BY <2>1, <2>2, <2>3 DEF TypeOK
  <2>5. SlotsAgeOut'
    BY <2>1, <2>2, <2>3 DEF TypeOK
  <2> HIDE DEF e
  <2> QED
    BY <1>5, <2>4, <2>5 DEF HandBack, TypeOK
<1>6. ASSUME NEW r \in Request, WaitForMint(r) PROVE IInv'
  BY <1>6 DEF WaitForMint, TypeOK
<1>7. ASSUME NEW r \in Request, RefuseOrClaim(r) PROVE IInv'
  <2>1. ip[r] \in IP /\ minting[ip[r]] = None
    BY <1>7 DEF RefuseOrClaim, Busy
  <2>2. \A a \in IP : live'[a] \in {live[a], NoEntry}
    BY <1>7, PrunedSound DEF RefuseOrClaim, AfterSweep, TypeOK
  <2>3. \/ minting' = minting /\ pc' = [pc EXCEPT ![r] = "done"]
        \/ minting' = [minting EXCEPT ![ip[r]] = r] /\ pc' = [pc EXCEPT ![r] = "derive"]
    BY <1>7 DEF RefuseOrClaim
  <2>4. ClaimsHeld'
    BY <1>7, <2>1, <2>3 DEF RefuseOrClaim, TypeOK
  <2>5. LiveIsIssued' /\ LiveUnspent' /\ TakenIsOut' /\ SlotsAgeOut'
    BY <1>7, <2>2, <2>3 DEF RefuseOrClaim, TypeOK
  <2>6. UNCHANGED <<ip, now, kept, passed>>
    BY <1>7 DEF RefuseOrClaim
  <2>7. EmptyHanded' /\ Placed' /\ KeptIsIssued' /\ KeptAgesOut'
    BY <1>7, <2>3, <2>6 DEF RefuseOrClaim, TypeOK
  <2>8. \A q \in Request : pc'[q] \in Taken => pc[q] \in Taken
    BY <1>7, <2>3 DEF RefuseOrClaim, TypeOK
  <2>9. UnmintedUnspent' /\ SingleUse'
    BY <2>6
  <2>10. TakenUnspent' /\ TakenOnce'
    BY <2>6, <2>8
  <2> QED
    BY <1>0, <2>4, <2>5, <2>7, <2>9, <2>10 DEF IInv
<1>8. ASSUME NEW r \in Request, Insert(r) PROVE IInv'
  <2> DEFINE e == [key |-> r, created |-> now[r], expires |-> now[r] + TTL]
  <2>1. /\ ip[r] \in IP /\ kept[r] = NoEntry /\ pc[r] = "derive"
        /\ live' = [live EXCEPT ![ip[r]] = e] /\ kept' = [kept EXCEPT ![r] = e]
        /\ pc' = [pc EXCEPT ![r] = "unclaim"]
        /\ UNCHANGED <<minting, ip, now, passed>>
    BY <1>8 DEF Insert
  <2>2. e # NoEntry /\ e.key = r /\ e.expires <= e.created + MaxLifetime
    BY DEF NoEntry, TypeOK, Time
  <2>3. \A a \in IP : live[a] # NoEntry => live[a].key # r
    BY <2>1
  <2>4. \A q \in Request : pc[q] \in Redeeming => kept[q].key # r
    BY <2>1
  <2> HIDE DEF e
  <2>5. LiveIsIssued' /\ KeptIsIssued'
    BY <2>1, <2>2, <2>3, <2>4 DEF TypeOK
  <2>6. UnmintedUnspent' /\ LiveUnspent' /\ TakenUnspent'
    BY <2>1, <2>2, <2>3, <2>4 DEF TypeOK
  <2>7. TakenIsOut' /\ TakenOnce'
    BY <2>1, <2>2, <2>3, <2>4 DEF TypeOK
  <2> QED
    BY <2>1, <2>2, <2>5, <2>6, <2>7 DEF TypeOK
<1>9. ASSUME NEW r \in Request, DeriveFails(r) PROVE IInv'
  BY <1>9 DEF DeriveFails, TypeOK
<1>10. ASSUME NEW r \in Request, Unclaim(r) PROVE IInv'
  <2>1. \A q \in Request : pc'[q] = pc[q] \/ pc'[q] = "done" \/ (pc[q] = "wait" /\ pc'[q] = "fetch")
    BY <1>10 DEF Unclaim, Woken, TypeOK
  <2>2. ClaimsHeld'
    BY <1>10, <2>1 DEF Unclaim, TypeOK
  <2> QED
    BY <1>10, <2>1, <2>2 DEF Unclaim, TypeOK
<1>11. ASSUME NEW r \in Request, RedeemRead(r) PROVE IInv'
  <2>1. ip[r] \in IP /\ pc[r] = "redeem" /\ kept[r] = NoEntry
    BY <1>11 DEF RedeemRead
  <2>2. \A k \in Request : kept[k].key = k => k # r
    BY <2>1
  <2>3. CASE kept' = [kept EXCEPT ![r] = live[ip[r]]] /\ live[ip[r]] # NoEntry
             /\ pc' = [pc EXCEPT ![r] = "spend"]
    <3>1. live[ip[r]].key \in Issued(ip[r]) /\ live[ip[r]].key # r
      BY <2>1, <2>2, <2>3
    <3> QED
      BY <1>11, <2>1, <2>2, <2>3, <3>1 DEF RedeemRead, TypeOK
  <2>4. CASE kept' = kept /\ pc' = [pc EXCEPT ![r] = "done"]
    BY <1>11, <2>1, <2>4 DEF RedeemRead, TypeOK
  <2> QED
    BY <1>11, <2>3, <2>4 DEF RedeemRead
<1>12. ASSUME NEW r \in Request, Spend(r) PROVE IInv'
  <2>1. ip[r] \in IP /\ pc[r] = "spend" /\ kept[r].key \in Issued(ip[r])
    BY <1>12 DEF Spend
  <2>2. CASE StillSpendable(r) /\ live' = [live EXCEPT ![ip[r]] = NoEntry]
             /\ pc' = [pc EXCEPT ![r] = "record"]
    <3>1. live[ip[r]].key = kept[r].key /\ live[ip[r]] # NoEntry
      BY <2>1, <2>2 DEF StillSpendable
    <3>2. \A a \in IP : live'[a].key # kept[r].key
      BY <2>1, <2>2, <3>1 DEF TypeOK
    <3>3. passed[kept[r].key] = 0 /\ \A q \in Request : pc[q] \in Taken => kept[q].key # kept[r].key
      BY <2>1, <3>1
    <3> QED
      BY <1>12, <2>1, <2>2, <3>2, <3>3 DEF Spend, TypeOK
  <2>3. CASE live' = live /\ pc' = [pc EXCEPT ![r] = "done"]
    BY <1>12, <2>3 DEF Spend, TypeOK
  <2> QED
    BY <1>12, <2>2, <2>3 DEF Spend
<1>13. ASSUME NEW r \in Request, Record(r) PROVE IInv'
  <2>1. pc[r] = "record" /\ kept[r].key \in Issued(ip[r]) /\ passed[kept[r].key] = 0
    BY <1>13 DEF Record
  <2>2. CASE passed' = [passed EXCEPT ![kept[r].key] = @ + 1] /\ pc' = [pc EXCEPT ![r] = "done"]
    <3>1. \A k \in Request : passed'[k] = IF k = kept[r].key THEN 1 ELSE passed[k]
      BY <2>1, <2>2 DEF TypeOK
    <3>2. \A q \in Request : pc'[q] \in Taken => kept[q].key # kept[r].key
      BY <2>1, <2>2 DEF TypeOK
    <3>3. \A a \in IP : live[a].key # kept[r].key
      BY <2>1
    <3> QED
      BY <1>13, <2>1, <2>2, <3>1, <3>2, <3>3 DEF Record, TypeOK
  <2>3. CASE passed' = passed /\ pc' = [pc EXCEPT ![r] = "restore"]
    BY <1>13, <2>1, <2>3 DEF Record, TypeOK
  <2> QED
    BY <1>13, <2>2, <2>3 DEF Record
<1>14. ASSUME NEW r \in Request, Restore(r) PROVE IInv'
  <2>1. ip[r] \in IP /\ pc[r] = "restore" /\ kept[r].key \in Issued(ip[r]) /\ pc' = [pc EXCEPT ![r] = "failed"]
    BY <1>14 DEF Restore
  <2>2. CASE live' = [live EXCEPT ![ip[r]] = kept[r]]
    <3>1. \A a \in IP : live'[a] = IF a = ip[r] THEN kept[r] ELSE live[a]
      BY <2>1, <2>2 DEF TypeOK
    <3>2. LiveIsIssued' /\ LiveUnspent' /\ SlotsAgeOut'
      BY <1>14, <2>1, <3>1 DEF Restore, TypeOK
    <3>3. TakenIsOut' /\ TakenOnce'
      BY <1>14, <2>1, <3>1 DEF Restore, TypeOK
    <3> QED
      BY <1>14, <2>1, <3>2, <3>3 DEF Restore, TypeOK
  <2>3. CASE live' = live
    BY <1>14, <2>1, <2>3 DEF Restore, TypeOK
  <2> QED
    BY <1>14, <2>2, <2>3 DEF Restore
<1>15. CASE Prune
  <2>1. \A a \in IP : live'[a] \in {live[a], NoEntry}
    BY <1>15, PrunedSound DEF Prune, TypeOK
  <2> QED
    BY <1>15, <2>1 DEF Prune
<1>16. CASE Tick
  BY <1>16 DEF Tick
<1>17. CASE UNCHANGED vars
  BY <1>17 DEF vars
<1> QED
  BY <1>1, <1>2, <1>3, <1>4, <1>5, <1>6, <1>7, <1>8, <1>9, <1>10, <1>11, <1>12,
     <1>13, <1>14, <1>15, <1>16, <1>17 DEF Next, Serve

\* The inductive invariant holds throughout.
THEOREM StoreInvariance == Spec => []IInv
BY InitIInv, StepIInv, PTL DEF Spec

\* Types, for every instance.
THEOREM StoreTypes == Spec => []TypeOK
<1>1. IInv => TypeOK
  BY DEF IInv
<1> QED
  BY <1>1, StoreInvariance, PTL

\* A challenge is reported solved once, whatever the requests do in whatever order.
THEOREM SolvedOnce == Spec => []SingleUse
<1>1. IInv => SingleUse
  BY DEF IInv
<1> QED
  BY <1>1, StoreInvariance, PTL

\* One address derives one challenge at a time.
THEOREM SingleFlight == Spec => []OneDerivationPerAddress
<1>1. IInv => OneDerivationPerAddress
  BY StoreAssumption DEF IInv, ClaimsHeld, OneDerivationPerAddress
<1> QED
  BY <1>1, StoreInvariance, PTL

\* Every step leaves a claim with a request that works on it, and a waiting request with
\* a claim to wait for.
LEMMA WaitStep == IInv /\ NobodyWaitsInVain /\ [Next]_vars => NobodyWaitsInVain'
<1> SUFFICES ASSUME IInv, NobodyWaitsInVain, [Next]_vars PROVE NobodyWaitsInVain'
  OBVIOUS
<1>0. TypeOK /\ Placed /\ ClaimsHeld
  BY DEF IInv
<1> USE <1>0, StoreAssumption DEF NobodyWaitsInVain, Placed, ClaimsHeld, Goto, store
<1>1. ASSUME NEW r \in Request,
             \/ \E a \in IP : ArriveToFetch(r, a)
             \/ \E a \in IP, k \in Request \cup {None} : ArriveToSolve(r, a, k)
             \/ GiveUp(r) \/ TakeToken(r) \/ HandBack(r)
      PROVE  NobodyWaitsInVain'
  BY <1>1 DEF ArriveToFetch, ArriveToSolve, GiveUp, TakeToken, HandBack, TypeOK
<1>2. ASSUME NEW r \in Request, WaitForMint(r) PROVE NobodyWaitsInVain'
  BY <1>2 DEF WaitForMint, Busy, TypeOK
<1>3. ASSUME NEW r \in Request, RefuseOrClaim(r) PROVE NobodyWaitsInVain'
  <2>1. /\ ip[r] \in IP /\ pc[r] = "fetch" /\ minting[ip[r]] = None /\ UNCHANGED ip
        /\ \/ minting' = minting /\ pc' = [pc EXCEPT ![r] = "done"]
           \/ minting' = [minting EXCEPT ![ip[r]] = r] /\ pc' = [pc EXCEPT ![r] = "derive"]
    BY <1>3 DEF RefuseOrClaim, Busy
  <2> QED
    BY <2>1 DEF TypeOK
<1>4. ASSUME NEW r \in Request, Insert(r) \/ DeriveFails(r) PROVE NobodyWaitsInVain'
  BY <1>4 DEF Insert, DeriveFails, TypeOK
<1>5. ASSUME NEW r \in Request, Unclaim(r) PROVE NobodyWaitsInVain'
  <2>1. /\ ip[r] \in IP /\ minting[ip[r]] = r /\ UNCHANGED ip
        /\ \A a \in IP : minting'[a] = IF a = ip[r] THEN None ELSE minting[a]
        /\ pc'[r] = "done"
        /\ \A q \in Request \ {r} :
             pc'[q] = IF pc[q] = "wait" /\ ip[q] = ip[r] THEN "fetch" ELSE pc[q]
    BY <1>5 DEF Unclaim, Woken, TypeOK
  <2>2. \A q \in Request : pc'[q] = "wait" => pc[q] = "wait" /\ ip[q] # ip[r] /\ ip[q] \in IP
    BY <2>1
  <2>3. \A a \in IP : minting'[a] # None =>
          /\ a # ip[r] /\ minting'[a] = minting[a] /\ minting[a] \in Request
          /\ minting[a] # r /\ pc'[minting[a]] = pc[minting[a]]
    BY <2>1 DEF TypeOK
  <2> QED
    BY <2>1, <2>2, <2>3
<1>6. ASSUME NEW r \in Request, RedeemRead(r) \/ Spend(r) \/ Record(r) \/ Restore(r)
      PROVE  NobodyWaitsInVain'
  BY <1>6 DEF RedeemRead, Spend, Record, Restore, TypeOK
<1>7. Prune \/ Tick \/ UNCHANGED vars => NobodyWaitsInVain'
  BY DEF Prune, Tick, vars
<1> QED
  BY <1>1, <1>2, <1>3, <1>4, <1>5, <1>6, <1>7 DEF Next, Serve

\* Nobody waits in vain, however many requests, tokens and addresses there are: the part
\* of EveryRequestEnds that is about states, and the one a deadlock would break.
THEOREM NoVainWaiting == Spec => []NobodyWaitsInVain
<1>1. Init => NobodyWaitsInVain
  BY StoreAssumption DEF Init, NobodyWaitsInVain
<1> QED
  BY <1>1, WaitStep, StoreInvariance, PTL DEF Spec

\* Where requests are under way inside challengeFor, one of them is not waiting.
THEOREM SomebodyMoves == Spec => [](HoldsToken # {} => \E r \in HoldsToken : pc[r] # "wait")
<1>1. IInv /\ NobodyWaitsInVain => (HoldsToken # {} => \E r \in HoldsToken : pc[r] # "wait")
  <2> SUFFICES ASSUME IInv, NobodyWaitsInVain, NEW r \in HoldsToken, pc[r] = "wait"
               PROVE  \E q \in HoldsToken : pc[q] # "wait"
    OBVIOUS
  <2>1. r \in Request /\ ip[r] \in IP /\ minting[ip[r]] # None
    BY DEF HoldsToken, NobodyWaitsInVain, IInv, Placed
  <2>2. minting[ip[r]] \in Request /\ pc[minting[ip[r]]] \in {"derive", "unclaim"}
    BY <2>1 DEF NobodyWaitsInVain, IInv, TypeOK
  <2> QED
    BY <2>2 DEF HoldsToken
<1> QED
  BY <1>1, StoreInvariance, NoVainWaiting, PTL

\* A slot is given up MaxLifetime after its mint, however often it is fetched.
THEOREM LifetimeCapped == Spec => []SlotsAgeOut
<1>1. IInv => SlotsAgeOut
  BY DEF IInv
<1> QED
  BY <1>1, StoreInvariance, PTL

-------------------------------------------------------------------------------
(* What holds as long as every pass is recorded *)

\* A pass that could not be recorded stays lost: its request has failed.
LEMMA LostForGood ==
  ASSUME TypeOK, Next, NoPassLost'
  PROVE  NoPassLost /\ \A r \in Request : ~Restore(r)
<1>1. ASSUME NEW r \in Request, Restore(r) PROVE FALSE
  BY <1>1 DEF Restore, Goto, NoPassLost, TypeOK
<1>2. ASSUME NEW q \in Request, pc[q] \in {"restore", "failed"} PROVE FALSE
  <2>1. pc'[q] \notin {"restore", "failed"}
    BY DEF NoPassLost
  <2>2. ASSUME NEW r \in Request,
               \/ \E a \in IP : ArriveToFetch(r, a)
               \/ \E a \in IP, k \in Request \cup {None} : ArriveToSolve(r, a, k)
               \/ GiveUp(r) \/ Serve(r)
        PROVE  pc'[q] = pc[q]
    <3>1. CASE \/ \E a \in IP : ArriveToFetch(r, a)
               \/ \E a \in IP, k \in Request \cup {None} : ArriveToSolve(r, a, k)
               \/ GiveUp(r) \/ TakeToken(r) \/ HandBack(r) \/ WaitForMint(r)
      BY <1>2, <3>1 DEF ArriveToFetch, ArriveToSolve, GiveUp, TakeToken, HandBack,
                        WaitForMint, Goto, TypeOK
    <3>2. CASE RefuseOrClaim(r) \/ Insert(r) \/ DeriveFails(r)
      BY <1>2, <3>2 DEF RefuseOrClaim, Insert, DeriveFails, Goto, TypeOK
    <3>3. CASE Unclaim(r)
      BY <1>2, <3>3 DEF Unclaim, Woken, TypeOK
    <3>4. CASE RedeemRead(r) \/ Spend(r) \/ Record(r)
      BY <1>2, <3>4 DEF RedeemRead, Spend, Record, Goto, TypeOK
    <3> QED  BY <1>1, <2>2, <3>1, <3>2, <3>3, <3>4 DEF Serve
  <2>3. Prune \/ Tick => pc'[q] = pc[q]
    BY DEF Prune, Tick
  <2> QED  BY <1>2, <2>1, <2>2, <2>3 DEF Next
<1> QED  BY <1>1, <1>2 DEF NoPassLost

\* A step that publishes only what it puts in a slot, and otherwise only empties
\* slots, keeps the widgets in step.
LEMMA EmptyingKeepsInStep ==
  ASSUME TypeOK, PublishedInStep, UNCHANGED published,
         \A a \in IP : live'[a] \in {live[a], NoEntry}
  PROVE  PublishedInStep'
  BY DEF PublishedInStep

\* And so does one that puts an entry in a slot and publishes it.
LEMMA PublishingKeepsInStep ==
  ASSUME TypeOK, PublishedInStep, NEW a \in IP, NEW e \in Entry,
         live' = [live EXCEPT ![a] = e], Publish(a, e)
  PROVE  PublishedInStep'
  BY DEF PublishedInStep, Publish, TypeOK

\* Every step keeps the widgets in step, while no pass is lost.
LEMMA InStepStep == IInv /\ InStepWhileRecorded /\ [Next]_vars => InStepWhileRecorded'
<1> SUFFICES ASSUME IInv, InStepWhileRecorded, [Next]_vars, NoPassLost'
             PROVE  PublishedInStep'
  BY DEF InStepWhileRecorded
<1>0. TypeOK /\ Placed /\ SlotsAgeOut
  BY DEF IInv
<1>1. CASE UNCHANGED vars
  BY <1>1 DEF vars, InStepWhileRecorded, NoPassLost, PublishedInStep
<1>2. CASE Next
  <2>1. PublishedInStep /\ \A r \in Request : ~Restore(r)
    BY <1>0, <1>2, LostForGood DEF InStepWhileRecorded
  <2>2. ASSUME NEW r \in Request, HandBack(r) PROVE PublishedInStep'
    <3>1. ip[r] \in IP /\ live[ip[r]] \in Entry /\ now[r] \in Time
      BY <1>0, <2>2 DEF HandBack, Current, Placed, TypeOK
    <3>2. Extended(live[ip[r]], now[r]) \in Entry
      BY <1>0, <3>1, ExtendedSound, NoEntryIsNone DEF SlotsAgeOut
    <3> QED  BY <1>0, <2>1, <2>2, <3>1, <3>2, PublishingKeepsInStep DEF HandBack
  <2>3. ASSUME NEW r \in Request, Insert(r) PROVE PublishedInStep'
    <3>1. ip[r] \in IP
      BY <1>0, <2>3 DEF Insert, Placed
    <3>2. [key |-> r, created |-> now[r], expires |-> now[r] + TTL] \in Entry
      BY <1>0, StoreAssumption DEF Entry, Time, TypeOK
    <3> QED  BY <1>0, <2>1, <2>3, <3>1, <3>2, PublishingKeepsInStep DEF Insert
  <2>4. ASSUME NEW r \in Request, RefuseOrClaim(r) PROVE PublishedInStep'
    <3>1. \A a \in IP : live'[a] \in {live[a], NoEntry}
      BY <1>0, <2>4, PrunedSound DEF RefuseOrClaim, AfterSweep, TypeOK
    <3> QED  BY <1>0, <2>1, <2>4, <3>1, EmptyingKeepsInStep DEF RefuseOrClaim
  <2>5. ASSUME NEW r \in Request, Spend(r) PROVE PublishedInStep'
    <3>1. \A a \in IP : live'[a] \in {live[a], NoEntry}
      BY <1>0, <2>5 DEF Spend, TypeOK
    <3> QED  BY <1>0, <2>1, <2>5, <3>1, EmptyingKeepsInStep DEF Spend
  <2>6. CASE Prune
    <3>1. \A a \in IP : live'[a] \in {live[a], NoEntry}
      BY <1>0, <2>6, PrunedSound DEF Prune, TypeOK
    <3> QED  BY <1>0, <2>1, <2>6, <3>1, EmptyingKeepsInStep DEF Prune
  <2>7. UNCHANGED <<live, published>> => PublishedInStep'
    BY <2>1 DEF PublishedInStep
  <2>8. ASSUME NEW r \in Request,
               \/ \E a \in IP : ArriveToFetch(r, a)
               \/ \E a \in IP, k \in Request \cup {None} : ArriveToSolve(r, a, k)
               \/ GiveUp(r) \/ TakeToken(r) \/ WaitForMint(r) \/ DeriveFails(r)
               \/ Unclaim(r) \/ RedeemRead(r) \/ Record(r)
        PROVE  UNCHANGED <<live, published>>
    BY <2>8 DEF ArriveToFetch, ArriveToSolve, GiveUp, TakeToken, WaitForMint, DeriveFails,
                Unclaim, RedeemRead, Record, store
  <2>9. Tick => UNCHANGED <<live, published>>
    BY DEF Tick, store
  <2> QED
    BY <1>2, <2>1, <2>2, <2>3, <2>4, <2>5, <2>6, <2>7, <2>8, <2>9 DEF Next, Serve
<1> QED  BY <1>1, <1>2

\* What a widget was told last is the expiry that is enforced, over every fetch
\* that mints, extends or replaces, as long as passes are recorded (publish).
THEOREM WidgetsInStep == Spec => []InStepWhileRecorded
<1>1. Init => InStepWhileRecorded
  BY DEF Init, InStepWhileRecorded, PublishedInStep
<1> QED  BY <1>1, InStepStep, StoreInvariance, PTL DEF Spec

\* Where passes can always be recorded, the comment at src/altcha.go:276 is true without
\* reserve: the published copy does not fall out of step with the one enforced.
THEOREM NeverOutOfStep == ASSUME ~WritesFail PROVE Spec => []PublishedInStep
<1>1. Init => NoPassLost
  BY DEF Init, NoPassLost
<1>2. TypeOK /\ NoPassLost /\ [Next]_vars => NoPassLost'
  <2> SUFFICES ASSUME TypeOK, NoPassLost, [Next]_vars PROVE NoPassLost'
    OBVIOUS
  <2>1. ASSUME NEW r \in Request,
               \/ \E a \in IP : ArriveToFetch(r, a)
               \/ \E a \in IP, k \in Request \cup {None} : ArriveToSolve(r, a, k)
               \/ GiveUp(r) \/ TakeToken(r) \/ HandBack(r) \/ WaitForMint(r)
        PROVE  NoPassLost'
    BY <2>1 DEF ArriveToFetch, ArriveToSolve, GiveUp, TakeToken, HandBack, WaitForMint,
                Goto, NoPassLost, TypeOK
  <2>2. ASSUME NEW r \in Request, RefuseOrClaim(r) \/ Insert(r) \/ DeriveFails(r)
        PROVE  NoPassLost'
    BY <2>2 DEF RefuseOrClaim, Insert, DeriveFails, Goto, NoPassLost, TypeOK
  <2>3. ASSUME NEW r \in Request, Unclaim(r) PROVE NoPassLost'
    BY <2>3 DEF Unclaim, Woken, NoPassLost, TypeOK
  <2>4. ASSUME NEW r \in Request, RedeemRead(r) \/ Spend(r) \/ Record(r) \/ Restore(r)
        PROVE  NoPassLost'
    BY <2>4 DEF RedeemRead, Spend, Record, Restore, Goto, NoPassLost, TypeOK
  <2>5. Prune \/ Tick \/ UNCHANGED vars => NoPassLost'
    BY DEF Prune, Tick, vars, NoPassLost
  <2> QED  BY <2>1, <2>2, <2>3, <2>4, <2>5 DEF Next, Serve
<1>3. NoPassLost /\ InStepWhileRecorded => PublishedInStep
  BY DEF InStepWhileRecorded
<1> QED  BY <1>1, <1>2, <1>3, StoreTypes, WidgetsInStep, PTL DEF Spec

-------------------------------------------------------------------------------
(* The cap *)

\* The addresses that have a slot or are deriving for one.
Deriving == {a \in IP : \E r \in Request : pc[r] = "derive" /\ ip[r] = a}
Spoken == Outstanding(live) \cup Deriving

\* No more requests than tokens are inside challengeFor, and so no more than that
\* can pass the check of the cap before the first of them inserts.
TokensBounded == Cardinality(HoldsToken) <= MintTokens
SpokenBounded == Cardinality(Spoken) < MaxLive + MintTokens + Cardinality(GaveBack)

\* The sets that are counted are finite.
LEMMA Countable ==
  /\ \A S \in SUBSET IP : IsFiniteSet(S) /\ Cardinality(S) \in Nat
  /\ \A S \in SUBSET Request : IsFiniteSet(S) /\ Cardinality(S) \in Nat
  BY StoreAssumption, FS_Subset, FS_CardinalityType

\* A subset counts no more.
LEMMA Fewer ==
  ASSUME NEW S, NEW T, S \subseteq T, T \subseteq IP \/ T \subseteq Request
  PROVE  Cardinality(S) \in Nat /\ Cardinality(T) \in Nat /\ Cardinality(S) <= Cardinality(T)
<1>1. IsFiniteSet(T) /\ Cardinality(T) \in Nat /\ Cardinality(S) \in Nat
  BY Countable
<1> QED  BY <1>1, FS_Subset

\* Tokens are taken one at a time, while fewer than MintTokens are held.
LEMMA TokenStep == TypeOK /\ TokensBounded /\ [Next]_vars => TokensBounded'
<1> SUFFICES ASSUME TypeOK, TokensBounded, [Next]_vars PROVE TokensBounded'
  OBVIOUS
<1>1. ASSUME HoldsToken' \subseteq HoldsToken PROVE TokensBounded'
  <2>1. HoldsToken \subseteq Request
    BY DEF HoldsToken
  <2> QED  BY <1>1, <2>1, Fewer, StoreAssumption DEF TokensBounded
<1>2. ASSUME NEW r \in Request, TakeToken(r) PROVE TokensBounded'
  <2>1. HoldsToken' \subseteq HoldsToken \cup {r} /\ HoldsToken \cup {r} \subseteq Request
    BY <1>2 DEF TakeToken, Goto, HoldsToken, TypeOK
  <2>2. IsFiniteSet(HoldsToken) /\ Cardinality(HoldsToken) \in Nat
    BY Countable DEF HoldsToken
  <2>3. Cardinality(HoldsToken \cup {r}) <= Cardinality(HoldsToken) + 1
    <3>1. Cardinality(HoldsToken \cup {r}) =
            IF r \in HoldsToken THEN Cardinality(HoldsToken) ELSE Cardinality(HoldsToken) + 1
      BY <2>2, FS_AddElement, Zenon
    <3> QED  BY <2>2, <3>1
  <2>4. /\ Cardinality(HoldsToken') <= Cardinality(HoldsToken \cup {r})
        /\ Cardinality(HoldsToken') \in Nat /\ Cardinality(HoldsToken \cup {r}) \in Nat
    BY <2>1, Fewer
  <2>5. Cardinality(HoldsToken) < MintTokens
    BY <1>2 DEF TakeToken
  <2> QED  BY <2>2, <2>3, <2>4, <2>5, StoreAssumption DEF TokensBounded
<1>3. ASSUME NEW r \in Request,
             \/ \E a \in IP : ArriveToFetch(r, a)
             \/ \E a \in IP, k \in Request \cup {None} : ArriveToSolve(r, a, k)
             \/ GiveUp(r) \/ HandBack(r) \/ WaitForMint(r)
      PROVE  HoldsToken' \subseteq HoldsToken
  BY <1>3 DEF ArriveToFetch, ArriveToSolve, GiveUp, HandBack, WaitForMint, Goto, HoldsToken, TypeOK
<1>4. ASSUME NEW r \in Request, RefuseOrClaim(r) \/ Insert(r) \/ DeriveFails(r)
      PROVE  HoldsToken' \subseteq HoldsToken
  BY <1>4 DEF RefuseOrClaim, Insert, DeriveFails, Goto, HoldsToken, TypeOK
<1>5. ASSUME NEW r \in Request, Unclaim(r) PROVE HoldsToken' \subseteq HoldsToken
  BY <1>5 DEF Unclaim, Woken, HoldsToken, TypeOK
<1>6. ASSUME NEW r \in Request, RedeemRead(r) \/ Spend(r) \/ Record(r) \/ Restore(r)
      PROVE  HoldsToken' \subseteq HoldsToken
  BY <1>6 DEF RedeemRead, Spend, Record, Restore, Goto, HoldsToken, TypeOK
<1>7. Prune \/ Tick \/ UNCHANGED vars => HoldsToken' \subseteq HoldsToken
  BY DEF Prune, Tick, vars, HoldsToken
<1> QED  BY <1>1, <1>2, <1>3, <1>4, <1>5, <1>6, <1>7 DEF Next, Serve

\* A claim in an empty slot is made below the cap, and counts with it only the
\* other requests that hold a token.
LEMMA ClaimIsBounded ==
  ASSUME TypeOK, Placed, TokensBounded', NEW r \in Request, RefuseOrClaim(r)
  PROVE  \/ Spoken' \subseteq Spoken
         \/ Cardinality(Spoken') < MaxLive + MintTokens
<1>1. /\ ip[r] \in IP /\ pc[r] = "fetch" /\ UNCHANGED ip
      /\ live' \in [IP -> Entry \cup {NoEntry}]
      /\ \A a \in IP : live'[a] \in {live[a], NoEntry}
  BY PrunedSound DEF RefuseOrClaim, AfterSweep, Placed, TypeOK
<1>2. Outstanding(live') \subseteq Outstanding(live)
  BY <1>1 DEF Outstanding
<1>3. CASE Goto(r, "done")
  <2>1. Deriving' \subseteq Deriving
    BY <1>1, <1>3 DEF Deriving, Goto, TypeOK
  <2> QED  BY <1>2, <2>1 DEF Spoken
<1>4. CASE live'[ip[r]] # NoEntry /\ Goto(r, "derive")
  <2>1. Deriving' \subseteq Deriving \cup {ip[r]} /\ ip[r] \in Outstanding(live)
    BY <1>1, <1>2, <1>4 DEF Deriving, Goto, TypeOK, Outstanding
  <2> QED  BY <1>2, <2>1 DEF Spoken
<1>5. CASE ~AtCapacity(live')
  <2> DEFINE out == Outstanding(live)'
             f == [q \in HoldsToken' |-> ip'[q]]
             from == {f[q] : q \in HoldsToken'}
  <2>1. out \subseteq IP /\ HoldsToken' \subseteq Request /\ Deriving' \subseteq from
    BY DEF Outstanding, HoldsToken, Deriving
  <2>2. from \subseteq IP
    <3>1. \A q \in HoldsToken' : ip'[q] \in IP
      BY <1>1 DEF HoldsToken, Placed, RefuseOrClaim, Goto, TypeOK
    <3> QED  BY <3>1
  <2>3. f \in Surjection(HoldsToken', from)
    BY DEF Surjection
  <2>4. Cardinality(from) <= Cardinality(HoldsToken')
    <3> HIDE DEF f, from
    <3> QED  BY <2>1, <2>3, Countable, FS_Surjection
  <2>5. Cardinality(HoldsToken') <= MintTokens
    BY DEF TokensBounded
  <2>6. ~(Cardinality(out) >= MaxLive)
    BY <1>5 DEF AtCapacity, Outstanding
  <2> HIDE DEF out, f, from
  <2>7. /\ Cardinality(out) \in Nat /\ Cardinality(from) \in Nat
        /\ Cardinality(out \cap from) \in Nat /\ Cardinality(HoldsToken') \in Nat
        /\ IsFiniteSet(out) /\ IsFiniteSet(from)
    BY <2>1, <2>2, Countable
  <2>8. Cardinality(out \cup from) <= Cardinality(out) + Cardinality(from)
    <3>1. Cardinality(out \cup from) =
            Cardinality(out) + Cardinality(from) - Cardinality(out \cap from)
      BY <2>7, FS_Union, Zenon
    <3> QED  BY <2>7, <3>1
  <2>9. Spoken' \subseteq out \cup from /\ out \cup from \subseteq IP
    BY <2>1, <2>2 DEF Spoken, out
  <2>10. /\ Cardinality(Spoken') <= Cardinality(out \cup from)
         /\ Cardinality(Spoken') \in Nat /\ Cardinality(out \cup from) \in Nat
    BY <2>9, Fewer
  <2> QED  BY <2>4, <2>5, <2>6, <2>7, <2>8, <2>10, StoreAssumption
<1> QED  BY <1>3, <1>4, <1>5 DEF RefuseOrClaim

\* A request that has failed is not heard of again.
LEMMA FailedForGood ==
  ASSUME TypeOK, [Next]_vars, NEW r \in Request, pc[r] = "failed"
  PROVE  pc'[r] = "failed"
<1>1. \A q \in Request : \A place : Goto(q, place) /\ pc[q] # "failed" => pc'[r] = "failed"
  BY DEF Goto, TypeOK
<1> QED
  BY <1>1 DEF Next, Serve, vars, TypeOK, ArriveToFetch, ArriveToSolve, GiveUp, TakeToken,
              HandBack, WaitForMint, RefuseOrClaim, Insert, DeriveFails, Unclaim, Woken,
              RedeemRead, Spend, Record, Restore, Prune, Tick

\* A restore speaks for one slot more, and has failed one request more.
LEMMA RestoreSpeaksForOne ==
  ASSUME TypeOK, Placed, SpokenBounded, NEW r \in Request, Restore(r)
  PROVE  SpokenBounded'
<1>1. /\ pc[r] = "restore" /\ ip[r] \in IP /\ UNCHANGED ip /\ pc' = [pc EXCEPT ![r] = "failed"]
      /\ \A a \in IP : live'[a] = live[a] \/ a = ip[r]
  BY DEF Restore, Goto, Placed, TypeOK
<1>2. Spoken' \subseteq Spoken \cup {ip[r]} /\ Spoken \cup {ip[r]} \subseteq IP
  BY <1>1 DEF Spoken, Outstanding, Deriving, TypeOK
<1>3. GaveBack' = GaveBack \cup {r} /\ r \notin GaveBack /\ GaveBack \subseteq Request
  BY <1>1 DEF GaveBack, TypeOK
<1>4. /\ IsFiniteSet(Spoken) /\ Cardinality(Spoken) \in Nat
      /\ IsFiniteSet(GaveBack) /\ Cardinality(GaveBack) \in Nat
  BY <1>2, <1>3, Countable
<1>5. Cardinality(GaveBack') = Cardinality(GaveBack) + 1
  <2>1. Cardinality(GaveBack \cup {r}) =
          IF r \in GaveBack THEN Cardinality(GaveBack) ELSE Cardinality(GaveBack) + 1
    BY <1>4, FS_AddElement, Zenon
  <2> QED  BY <1>3, <2>1
<1>6. Cardinality(Spoken \cup {ip[r]}) <= Cardinality(Spoken) + 1
  <2>1. Cardinality(Spoken \cup {ip[r]}) =
          IF ip[r] \in Spoken THEN Cardinality(Spoken) ELSE Cardinality(Spoken) + 1
    BY <1>4, FS_AddElement, Zenon
  <2> QED  BY <1>4, <2>1
<1>7. /\ Cardinality(Spoken') <= Cardinality(Spoken \cup {ip[r]})
      /\ Cardinality(Spoken') \in Nat /\ Cardinality(Spoken \cup {ip[r]}) \in Nat
  BY <1>2, Fewer
<1> QED  BY <1>4, <1>5, <1>6, <1>7, StoreAssumption DEF SpokenBounded

\* No other step than a claim or a restore speaks for another slot.
LEMMA SpokenStep ==
  IInv /\ TokensBounded /\ SpokenBounded /\ [Next]_vars => SpokenBounded'
<1> SUFFICES ASSUME IInv, TokensBounded, SpokenBounded, [Next]_vars
             PROVE  SpokenBounded'
  OBVIOUS
<1>0. TypeOK /\ Placed /\ TokensBounded'
  BY TokenStep DEF IInv
<1>g. /\ GaveBack \subseteq GaveBack'
      /\ Cardinality(GaveBack) \in Nat /\ Cardinality(GaveBack') \in Nat
      /\ Cardinality(GaveBack) <= Cardinality(GaveBack')
  <2>1. GaveBack \subseteq GaveBack' /\ GaveBack' \subseteq Request
    BY <1>0, FailedForGood DEF GaveBack
  <2> QED  BY <2>1, Fewer
<1>1. ASSUME Spoken' \subseteq Spoken PROVE SpokenBounded'
  <2>1. Spoken \subseteq IP
    BY DEF Spoken, Outstanding, Deriving
  <2>2. /\ Cardinality(Spoken') <= Cardinality(Spoken)
        /\ Cardinality(Spoken') \in Nat /\ Cardinality(Spoken) \in Nat
    BY <1>1, <2>1, Fewer
  <2> QED  BY <1>g, <2>2, StoreAssumption DEF SpokenBounded
<1>2. CASE UNCHANGED vars
  <2>1. Spoken' = Spoken
    BY <1>2 DEF vars, Spoken, Outstanding, Deriving
  <2> QED  BY <1>1, <2>1
<1>3. CASE Next
  <2>1. ASSUME NEW r \in Request, Restore(r) PROVE SpokenBounded'
    BY <1>0, <2>1, RestoreSpeaksForOne
  <2>2. ASSUME NEW r \in Request, RefuseOrClaim(r) PROVE SpokenBounded'
    <3>1. CASE Spoken' \subseteq Spoken
      BY <1>1, <3>1
    <3>2. CASE Cardinality(Spoken') < MaxLive + MintTokens
      <4>1. Cardinality(Spoken') \in Nat
        BY Countable DEF Spoken, Outstanding, Deriving
      <4> QED  BY <1>g, <3>2, <4>1, StoreAssumption DEF SpokenBounded
    <3> QED  BY <1>0, <2>2, <3>1, <3>2, ClaimIsBounded
  <2>3. ASSUME NEW r \in Request,
               \/ \E a \in IP : ArriveToFetch(r, a)
               \/ \E a \in IP, k \in Request \cup {None} : ArriveToSolve(r, a, k)
               \/ GiveUp(r) \/ TakeToken(r) \/ WaitForMint(r) \/ DeriveFails(r)
        PROVE  Spoken' \subseteq Spoken
    BY <1>0, <2>3 DEF ArriveToFetch, ArriveToSolve, GiveUp, TakeToken, WaitForMint,
                      DeriveFails, Goto, store, Spoken, Outstanding, Deriving, TypeOK
  <2>4. ASSUME NEW r \in Request, HandBack(r) PROVE Spoken' \subseteq Spoken
    <3>1. ip[r] \in IP /\ live[ip[r]] # NoEntry
      BY <1>0, <2>4 DEF HandBack, Current, Placed
    <3>2. Outstanding(live') \subseteq Outstanding(live)
      BY <1>0, <2>4, <3>1 DEF HandBack, Outstanding, TypeOK
    <3>3. Deriving' \subseteq Deriving
      BY <1>0, <2>4 DEF HandBack, Goto, Deriving, TypeOK
    <3> QED  BY <3>2, <3>3 DEF Spoken
  <2>5. ASSUME NEW r \in Request, Insert(r) PROVE Spoken' \subseteq Spoken
    <3>1. ip[r] \in Deriving
      BY <1>0, <2>5 DEF Insert, Placed, Deriving
    <3>2. Outstanding(live') \subseteq Outstanding(live) \cup {ip[r]}
      BY <1>0, <2>5 DEF Insert, Outstanding, TypeOK
    <3>3. Deriving' \subseteq Deriving
      BY <1>0, <2>5 DEF Insert, Goto, Deriving, TypeOK
    <3> QED  BY <3>1, <3>2, <3>3 DEF Spoken
  <2>6. ASSUME NEW r \in Request, Unclaim(r) PROVE Spoken' \subseteq Spoken
    BY <1>0, <2>6 DEF Unclaim, Spoken, Outstanding, Deriving, TypeOK
  <2>7. ASSUME NEW r \in Request, RedeemRead(r) \/ Spend(r) \/ Record(r)
        PROVE  Spoken' \subseteq Spoken
    <3>1. Outstanding(live') \subseteq Outstanding(live)
      BY <1>0, <2>7 DEF RedeemRead, Spend, Record, store, Outstanding, TypeOK
    <3>2. Deriving' \subseteq Deriving
      BY <1>0, <2>7 DEF RedeemRead, Spend, Record, Goto, Deriving, TypeOK
    <3> QED  BY <3>1, <3>2 DEF Spoken
  <2>8. Prune => Spoken' \subseteq Spoken
    <3> SUFFICES ASSUME Prune PROVE Spoken' \subseteq Spoken
      OBVIOUS
    <3>1. \A a \in IP : live'[a] \in {live[a], NoEntry}
      BY <1>0, PrunedSound DEF Prune, TypeOK
    <3> QED  BY <3>1 DEF Prune, Spoken, Outstanding, Deriving
  <2>9. Tick => Spoken' \subseteq Spoken
    BY DEF Tick, store, Spoken, Outstanding, Deriving
  <2> QED
    BY <1>1, <1>3, <2>1, <2>2, <2>3, <2>4, <2>5, <2>6, <2>7, <2>8, <2>9 DEF Next, Serve
<1> QED  BY <1>2, <1>3

\* The cap is overshot by no more than the requests that hold a token and one for every
\* pass that was lost (challengeFor, mintConcurrency, restore).
THEOREM OvershootBounded == Spec => []CapOvershootBounded
<1>1. Init => TokensBounded /\ SpokenBounded
  <2> SUFFICES ASSUME Init PROVE TokensBounded /\ SpokenBounded
    OBVIOUS
  <2>1. HoldsToken = {} /\ Spoken = {} /\ GaveBack = {}
    BY DEF Init, HoldsToken, Spoken, Outstanding, Deriving, GaveBack
  <2>2. Cardinality({}) = 0
    BY FS_EmptySet
  <2> QED  BY <2>1, <2>2, StoreAssumption DEF TokensBounded, SpokenBounded
<1>2. IInv /\ TokensBounded /\ [Next]_vars => TokensBounded'
  BY TokenStep DEF IInv
<1>3. SpokenBounded => CapOvershootBounded
  <2> SUFFICES ASSUME SpokenBounded PROVE CapOvershootBounded
    OBVIOUS
  <2>1. Outstanding(live) \subseteq Spoken /\ Spoken \subseteq IP
    BY DEF Spoken, Outstanding, Deriving
  <2>2. /\ Cardinality(Outstanding(live)) <= Cardinality(Spoken)
        /\ Cardinality(Outstanding(live)) \in Nat /\ Cardinality(Spoken) \in Nat
    BY <2>1, Fewer
  <2>3. Cardinality(GaveBack) \in Nat
    BY Countable DEF GaveBack
  <2> QED  BY <2>2, <2>3, StoreAssumption DEF SpokenBounded, CapOvershootBounded
<1> QED  BY <1>1, <1>2, <1>3, SpokenStep, StoreInvariance, PTL DEF Spec

-------------------------------------------------------------------------------
(* Refinement: the store implements Tickets *)

\* The times that requests read have been, and what is in the store, or in the hands
\* of a request, was minted when its key was and is good for no longer than TTL.
TimesPast == \A r \in Request : now[r] <= clock
LiveAsMinted == \A a \in IP : live[a] # NoEntry => live[a].created = kept[live[a].key].created
KeptAsMinted ==
  \A r \in Request : pc[r] \in Redeeming => kept[r].created = kept[kept[r].key].created
LiveAllowed == \A a \in IP : live[a] # NoEntry => live[a].expires <= clock + TTL
KeptAllowed == \A r \in Request : pc[r] \in Redeeming => kept[r].expires <= clock + TTL

TicketInv == TimesPast /\ LiveAsMinted /\ KeptAsMinted /\ LiveAllowed /\ KeptAllowed

\* More time is never less, and reaches no further than TTL from now.
LEMMA ExtendedAllowed ==
  ASSUME NEW e \in Entry, NEW t \in Time, t <= clock, clock \in Time,
         e.expires <= e.created + MaxLifetime, e.expires <= clock + TTL
  PROVE  /\ Extended(e, t).expires >= e.expires
         /\ Extended(e, t).expires <= clock + TTL
BY StoreAssumption DEF Extended, Entry, Time

\* Every step keeps the times and the mints together.
LEMMA TicketInvStep == IInv /\ TicketInv /\ [Next]_vars => TicketInv'
<1> SUFFICES ASSUME IInv, TicketInv, [Next]_vars PROVE TicketInv'
  OBVIOUS
<1>0. TypeOK /\ Placed /\ EmptyHanded /\ LiveIsIssued /\ KeptIsIssued /\ SlotsAgeOut
  BY DEF IInv
<1> USE <1>0, StoreAssumption, NoEntryIsNone
    DEF TicketInv, TimesPast, LiveAsMinted, KeptAsMinted, LiveAllowed, KeptAllowed,
        Placed, EmptyHanded, LiveIsIssued, KeptIsIssued, Issued, Empty, Redeeming, store, Goto
<1>1. ASSUME NEW r \in Request, NEW a \in IP, ArriveToFetch(r, a) PROVE TicketInv'
  BY <1>1 DEF ArriveToFetch, TypeOK
<1>2. ASSUME NEW r \in Request, NEW a \in IP, NEW k \in Request \cup {None},
             ArriveToSolve(r, a, k) PROVE TicketInv'
  BY <1>2 DEF ArriveToSolve, TypeOK, Time
<1>3. ASSUME NEW r \in Request, GiveUp(r) \/ WaitForMint(r) \/ DeriveFails(r) PROVE TicketInv'
  BY <1>3 DEF GiveUp, WaitForMint, DeriveFails, TypeOK
<1>4. ASSUME NEW r \in Request, TakeToken(r) PROVE TicketInv'
  BY <1>4 DEF TakeToken, TypeOK, Time
<1>5. ASSUME NEW r \in Request, HandBack(r) PROVE TicketInv'
  <2> DEFINE e == Extended(live[ip[r]], now[r])
  <2>1. ip[r] \in IP /\ live[ip[r]] # NoEntry /\ live[ip[r]] \in Entry
    BY <1>5 DEF HandBack, Current, TypeOK
  <2>2. /\ e \in Entry /\ e.key = live[ip[r]].key /\ e.created = live[ip[r]].created
        /\ e.expires <= clock + TTL
    BY <2>1, ExtendedSound, ExtendedAllowed DEF TypeOK, SlotsAgeOut
  <2>3. /\ live' = [live EXCEPT ![ip[r]] = e] /\ pc' = [pc EXCEPT ![r] = "done"]
        /\ UNCHANGED <<clock, ip, now, kept>>
    BY <1>5 DEF HandBack
  <2> HIDE DEF e
  <2> QED
    BY <2>1, <2>2, <2>3 DEF TypeOK
<1>6. ASSUME NEW r \in Request, RefuseOrClaim(r) PROVE TicketInv'
  <2>1. \A a \in IP : live'[a] \in {live[a], NoEntry}
    BY <1>6, PrunedSound DEF RefuseOrClaim, AfterSweep, TypeOK
  <2>2. /\ \A q \in Request : pc'[q] \in Redeeming => pc[q] \in Redeeming
        /\ UNCHANGED <<clock, ip, now, kept>>
    BY <1>6 DEF RefuseOrClaim, TypeOK
  <2> QED
    BY <2>1, <2>2 DEF TypeOK
<1>7. ASSUME NEW r \in Request, Insert(r) PROVE TicketInv'
  <2> DEFINE e == [key |-> r, created |-> now[r], expires |-> now[r] + TTL]
  <2>1. /\ kept[r] = NoEntry /\ live' = [live EXCEPT ![ip[r]] = e]
        /\ kept' = [kept EXCEPT ![r] = e] /\ pc' = [pc EXCEPT ![r] = "unclaim"]
        /\ UNCHANGED <<clock, ip, now>>
    BY <1>7 DEF Insert
  <2>2. e.key = r /\ e.created = now[r] /\ e.expires <= clock + TTL
    BY DEF TypeOK, Time
  <2>3. \A a \in IP : live[a] # NoEntry => live[a].key # r
    BY <2>1
  <2>4. \A q \in Request : pc[q] \in Redeeming => kept[q].key # r
    BY <2>1
  <2> HIDE DEF e
  <2> QED
    BY <2>1, <2>2, <2>3, <2>4 DEF TypeOK
<1>8. ASSUME NEW r \in Request, Unclaim(r) PROVE TicketInv'
  <2>1. \A q \in Request : pc'[q] \in Redeeming => pc[q] \in Redeeming
    BY <1>8 DEF Unclaim, Woken, TypeOK
  <2> QED
    BY <1>8, <2>1 DEF Unclaim
<1>9. ASSUME NEW r \in Request, RedeemRead(r) PROVE TicketInv'
  <2>1. ip[r] \in IP /\ pc[r] = "redeem" /\ kept[r] = NoEntry
    BY <1>9 DEF RedeemRead
  <2>2. \A k \in Request : kept[k].key = k => k # r
    BY <2>1
  <2>3. CASE kept' = [kept EXCEPT ![r] = live[ip[r]]] /\ live[ip[r]] # NoEntry
             /\ pc' = [pc EXCEPT ![r] = "spend"]
    BY <1>9, <2>1, <2>2, <2>3 DEF RedeemRead, TypeOK
  <2>4. CASE kept' = kept /\ pc' = [pc EXCEPT ![r] = "done"]
    BY <1>9, <2>1, <2>4 DEF RedeemRead, TypeOK
  <2> QED
    BY <1>9, <2>3, <2>4 DEF RedeemRead
<1>10. ASSUME NEW r \in Request, Spend(r) PROVE TicketInv'
  <2>1. ip[r] \in IP /\ pc[r] = "spend"
    BY <1>10 DEF Spend
  <2>2. /\ \A a \in IP : live'[a] \in {live[a], NoEntry}
        /\ \A q \in Request : pc'[q] \in Redeeming => pc[q] \in Redeeming
    BY <1>10, <2>1 DEF Spend, TypeOK
  <2> QED
    BY <1>10, <2>2 DEF Spend
<1>11. ASSUME NEW r \in Request, Record(r) PROVE TicketInv'
  <2>1. /\ \A q \in Request : pc'[q] \in Redeeming => pc[q] \in Redeeming
        /\ \A q \in Request : now'[q] \in {now[q], clock}
    BY <1>11 DEF Record, TypeOK
  <2> QED
    BY <1>11, <2>1 DEF Record, TypeOK, Time
<1>12. ASSUME NEW r \in Request, Restore(r) PROVE TicketInv'
  <2>1. ip[r] \in IP /\ pc[r] = "restore" /\ pc' = [pc EXCEPT ![r] = "failed"]
    BY <1>12 DEF Restore
  <2>2. \A a \in IP : live'[a] = live[a] \/ live'[a] = kept[r]
    BY <1>12, <2>1 DEF Restore, TypeOK
  <2> QED
    BY <1>12, <2>1, <2>2 DEF Restore, TypeOK
<1>13. CASE Prune
  <2>1. \A a \in IP : live'[a] \in {live[a], NoEntry}
    BY <1>13, PrunedSound DEF Prune, TypeOK
  <2> QED
    BY <1>13, <2>1 DEF Prune
<1>14. CASE Tick
  <2>1. clock' = clock + 1 /\ clock \in Nat /\ UNCHANGED <<live, pc, now, kept>>
    BY <1>14 DEF Tick, TypeOK, Time
  <2>2. \A r \in Request : now[r] \in Nat
    BY DEF TypeOK, Time
  <2>3. /\ \A a \in IP : live[a] # NoEntry => live[a].expires \in Nat
        /\ \A r \in Request : kept[r].expires \in Nat
    BY DEF TypeOK, Entry, NoEntry
  <2> QED
    BY <2>1, <2>2, <2>3
<1>15. CASE UNCHANGED vars
  BY <1>15 DEF vars
<1> QED
  BY <1>1, <1>2, <1>3, <1>4, <1>5, <1>6, <1>7, <1>8, <1>9, <1>10, <1>11, <1>12,
     <1>13, <1>14, <1>15 DEF Next, Serve

\* Some request has taken the challenge with key k out.
InHand(k) == \E r \in Request : pc[r] \in Taken /\ kept[r].key = k

\* What a step does to tickets shows on those in K at most.
LEMMA OthersStay ==
  ASSUME NEW K \in SUBSET Request,
         \A k \in Request \ K :
           /\ Minted(k)' <=> Minted(k)
           /\ Minted(k) => kept'[k] = kept[k] /\ ip'[k] = ip[k]
           /\ Minted(k) => (live'[ip[k]].key = k <=> live[ip[k]].key = k)
           /\ Minted(k) /\ live[ip[k]].key = k => live'[ip[k]].expires = live[ip[k]].expires
           /\ InHand(k)' <=> InHand(k)
  PROVE  /\ Place' = [k \in Request |-> IF k \in K THEN Place'[k] ELSE Place[k]]
         /\ Expiry' = [k \in Request |-> IF k \in K THEN Expiry'[k] ELSE Expiry[k]]
         /\ Owner' = [k \in Request |-> IF k \in K THEN Owner'[k] ELSE Owner[k]]
         /\ MintedAt' = [k \in Request |-> IF k \in K THEN MintedAt'[k] ELSE MintedAt[k]]
<1>1. \A k \in Request \ K : Place'[k] = Place[k]
  BY DEF Place, Minted, InHand, Taken
<1>2. \A k \in Request \ K : Expiry'[k] = Expiry[k]
  BY DEF Expiry, Minted
<1>3. \A k \in Request \ K : Owner'[k] = Owner[k] /\ MintedAt'[k] = MintedAt[k]
  BY DEF Owner, MintedAt, Minted
<1>4. /\ Place' = [k \in Request |-> Place'[k]] /\ Expiry' = [k \in Request |-> Expiry'[k]]
      /\ Owner' = [k \in Request |-> Owner'[k]] /\ MintedAt' = [k \in Request |-> MintedAt'[k]]
  BY Zenon DEF Place, Expiry, Owner, MintedAt
<1> QED
  BY <1>1, <1>2, <1>3, <1>4

\* The four functions of a ticket are functions.
LEMMA TicketFunctions ==
  /\ Place = [k \in Request |-> Place[k]] /\ Expiry = [k \in Request |-> Expiry[k]]
  /\ Owner = [k \in Request |-> Owner[k]] /\ MintedAt = [k \in Request |-> MintedAt[k]]
BY Zenon DEF Place, Expiry, Owner, MintedAt

\* A step that moves no challenge and mints none shows on no ticket.
LEMMA NothingMoves ==
  ASSUME UNCHANGED <<clock, live, passed>>,
         \A k \in Request :
           /\ Minted(k)' <=> Minted(k)
           /\ Minted(k) => kept'[k] = kept[k] /\ ip'[k] = ip[k]
           /\ InHand(k)' <=> InHand(k)
  PROVE  UNCHANGED Book!vars
<1> DEFINE K == {}
<1>1. \A k \in Request \ K :
        /\ Minted(k)' <=> Minted(k)
        /\ Minted(k) => kept'[k] = kept[k] /\ ip'[k] = ip[k]
        /\ Minted(k) => (live'[ip[k]].key = k <=> live[ip[k]].key = k)
        /\ Minted(k) /\ live[ip[k]].key = k => live'[ip[k]].expires = live[ip[k]].expires
        /\ InHand(k)' <=> InHand(k)
  OBVIOUS
<1> HIDE DEF K
<1>2. K \in SUBSET Request /\ \A k \in Request : k \notin K
  BY DEF K
<1>3. /\ Place' = [k \in Request |-> IF k \in K THEN Place'[k] ELSE Place[k]]
      /\ Expiry' = [k \in Request |-> IF k \in K THEN Expiry'[k] ELSE Expiry[k]]
      /\ Owner' = [k \in Request |-> IF k \in K THEN Owner'[k] ELSE Owner[k]]
      /\ MintedAt' = [k \in Request |-> IF k \in K THEN MintedAt'[k] ELSE MintedAt[k]]
  BY <1>1, <1>2, OthersStay, Zenon
<1> QED
  BY <1>2, <1>3, TicketFunctions DEF Book!vars

\* Tickets that are put elsewhere are all that a step shows on.
LEMMA SomeLeave ==
  ASSUME NEW K \in SUBSET Request, NEW new,
         \A k \in Request :
           /\ Minted(k)' <=> Minted(k)
           /\ Minted(k) => kept'[k] = kept[k] /\ ip'[k] = ip[k],
         \A k \in Request \ K :
           /\ Minted(k) => (live'[ip[k]].key = k <=> live[ip[k]].key = k)
           /\ Minted(k) /\ live[ip[k]].key = k => live'[ip[k]].expires = live[ip[k]].expires
           /\ InHand(k)' <=> InHand(k),
         \A k \in K : Place'[k] = new /\ Expiry'[k] = 0
  PROVE  Book!Leave(K, new) /\ UNCHANGED <<Owner, MintedAt>>
<1>1. /\ Place' = [k \in Request |-> IF k \in K THEN Place'[k] ELSE Place[k]]
      /\ Expiry' = [k \in Request |-> IF k \in K THEN Expiry'[k] ELSE Expiry[k]]
  BY OthersStay
<1>2. UNCHANGED <<Owner, MintedAt>>
  BY DEF Owner, MintedAt, Minted
<1> QED
  BY <1>1, <1>2 DEF Book!Leave

\* What the invariants say of the ticket in a slot, ...
LEMMA SlotTicket ==
  ASSUME IInv, TicketInv, NEW a \in IP, live[a] # NoEntry, NEW k, k = live[a].key
  PROVE  /\ k \in Request /\ Minted(k) /\ ip[k] = a /\ ~InHand(k)
         /\ Place[k] = "held" /\ Owner[k] = a
         /\ Expiry[k] = live[a].expires /\ MintedAt[k] = live[a].created
<1>1. k \in Request /\ Minted(k) /\ ip[k] = a
  BY DEF IInv, LiveIsIssued, Issued, Minted
<1>2. ~InHand(k)
  BY DEF IInv, TakenIsOut, InHand
<1>3. live[a].created = kept[k].created
  BY DEF TicketInv, LiveAsMinted
<1> QED
  BY <1>1, <1>2, <1>3 DEF Place, Owner, Expiry, MintedAt

\* ... of a ticket that is held, ...
LEMMA HeldTicket ==
  ASSUME IInv, NEW k \in Request, Place[k] = "held"
  PROVE  Minted(k) /\ ip[k] \in IP /\ live[ip[k]] # NoEntry /\ live[ip[k]].key = k
<1>1. Minted(k) /\ live[ip[k]].key = k
  BY DEF Place
<1>2. pc[k] # "new"
  BY <1>1, NoEntryIsNone, StoreAssumption DEF IInv, EmptyHanded, Empty, Minted
<1> QED
  BY <1>1, <1>2, NoEntryIsNone, StoreAssumption DEF IInv, Placed

\* ... and of the one that a request has taken out.
LEMMA TakenTicket ==
  ASSUME IInv, TicketInv, NEW r \in Request, pc[r] \in Taken, NEW k, k = kept[r].key
  PROVE  /\ k \in Request /\ Minted(k) /\ ip[k] = ip[r] /\ ip[r] \in IP /\ InHand(k)
         /\ Place[k] = "taken" /\ Owner[k] = ip[r] /\ Expiry[k] = 0
         /\ MintedAt[k] = kept[r].created
         /\ \A q \in Request : pc[q] \in Taken /\ kept[q].key = k => q = r
         /\ \A a \in IP : live[a].key # k
<1>1. k \in Request /\ Minted(k) /\ ip[k] = ip[r] /\ ip[r] \in IP
  BY DEF IInv, KeptIsIssued, Issued, Minted, Placed, Taken, Redeeming
<1>2. InHand(k) /\ \A a \in IP : live[a].key # k
  BY DEF IInv, TakenIsOut, InHand
<1>3. kept[r].created = kept[k].created
  BY DEF TicketInv, KeptAsMinted, Taken, Redeeming
<1>4. \A q \in Request : pc[q] \in Taken /\ kept[q].key = k => q = r
  BY DEF IInv, TakenOnce
<1> QED
  BY <1>1, <1>2, <1>3, <1>4 DEF Place, Owner, Expiry, MintedAt, InHand, Taken

\* A request that arrives, waits, gives up, only looks or has looked in vain.
LEMMA QuietSteps ==
  ASSUME IInv, TicketInv, NEW r \in Request,
         \/ \E a \in IP : ArriveToFetch(r, a)
         \/ \E a \in IP, k \in Request \cup {None} : ArriveToSolve(r, a, k)
         \/ GiveUp(r) \/ TakeToken(r) \/ WaitForMint(r) \/ DeriveFails(r) \/ Unclaim(r)
         \/ RedeemRead(r)
  PROVE  UNCHANGED Book!vars
<1> USE StoreAssumption, NoEntryIsNone
<1>0. TypeOK /\ EmptyHanded /\ LiveIsIssued /\ Placed
  BY DEF IInv
<1>1. UNCHANGED <<clock, live, passed>>
  BY DEF ArriveToFetch, ArriveToSolve, GiveUp, TakeToken, WaitForMint, DeriveFails,
         Unclaim, RedeemRead, store
<1>2. \A q \in Request : pc'[q] \in Taken <=> pc[q] \in Taken
  BY <1>0 DEF ArriveToFetch, ArriveToSolve, GiveUp, TakeToken, WaitForMint, DeriveFails,
              Unclaim, Woken, RedeemRead, Goto, Taken, TypeOK
<1>3. CASE RedeemRead(r)
  <2>1. /\ pc[r] = "redeem" /\ kept[r] = NoEntry /\ ip[r] \in IP /\ UNCHANGED ip
        /\ \A q \in Request \ {r} : kept'[q] = kept[q]
    BY <1>0, <1>3 DEF RedeemRead, Goto, EmptyHanded, Empty, Placed, TypeOK
  <2>2. ~Minted(r)
    BY <2>1 DEF Minted
  <2>3. kept'[r] \in {NoEntry, live[ip[r]]}
    BY <1>0, <1>3, <2>1 DEF RedeemRead, TypeOK
  <2>4. kept'[r].key # r
    BY <1>0, <2>1, <2>2, <2>3 DEF LiveIsIssued, Issued, Minted
  <2>5. \A k \in Request :
          /\ Minted(k)' <=> Minted(k)
          /\ Minted(k) => kept'[k] = kept[k] /\ ip'[k] = ip[k]
    BY <2>1, <2>2, <2>4 DEF Minted
  <2>6. pc[r] \notin Taken
    BY <2>1 DEF Taken
  <2>7. \A k \in Request : InHand(k)' <=> InHand(k)
    BY <1>2, <2>1, <2>6 DEF InHand
  <2> QED
    BY <1>1, <2>5, <2>7, NothingMoves
<1>4. CASE ~RedeemRead(r)
  <2>1. UNCHANGED kept
    BY <1>4 DEF ArriveToFetch, ArriveToSolve, GiveUp, TakeToken, WaitForMint, DeriveFails,
                Unclaim
  <2>2. \A k \in Request : Minted(k) => ip'[k] = ip[k]
    <3>1. pc[r] = "new" => ~Minted(r)
      BY <1>0 DEF EmptyHanded, Empty, Minted
    <3> QED
      BY <1>0, <1>4, <3>1 DEF ArriveToFetch, ArriveToSolve, GiveUp, TakeToken, WaitForMint,
                              DeriveFails, Unclaim, TypeOK
  <2>3. \A k \in Request : (Minted(k)' <=> Minted(k)) /\ (InHand(k)' <=> InHand(k))
    BY <1>2, <2>1 DEF Minted, InHand
  <2> QED
    BY <1>1, <2>1, <2>2, <2>3, NothingMoves
<1> QED
  BY <1>3, <1>4

\* A challenge that is handed back is a ticket extended.
LEMMA HandBackExtends ==
  ASSUME IInv, TicketInv, NEW r \in Request, HandBack(r)
  PROVE  Book!Next
<1>0. TypeOK /\ SlotsAgeOut /\ LiveIsIssued
  BY DEF IInv
<1>1. ip[r] \in IP /\ live[ip[r]] # NoEntry /\ live[ip[r]] \in Entry /\ pc[r] = "fetch"
  BY DEF HandBack, Current, TypeOK, IInv, Placed
<1> DEFINE k == live[ip[r]].key
           e == Extended(live[ip[r]], now[r])
<1>2. /\ k \in Request /\ Minted(k) /\ ip[k] = ip[r] /\ Place[k] = "held"
      /\ Expiry[k] = live[ip[r]].expires /\ MintedAt[k] = live[ip[r]].created
  BY <1>1, SlotTicket
<1>3. /\ e \in Entry /\ e.key = k /\ e.expires <= live[ip[r]].created + MaxLifetime
      /\ e.expires >= live[ip[r]].expires /\ e.expires <= clock + TTL
  BY <1>0, <1>1, ExtendedSound, ExtendedAllowed
     DEF SlotsAgeOut, TicketInv, TimesPast, LiveAllowed, TypeOK
<1>4. /\ live' = [live EXCEPT ![ip[r]] = e] /\ pc' = [pc EXCEPT ![r] = "done"]
      /\ UNCHANGED <<clock, ip, kept, passed>>
  BY DEF HandBack, Goto
<1> HIDE DEF k, e
<1>5. \A j \in Request : j # k /\ live[ip[j]].key = j => ip[j] # ip[r]
  BY <1>2 DEF k
<1>6. \A j \in Request : (Minted(j)' <=> Minted(j)) /\ (InHand(j)' <=> InHand(j))
  <2>1. \A q \in Request : pc'[q] \in Taken <=> pc[q] \in Taken
    BY <1>0, <1>1, <1>4 DEF Taken, TypeOK
  <2> QED
    BY <1>4, <2>1 DEF Minted, InHand
<1>7. \A a \in IP : live'[a] = IF a = ip[r] THEN e ELSE live[a]
  BY <1>0, <1>4 DEF TypeOK
<1>8. \A j \in Request : Minted(j) => ip[j] \in IP
  BY NoEntryIsNone, StoreAssumption DEF IInv, EmptyHanded, Placed, Minted, Empty
<1>9. \A j \in Request : Place'[j] = Place[j]
  BY <1>1, <1>3, <1>4, <1>6, <1>7, <1>8 DEF Place, Minted, InHand, Taken, k
<1>10. \A j \in Request : Expiry'[j] = IF j = k THEN e.expires ELSE Expiry[j]
  BY <1>1, <1>2, <1>3, <1>4, <1>6, <1>7, <1>8 DEF Expiry, Minted, k
<1>11. UNCHANGED <<Owner, MintedAt>>
  BY <1>4 DEF Owner, MintedAt, Minted
<1>12. Place' = Place /\ Expiry' = [Expiry EXCEPT ![k] = e.expires]
  <2>1. Place' = [j \in Request |-> Place'[j]] /\ Expiry' = [j \in Request |-> Expiry'[j]]
    BY Zenon DEF Place, Expiry
  <2> QED
    BY <1>9, <1>10, <2>1, TicketFunctions
<1>13. e.expires \in Book!Allowed(k)
  BY <1>0, <1>2, <1>3, StoreAssumption DEF Book!Allowed, Entry, TypeOK, Time
<1>14. Book!Extend(k)
  BY <1>2, <1>3, <1>4, <1>11, <1>12, <1>13 DEF Book!Extend, Book!Held
<1> QED
  BY <1>2, <1>14 DEF Book!Next

\* A challenge that was minted has the address of the request that minted it.
LEMMA MintedIsPlaced == IInv => \A k \in Request : Minted(k) => ip[k] \in IP
BY NoEntryIsNone, StoreAssumption DEF IInv, EmptyHanded, Placed, Minted, Empty

\* What a prune or a sweep at time t drops are tickets that have lapsed.
LEMMA PruningLapses ==
  ASSUME IInv, TicketInv, NEW t \in Time, t <= clock,
         live' = Pruned(live, t), UNCHANGED <<clock, ip, kept, passed>>,
         \A k \in Request : InHand(k)' <=> InHand(k)
  PROVE  Book!Next
<1>0. TypeOK
  BY DEF IInv
<1> DEFINE Drop == {a \in IP : live[a] # NoEntry /\ t > live[a].expires}
           K == {k \in Request : \E a \in Drop : live[a].key = k}
<1>1. \A a \in IP : live'[a] = IF a \in Drop THEN NoEntry ELSE live[a]
  BY DEF Pruned
<1>2. \A k \in K : \E a \in Drop :
        /\ live[a].key = k /\ Minted(k) /\ ip[k] = a /\ ~InHand(k)
        /\ Place[k] = "held" /\ Expiry[k] = live[a].expires
  BY SlotTicket
<1>3. \A k \in Request : Minted(k)' <=> Minted(k)
  BY DEF Minted
<1>4. ASSUME NEW k \in K PROVE Place'[k] = "gone" /\ Expiry'[k] = 0
  <2>1. k \in Request /\ Minted(k) /\ ~InHand(k) /\ ip[k] \in IP /\ live'[ip[k]] = NoEntry
    BY <1>1, <1>2
  <2> QED
    BY <2>1, <1>3, NoEntryIsNone, StoreAssumption DEF Place, Expiry, InHand, Taken
<1>5. ASSUME NEW k \in Request \ K, Minted(k)
      PROVE  live'[ip[k]].key = k <=> live[ip[k]].key = k
  <2>1. ip[k] \in IP
    BY <1>5, MintedIsPlaced
  <2> QED
    BY <1>1, <2>1, NoEntryIsNone, StoreAssumption
<1>6. ASSUME NEW k \in Request \ K, Minted(k), live[ip[k]].key = k
      PROVE  live'[ip[k]].expires = live[ip[k]].expires
  <2>1. ip[k] \in IP
    BY <1>6, MintedIsPlaced
  <2> QED
    BY <1>1, <1>6, <2>1, NoEntryIsNone, StoreAssumption
<1>7. Book!Leave(K, "gone") /\ UNCHANGED <<Owner, MintedAt>>
  <2> HIDE DEF K
  <2>1. K \in SUBSET Request
    BY DEF K
  <2> QED
    BY <1>3, <1>4, <1>5, <1>6, <2>1, SomeLeave
<1>8. K \in SUBSET Book!Lapsed
  <2>1. \A a \in IP : live[a] # NoEntry => live[a].expires \in Nat
    BY <1>0 DEF TypeOK, Entry
  <2>2. t \in Nat /\ clock \in Nat
    BY <1>0 DEF TypeOK, Time
  <2> QED
    BY <1>2, <2>1, <2>2 DEF Book!Lapsed, Book!Held
<1>9. Book!Lapse(K)
  BY <1>7 DEF Book!Lapse
<1> QED
  BY <1>8, <1>9 DEF Book!Next

\* A refusal, a claim and a prune show on the tickets that have lapsed.
LEMMA SweepsLapse ==
  ASSUME IInv, TicketInv, (\E r \in Request : RefuseOrClaim(r)) \/ Prune
  PROVE  [Book!Next]_(Book!vars)
<1>0. TypeOK
  BY DEF IInv
<1>1. CASE Prune
  <2>1. /\ live' = Pruned(live, clock) /\ UNCHANGED <<clock, pc, ip, kept, passed>>
        /\ clock \in Time /\ clock <= clock
    BY <1>0, <1>1 DEF Prune, TypeOK, Time
  <2>2. \A k \in Request : InHand(k)' <=> InHand(k)
    BY <2>1 DEF InHand
  <2> QED
    BY <2>1, <2>2, PruningLapses
<1>2. ASSUME NEW r \in Request, RefuseOrClaim(r) PROVE [Book!Next]_(Book!vars)
  <2>1. /\ live' = AfterSweep(r) /\ UNCHANGED <<clock, ip, now, kept, passed>>
        /\ \A q \in Request : pc'[q] \in Taken <=> pc[q] \in Taken
    BY <1>0, <1>2 DEF RefuseOrClaim, Goto, Taken, TypeOK
  <2>2. \A k \in Request : InHand(k)' <=> InHand(k)
    BY <2>1 DEF InHand
  <2>3. now[r] \in Time /\ now[r] <= clock
    BY <1>0 DEF TypeOK, TicketInv, TimesPast
  <2>4. CASE live' = Pruned(live, now[r])
    BY <2>1, <2>2, <2>3, <2>4, PruningLapses
  <2>5. CASE live' = live
    <3>1. \A k \in Request : Minted(k)' <=> Minted(k)
      BY <2>1 DEF Minted
    <3> QED
      BY <2>1, <2>2, <2>5, <3>1, NothingMoves
  <2> QED
    BY <2>1, <2>4, <2>5 DEF AfterSweep
<1> QED
  BY <1>1, <1>2

\* A challenge that is spent is a ticket taken out.
LEMMA SpendTakes ==
  ASSUME IInv, TicketInv, NEW r \in Request, Spend(r)
  PROVE  [Book!Next]_(Book!vars)
<1>0. TypeOK
  BY DEF IInv
<1>k. PICK k : k = kept[r].key
  OBVIOUS
<1>1. /\ pc[r] = "spend" /\ ip[r] \in IP /\ k \in Request /\ Minted(k) /\ ip[k] = ip[r]
      /\ UNCHANGED <<clock, ip, kept, passed>>
  BY <1>k DEF Spend, IInv, Placed, KeptIsIssued, Issued, Redeeming, Minted
<1>2. \A j \in Request : Minted(j)' <=> Minted(j)
  BY <1>1 DEF Minted
<1>3. CASE ~StillSpendable(r)
  <2>1. live' = live /\ \A q \in Request : pc'[q] \in Taken <=> pc[q] \in Taken
    BY <1>0, <1>1, <1>3 DEF Spend, Goto, Taken, TypeOK
  <2>2. \A j \in Request : InHand(j)' <=> InHand(j)
    BY <1>1, <2>1 DEF InHand
  <2> QED
    BY <1>1, <1>2, <2>1, <2>2, NothingMoves
<1>4. CASE StillSpendable(r)
  <2>1. /\ live' = [live EXCEPT ![ip[r]] = NoEntry] /\ pc' = [pc EXCEPT ![r] = "record"]
        /\ live[ip[r]].key = k /\ live[ip[r]] # NoEntry
    BY <1>k, <1>1, <1>4, NoEntryIsNone, StoreAssumption DEF Spend, Goto, StillSpendable
  <2>2. Place[k] = "held"
    BY <1>1, <2>1, SlotTicket
  <2>3. \A a \in IP : live'[a] = IF a = ip[r] THEN NoEntry ELSE live[a]
    BY <1>0, <2>1 DEF TypeOK
  <2>4. \A q \in Request : pc'[q] \in Taken <=> q = r \/ pc[q] \in Taken
    BY <1>0, <1>1, <2>1 DEF Taken, TypeOK
  <2>5. ASSUME NEW j \in Request \ {k}
        PROVE  /\ Minted(j) => (live'[ip[j]].key = j <=> live[ip[j]].key = j)
               /\ Minted(j) /\ live[ip[j]].key = j => live'[ip[j]].expires = live[ip[j]].expires
               /\ InHand(j)' <=> InHand(j)
    <3>1. InHand(j)' <=> InHand(j)
      BY <1>k, <1>1, <2>4, <2>5 DEF InHand
    <3>2. Minted(j) => ip[j] \in IP
      BY MintedIsPlaced
    <3> QED
      BY <2>1, <2>3, <2>5, <3>1, <3>2, NoEntryIsNone, StoreAssumption
  <2>6. Place'[k] = "taken" /\ Expiry'[k] = 0
    <3>1. kept'[k].key = k /\ live'[ip'[k]].key # k
      BY <1>1, <2>3, NoEntryIsNone, StoreAssumption DEF Minted
    <3>2. pc'[r] \in {"record", "restore"} /\ kept'[r].key = k
      BY <1>0, <1>k, <1>1, <2>1 DEF TypeOK
    <3> QED
      BY <1>1, <3>1, <3>2 DEF Place, Expiry, Minted
  <2>7. {k} \in SUBSET Request /\ \A j \in {k} : Place'[j] = "taken" /\ Expiry'[j] = 0
    BY <1>1, <2>6
  <2>8. Book!Leave({k}, "taken") /\ UNCHANGED <<Owner, MintedAt>>
    BY <1>1, <1>2, <2>5, <2>7, SomeLeave
  <2>9. Book!Take(k)
    BY <1>1, <2>2, <2>8 DEF Book!Take, Book!Held
  <2> QED
    BY <1>1, <2>9 DEF Book!Next
<1> QED
  BY <1>3, <1>4

\* A pass that is recorded, or lost, is that of a ticket that was taken out.
LEMMA RecordPasses ==
  ASSUME IInv, TicketInv, NEW r \in Request, Record(r)
  PROVE  [Book!Next]_(Book!vars)
<1>0. TypeOK
  BY DEF IInv
<1>k. PICK k : k = kept[r].key
  OBVIOUS
<1>1. /\ pc[r] = "record" /\ k \in Request /\ Place[k] = "taken" /\ Minted(k)
      /\ \A q \in Request : pc[q] \in Taken /\ kept[q].key = k => q = r
      /\ \A a \in IP : live[a].key # k
      /\ UNCHANGED <<clock, live, ip, kept>>
  BY <1>k, TakenTicket DEF Record, Taken, store
<1>2. \A j \in Request : Minted(j)' <=> Minted(j)
  BY <1>1 DEF Minted
<1>3. CASE passed' = passed /\ pc' = [pc EXCEPT ![r] = "restore"]
  <2>1. \A q \in Request : pc'[q] \in Taken <=> pc[q] \in Taken
    BY <1>0, <1>1, <1>3 DEF Taken, TypeOK
  <2>2. \A j \in Request : InHand(j)' <=> InHand(j)
    BY <1>1, <2>1 DEF InHand
  <2> QED
    BY <1>1, <1>2, <1>3, <2>2, NothingMoves
<1>4. CASE passed' = [passed EXCEPT ![k] = @ + 1] /\ pc' = [pc EXCEPT ![r] = "done"]
  <2>1. \A q \in Request : pc'[q] \in Taken <=> q # r /\ pc[q] \in Taken
    BY <1>0, <1>4 DEF Taken, TypeOK
  <2>2. \A j \in Request \ {k} : InHand(j)' <=> InHand(j)
    BY <1>k, <1>1, <2>1 DEF InHand
  <2>3. ~InHand(k)'
    BY <1>1, <2>1 DEF InHand
  <2>4. Place'[k] = "gone" /\ Expiry'[k] = 0
    <3>1. Minted(k)' /\ ip'[k] \in IP /\ live'[ip'[k]].key # k
      BY <1>1, <1>2, MintedIsPlaced
    <3> QED
      BY <1>1, <2>3, <3>1 DEF Place, Expiry, InHand, Taken
  <2>5. {k} \in SUBSET Request /\ \A j \in {k} : Place'[j] = "gone" /\ Expiry'[j] = 0
    BY <1>1, <2>4
  <2>6. Book!Leave({k}, "gone") /\ UNCHANGED <<Owner, MintedAt>>
    BY <1>1, <1>2, <2>2, <2>5, SomeLeave
  <2>7. Book!Pass(k)
    BY <1>1, <1>4, <2>6 DEF Book!Pass
  <2> QED
    BY <1>1, <2>7 DEF Book!Next
<1> QED
  BY <1>k, <1>3, <1>4 DEF Record, Goto

\* A challenge that is given back, or is not, is a ticket that was taken out.
LEMMA RestoreGivesBack ==
  ASSUME IInv, TicketInv, NEW r \in Request, Restore(r)
  PROVE  [Book!Next]_(Book!vars)
<1>0. TypeOK
  BY DEF IInv
<1>k. PICK k : k = kept[r].key
  OBVIOUS
<1>1. /\ pc[r] = "restore" /\ k \in Request /\ Place[k] = "taken" /\ Minted(k)
      /\ ip[k] = ip[r] /\ ip[r] \in IP /\ Owner[k] = ip[r] /\ MintedAt[k] = kept[r].created
      /\ \A q \in Request : pc[q] \in Taken /\ kept[q].key = k => q = r
      /\ \A a \in IP : live[a].key # k
      /\ pc' = [pc EXCEPT ![r] = "failed"] /\ UNCHANGED <<clock, ip, kept, passed>>
  BY <1>k, TakenTicket DEF Restore, Taken, Goto
<1>2. \A j \in Request : Minted(j)' <=> Minted(j)
  BY <1>1 DEF Minted
<1>3. \A q \in Request : pc'[q] \in Taken <=> q # r /\ pc[q] \in Taken
  BY <1>0, <1>1 DEF Taken, TypeOK
<1>4. \A j \in Request \ {k} : InHand(j)' <=> InHand(j)
  BY <1>k, <1>1, <1>3 DEF InHand
<1>5. ~InHand(k)'
  BY <1>1, <1>3 DEF InHand
<1>6. CASE live' = live
  <2>1. Place'[k] = "gone" /\ Expiry'[k] = 0
    <3>1. Minted(k)' /\ ip'[k] \in IP /\ live'[ip'[k]].key # k
      BY <1>1, <1>2, <1>6
    <3> QED
      BY <1>1, <1>5, <3>1 DEF Place, Expiry, InHand, Taken
  <2>2. {k} \in SUBSET Request /\ \A j \in {k} : Place'[j] = "gone" /\ Expiry'[j] = 0
    BY <1>1, <2>1
  <2>3. Book!Leave({k}, "gone") /\ UNCHANGED <<Owner, MintedAt>>
    BY <1>1, <1>2, <1>4, <1>6, <2>2, SomeLeave
  <2>4. Book!Lose(k)
    BY <1>1, <2>3 DEF Book!Lose
  <2> QED
    BY <1>1, <2>4 DEF Book!Next
<1>7. CASE live' = [live EXCEPT ![ip[r]] = kept[r]] /\ live[ip[r]] = NoEntry
  <2>1. \A a \in IP : live'[a] = IF a = ip[r] THEN kept[r] ELSE live[a]
    BY <1>0, <1>7 DEF TypeOK
  <2>2. ASSUME NEW j \in Request \ {k}
        PROVE  /\ Minted(j) => (live'[ip[j]].key = j <=> live[ip[j]].key = j)
               /\ Minted(j) /\ live[ip[j]].key = j => live'[ip[j]].expires = live[ip[j]].expires
    <3>1. Minted(j) => ip[j] \in IP
      BY MintedIsPlaced
    <3> QED
      BY <1>k, <1>1, <1>7, <2>1, <2>2, <3>1, NoEntryIsNone, StoreAssumption
  <2>3. {k} \in SUBSET Request
    BY <1>1
  <2>4. /\ Place' = [j \in Request |-> IF j \in {k} THEN Place'[j] ELSE Place[j]]
        /\ Expiry' = [j \in Request |-> IF j \in {k} THEN Expiry'[j] ELSE Expiry[j]]
    BY <1>1, <1>2, <1>4, <2>2, <2>3, OthersStay
  <2>5. Place'[k] = "held" /\ Expiry'[k] = kept[r].expires
    <3>1. kept'[k].key = k /\ ip'[k] = ip[r] /\ live'[ip[r]] = kept[r]
      BY <1>1, <2>1 DEF Minted
    <3> QED
      BY <1>k, <1>1, <3>1 DEF Place, Expiry, Minted
  <2>6. /\ Place' = [Place EXCEPT ![k] = "held"]
        /\ Expiry' = [Expiry EXCEPT ![k] = kept[r].expires]
    BY <1>1, <2>4, <2>5, TicketFunctions
  <2>7. UNCHANGED <<Owner, MintedAt>>
    BY <1>1 DEF Owner, MintedAt, Minted
  <2>8. \A j \in Request : Place[j] = "held" => Owner[j] # Owner[k]
    <3> SUFFICES ASSUME NEW j \in Request, Place[j] = "held" PROVE Owner[j] # Owner[k]
      OBVIOUS
    <3>1. Minted(j) /\ live[ip[j]] # NoEntry
      BY HeldTicket
    <3> QED
      BY <1>1, <1>7, <3>1 DEF Owner
  <2>9. kept[r].expires \in Book!Allowed(k)
    <3>1. kept[r].expires \in Nat
      BY <1>0 DEF TypeOK, Entry, NoEntry
    <3>2. /\ kept[r].expires <= clock + TTL
          /\ kept[r].expires <= kept[r].created + MaxLifetime
      BY <1>1 DEF TicketInv, KeptAllowed, IInv, KeptAgesOut, Redeeming
    <3>3. clock + TTL \in Nat
      BY <1>0, StoreAssumption DEF TypeOK, Time
    <3> QED
      BY <1>1, <3>1, <3>2, <3>3 DEF Book!Allowed
  <2>10. Book!GiveBack(k)
    BY <1>1, <2>6, <2>7, <2>8, <2>9 DEF Book!GiveBack, Book!Held
  <2> QED
    BY <1>1, <2>10 DEF Book!Next
<1> QED
  BY <1>6, <1>7 DEF Restore

\* A challenge that is inserted is a ticket minted, which displaces the one that its
\* address had.
LEMMA InsertMints ==
  ASSUME IInv, TicketInv, NEW r \in Request, Insert(r)
  PROVE  Book!Next
<1>0. TypeOK
  BY DEF IInv
<1>a. PICK a : a = ip[r]
  OBVIOUS
<1>e. PICK e : e = [key |-> r, created |-> now[r], expires |-> now[r] + TTL]
  OBVIOUS
<1>1. /\ pc[r] = "derive" /\ a \in IP /\ kept[r] = NoEntry
      /\ live' = [live EXCEPT ![a] = e] /\ kept' = [kept EXCEPT ![r] = e]
      /\ pc' = [pc EXCEPT ![r] = "unclaim"] /\ UNCHANGED <<clock, ip, now, passed>>
  BY <1>a, <1>e DEF Insert, Goto, IInv, Placed, EmptyHanded, Empty
<1>2. e.key = r /\ e.created = now[r] /\ e.expires = now[r] + TTL
  BY <1>e
<1>3. /\ \A b \in IP : live'[b] = IF b = a THEN e ELSE live[b]
      /\ \A q \in Request : kept'[q] = IF q = r THEN e ELSE kept[q]
      /\ \A q \in Request : pc'[q] \in Taken <=> pc[q] \in Taken
  BY <1>0, <1>1 DEF Taken, TypeOK
<1>4. ~Minted(r) /\ \A j \in Request : Minted(j)' <=> j = r \/ Minted(j)
  BY <1>1, <1>2, <1>3, NoEntryIsNone, StoreAssumption DEF Minted
<1>5. pc[r] \notin Taken /\ \A q \in Request : pc[q] \in Taken => kept[q].key # r
  BY <1>1, <1>4 DEF IInv, KeptIsIssued, Issued, Minted, Taken, Redeeming
<1>6. \A j \in Request : InHand(j)' <=> InHand(j)
  BY <1>3, <1>5 DEF InHand
<1>7. PICK D : D = {j \in Request : Book!Held(j) /\ Owner[j] = a}
  OBVIOUS
<1>8. \A j \in Request : j \in D <=> Minted(j) /\ ip[j] = a /\ live[a].key = j
  <2>1. \A j \in D : Minted(j) /\ ip[j] = a /\ live[a].key = j
    BY <1>7, HeldTicket DEF Owner, Book!Held
  <2>2. \A j \in Request : Minted(j) /\ ip[j] = a /\ live[a].key = j => j \in D
    BY <1>7 DEF Book!Held, Place, Owner
  <2> QED
    BY <2>1, <2>2
<1>9. r \notin D /\ D \subseteq Request
  BY <1>4, <1>7, <1>8
<1>10. ASSUME NEW j \in Request \ (D \cup {r})
       PROVE  /\ Minted(j)' <=> Minted(j)
              /\ Minted(j) => kept'[j] = kept[j] /\ ip'[j] = ip[j]
              /\ Minted(j) => (live'[ip[j]].key = j <=> live[ip[j]].key = j)
              /\ Minted(j) /\ live[ip[j]].key = j => live'[ip[j]].expires = live[ip[j]].expires
              /\ InHand(j)' <=> InHand(j)
  <2>1. Minted(j) => ip[j] \in IP
    BY MintedIsPlaced
  <2>2. Minted(j) => (live'[ip[j]].key = j <=> live[ip[j]].key = j)
    BY <1>2, <1>3, <1>8, <1>10, <2>1
  <2>3. Minted(j) /\ live[ip[j]].key = j => live'[ip[j]].expires = live[ip[j]].expires
    BY <1>3, <1>8, <1>10, <2>1
  <2> QED
    BY <1>1, <1>3, <1>4, <1>6, <1>10, <2>2, <2>3
<1>11. PICK K : K = D \cup {r}
  OBVIOUS
<1>12. /\ Place' = [j \in Request |-> IF j \in K THEN Place'[j] ELSE Place[j]]
       /\ Expiry' = [j \in Request |-> IF j \in K THEN Expiry'[j] ELSE Expiry[j]]
       /\ Owner' = [j \in Request |-> IF j \in K THEN Owner'[j] ELSE Owner[j]]
       /\ MintedAt' = [j \in Request |-> IF j \in K THEN MintedAt'[j] ELSE MintedAt[j]]
  <2>1. K \in SUBSET Request
    BY <1>9, <1>11
  <2>2. \A j \in Request \ K :
          /\ Minted(j)' <=> Minted(j)
          /\ Minted(j) => kept'[j] = kept[j] /\ ip'[j] = ip[j]
          /\ Minted(j) => (live'[ip[j]].key = j <=> live[ip[j]].key = j)
          /\ Minted(j) /\ live[ip[j]].key = j => live'[ip[j]].expires = live[ip[j]].expires
          /\ InHand(j)' <=> InHand(j)
    BY <1>10, <1>11
  <2> QED
    BY <2>1, <2>2, OthersStay
<1>13. /\ Place'[r] = "held" /\ Expiry'[r] = now[r] + TTL
       /\ Owner'[r] = a /\ MintedAt'[r] = now[r]
  <2>1. kept'[r].key = r /\ kept'[r].created = now[r] /\ ip'[r] = a
        /\ live'[a].key = r /\ live'[a].expires = now[r] + TTL
    BY <1>a, <1>1, <1>2, <1>3
  <2> QED
    BY <2>1 DEF Place, Expiry, Owner, MintedAt, Minted
<1>14. \A j \in D : /\ Place'[j] = "gone" /\ Expiry'[j] = 0
                    /\ Owner'[j] = Owner[j] /\ MintedAt'[j] = MintedAt[j]
  <2> SUFFICES ASSUME NEW j \in D
               PROVE  /\ Place'[j] = "gone" /\ Expiry'[j] = 0
                      /\ Owner'[j] = Owner[j] /\ MintedAt'[j] = MintedAt[j]
    OBVIOUS
  <2>1. /\ j \in Request /\ j # r /\ Minted(j) /\ ip[j] = a /\ live[a].key = j
        /\ live[a] # NoEntry
    BY <1>7, <1>8, <1>9, HeldTicket DEF Book!Held
  <2>2. ~InHand(j)
    BY <1>1, <2>1, SlotTicket
  <2>3. kept'[j] = kept[j] /\ kept[j].key = j /\ ip'[j] = a /\ live'[a].key # j /\ ~InHand(j)'
    BY <1>1, <1>2, <1>3, <1>6, <2>1, <2>2 DEF Minted
  <2> QED
    BY <2>1, <2>3 DEF Place, Expiry, Owner, MintedAt, Minted, InHand, Taken
<1>15. Place[r] = "unminted"
  BY <1>4 DEF Place
<1>16. Owner' = [Owner EXCEPT ![r] = a] /\ MintedAt' = [MintedAt EXCEPT ![r] = now[r]]
  BY <1>11, <1>12, <1>13, <1>14, TicketFunctions
<1>17. /\ Place' = [j \in Request |-> IF j = r THEN "held" ELSE IF j \in D THEN "gone" ELSE Place[j]]
       /\ Expiry' = [j \in Request |-> IF j = r THEN now[r] + TTL
                                       ELSE IF j \in D THEN 0 ELSE Expiry[j]]
  BY <1>9, <1>11, <1>12, <1>13, <1>14
<1>18. now[r] \in 0..clock
  BY <1>0 DEF TypeOK, Time, TicketInv, TimesPast
<1>19. Book!Mint(r, a)
  BY <1>1, <1>7, <1>15, <1>16, <1>17, <1>18 DEF Book!Mint
<1> QED
  BY <1>1, <1>19 DEF Book!Next

\* Every step of the store is a step of the tickets, or shows on none.
LEMMA TicketStep == IInv /\ TicketInv /\ [Next]_vars => [Book!Next]_(Book!vars)
<1> SUFFICES ASSUME IInv, TicketInv, [Next]_vars PROVE [Book!Next]_(Book!vars)
  OBVIOUS
<1>1. CASE UNCHANGED vars
  <2>1. \A k \in Request : (Minted(k)' <=> Minted(k)) /\ (InHand(k)' <=> InHand(k))
    BY <1>1 DEF vars, Minted, InHand
  <2> QED
    BY <1>1, <2>1, NothingMoves DEF vars
<1>2. CASE Tick
  <2>1. /\ clock' = clock + 1 /\ UNCHANGED <<live, pc, ip, kept, passed>>
    BY <1>2 DEF Tick, store
  <2>2. UNCHANGED <<Place, Owner, MintedAt, Expiry, passed>>
    BY <2>1 DEF Place, Owner, MintedAt, Expiry, Minted
  <2>3. Book!Tick
    BY <2>1, <2>2 DEF Book!Tick
  <2> QED
    BY <2>3 DEF Book!Next
<1>3. CASE Prune
  BY <1>3, SweepsLapse
<1>4. ASSUME NEW r \in Request,
             \/ \E a \in IP : ArriveToFetch(r, a)
             \/ \E a \in IP, k \in Request \cup {None} : ArriveToSolve(r, a, k)
             \/ GiveUp(r) \/ Serve(r)
      PROVE  [Book!Next]_(Book!vars)
  <2>1. CASE HandBack(r)
    BY <2>1, HandBackExtends
  <2>2. CASE RefuseOrClaim(r)
    BY <2>2, SweepsLapse
  <2>3. CASE Insert(r)
    BY <2>3, InsertMints
  <2>4. CASE Spend(r)
    BY <2>4, SpendTakes
  <2>5. CASE Record(r)
    BY <2>5, RecordPasses
  <2>6. CASE Restore(r)
    BY <2>6, RestoreGivesBack
  <2> QED
    BY <1>4, <2>1, <2>2, <2>3, <2>4, <2>5, <2>6, QuietSteps DEF Serve
<1> QED
  BY <1>1, <1>2, <1>3, <1>4 DEF Next

\* The times and the mints that the refinement rests on are as they should be throughout.
THEOREM TicketInvariance == Spec => []TicketInv
<1>1. Init => TicketInv
  BY StoreAssumption DEF Init, TicketInv, TimesPast, LiveAsMinted, KeptAsMinted, LiveAllowed,
                         KeptAllowed, Redeeming
<1> QED
  BY <1>1, StoreInvariance, TicketInvStep, PTL DEF Spec

\* The store implements Tickets: whatever the requests do to one another, a challenge is
\* minted once, displaces the one its address had, is given more time but never less,
\* lapses no earlier than it may, and buys a pass once it has been taken out, or goes back
\* or is lost (challengeFor, redeem, restore, prune).
THEOREM TicketsRefined == Spec => TicketSpec
<1>1. Init => Book!Init
  <2> SUFFICES ASSUME Init PROVE Book!Init
    OBVIOUS
  <2>1. \A k \in Request : ~Minted(k)
    BY NoEntryIsNone, StoreAssumption DEF Init, Minted
  <2>2. /\ Place = [k \in Request |-> "unminted"] /\ Owner = [k \in Request |-> None]
        /\ MintedAt = [k \in Request |-> 0] /\ Expiry = [k \in Request |-> 0]
    BY <2>1 DEF Place, Owner, MintedAt, Expiry
  <2> QED
    BY <2>2 DEF Init, Book!Init
<1> QED
  BY <1>1, StoreInvariance, TicketInvariance, TicketStep, PTL
     DEF Spec, TicketSpec, Book!Spec

-------------------------------------------------------------------------------
(* What may end a challenge that can still be solved *)

\* What is current now is kept by a sweep or a prune at a time that has been.
LEMMA CurrentSurvives ==
  ASSUME TypeOK, NEW a \in IP, Current(live[a], clock), NEW t \in Time, t <= clock
  PROVE  Pruned(live, t)[a] = live[a]
BY DEF Current, Pruned, TypeOK, Entry, Time

\* What EndsRightly asks of a step.
StepEndsRightly ==
  \A a \in IP : Current(live[a], clock) =>
    \/ live'[a].key = live[a].key
    \/ \E r \in Request : Spend(r) /\ ip[r] = a /\ kept[r].key = live[a].key
    \/ \E r \in Request : Insert(r) /\ minting[a] = r

\* A challenge that can still be solved ends when it is spent by a request that took a copy
\* of it, or by the insertion of the one with the claim of its address, whatever else
\* requests and the poll loop do (challengeFor, redeem, restore, prune).
THEOREM EndedBySpendOrClaim == Spec => EndsRightly
<1> DEFINE Kept(a) == \/ live'[a].key = live[a].key
                      \/ \E r \in Request : Spend(r) /\ ip[r] = a /\ kept[r].key = live[a].key
                      \/ \E r \in Request : Insert(r) /\ minting[a] = r
<1>1. ASSUME IInv, TicketInv, Next,
             NEW a \in IP, Current(live[a], clock)
      PROVE  Kept(a)
  <2>0. TypeOK /\ Placed /\ ClaimsHeld
    BY <1>1 DEF IInv
  <2>1. ASSUME NEW r \in Request,
               \/ \E b \in IP : ArriveToFetch(r, b)
               \/ \E b \in IP, k \in Request \cup {None} : ArriveToSolve(r, b, k)
               \/ GiveUp(r) \/ TakeToken(r) \/ WaitForMint(r) \/ DeriveFails(r) \/ Unclaim(r)
               \/ RedeemRead(r) \/ Record(r)
        PROVE  Kept(a)
    BY <2>1 DEF ArriveToFetch, ArriveToSolve, GiveUp, TakeToken, WaitForMint, DeriveFails,
                Unclaim, RedeemRead, Record, store
  <2>2. ASSUME NEW r \in Request, HandBack(r) PROVE Kept(a)
    <3>1. ip[r] \in IP /\ live[ip[r]] \in Entry
      BY <2>0, <2>2 DEF HandBack, Current, Placed, TypeOK
    <3>2. Extended(live[ip[r]], now[r]).key = live[ip[r]].key
      BY <3>1 DEF Extended, Entry
    <3> QED
      BY <2>0, <2>2, <3>1, <3>2 DEF HandBack, TypeOK
  <2>3. ASSUME NEW r \in Request, RefuseOrClaim(r) PROVE Kept(a)
    <3>1. now[r] \in Time /\ now[r] <= clock
      BY <1>1, <2>0 DEF TypeOK, TicketInv, TimesPast
    <3>2. live' = live \/ live' = Pruned(live, now[r])
      BY <2>3 DEF RefuseOrClaim, AfterSweep
    <3> QED
      BY <1>1, <2>0, <3>1, <3>2, CurrentSurvives
  <2>4. ASSUME NEW r \in Request, Insert(r) PROVE Kept(a)
    BY <2>0, <2>4 DEF Insert, ClaimsHeld, Placed, TypeOK
  <2>5. ASSUME NEW r \in Request, Spend(r) PROVE Kept(a)
    BY <2>0, <2>5 DEF Spend, StillSpendable, Placed, TypeOK
  <2>6. ASSUME NEW r \in Request, Restore(r) PROVE Kept(a)
    BY <1>1, <2>0, <2>6 DEF Restore, Current, Placed, TypeOK
  <2>7. CASE Prune
    <3>1. clock \in Time /\ clock <= clock
      BY <2>0 DEF TypeOK, Time
    <3> QED
      BY <1>1, <2>0, <2>7, <3>1, CurrentSurvives DEF Prune
  <2>8. CASE Tick
    BY <2>8 DEF Tick, store
  <2> HIDE DEF Kept
  <2> QED
    BY <1>1, <2>1, <2>2, <2>3, <2>4, <2>5, <2>6, <2>7, <2>8 DEF Next, Serve
<1>2. IInv /\ TicketInv /\ [Next]_vars => [StepEndsRightly]_vars
  BY <1>1 DEF StepEndsRightly
<1> QED
  BY <1>2, StoreInvariance, TicketInvariance, PTL DEF Spec, EndsRightly, StepEndsRightly
==============================================================================
