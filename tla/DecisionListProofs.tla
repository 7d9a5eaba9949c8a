-------------------------- MODULE DecisionListProofs --------------------------
(***************************************************************************)
(* Proofs about DecisionList, for every set of addresses, ids, maps and    *)
(* values and every threshold: type correctness, exact reference counts,   *)
(* one map per decision, the rendered slice in step with the counts, and   *)
(* that the list implements BlockList.                                     *)
(***************************************************************************)
EXTENDS DecisionList, FiniteSetTheorems, TLAPS

-------------------------------------------------------------------------------
(* One map *)

\* The reference counts c of one map are exact for its decisions f.
ExactIn(f, c) ==
  \A ip \in IP : c[ip] = Cardinality({j \in DecisionId : ip \in f[j]})

\* A set of ids that is finite has a natural cardinality, zero only if empty.
LEMMA IdSetCardinality ==
  ASSUME NEW S \in SUBSET DecisionId
  PROVE  /\ IsFiniteSet(S)
         /\ Cardinality(S) \in Nat
         /\ Cardinality(S) = 0 <=> S = {}
  BY ConstantAssumption, FS_Subset, FS_CardinalityType, FS_EmptySet

\* Replacing what decision i contributes keeps the counts of a map exact
\* (unref of the old addresses, ref of the new ones).
LEMMA RecountIsExact ==
  ASSUME NEW f \in [DecisionId -> SUBSET IP],
         NEW c \in [IP -> Nat],
         NEW i \in DecisionId,
         NEW new \in SUBSET IP,
         ExactIn(f, c)
  PROVE  /\ Recount(c, f[i], new) \in [IP -> Nat]
         /\ ExactIn([f EXCEPT ![i] = new], Recount(c, f[i], new))
<1> DEFINE g == [f EXCEPT ![i] = new]
           H(ip) == {j \in DecisionId : ip \in f[j]}
           K(ip) == {j \in DecisionId : ip \in g[j]}
<1>1. Recount(c, f[i], new) \in [IP -> Nat]
  BY DEF Recount, Ref, Unref
<1>2. ASSUME NEW ip \in IP
      PROVE  Recount(c, f[i], new)[ip] = Cardinality(K(ip))
  <2> DEFINE Rest == H(ip) \ {i}
  <2>1. IsFiniteSet(H(ip)) /\ Cardinality(H(ip)) \in Nat /\ c[ip] = Cardinality(H(ip))
    BY IdSetCardinality DEF ExactIn
  <2>2. Cardinality(Rest) = IF i \in H(ip) THEN c[ip] - 1 ELSE c[ip]
    <3> HIDE DEF H
    <3> QED  BY <2>1, FS_RemoveElement
  <2>3. IsFiniteSet(Rest) /\ Cardinality(Rest) \in Nat
    BY <2>1, IdSetCardinality
  <2>4. i \in H(ip) <=> ip \in f[i]
    OBVIOUS
  <2>5. Unref(c, f[i])[ip] = Cardinality(Rest)
    <3>1. CASE ip \in f[i]
      <4>1. c[ip] \in Nat /\ Cardinality(Rest) = c[ip] - 1
        BY <2>2, <2>4, <3>1
      <4>2. Unref(c, f[i])[ip] = IF c[ip] <= 1 THEN 0 ELSE c[ip] - 1
        BY <3>1 DEF Unref
      <4> HIDE DEF Rest
      <4> QED  BY <4>1, <4>2, <2>3
    <3>2. CASE ip \notin f[i]
      BY <2>2, <2>4, <3>2 DEF Unref
    <3> QED  BY <3>1, <3>2
  <2>6. K(ip) = IF ip \in new THEN Rest \cup {i} ELSE Rest
    OBVIOUS
  <2>7. Cardinality(Rest \cup {i}) = Cardinality(Rest) + 1
    <3>1. i \notin Rest
      OBVIOUS
    <3> HIDE DEF Rest
    <3> QED  BY <2>3, <3>1, FS_AddElement
  <2>8. CASE f[i] = new
    <3>1. K(ip) = H(ip)
      BY <2>8
    <3> QED  BY <2>1, <2>8, <3>1 DEF Recount
  <2>9. CASE f[i] # new
    <3>1. Recount(c, f[i], new)[ip] = IF ip \in new THEN Unref(c, f[i])[ip] + 1
                                      ELSE Unref(c, f[i])[ip]
      BY <2>9 DEF Recount, Ref, Unref
    <3> HIDE DEF K, Rest
    <3> QED  BY <2>5, <2>6, <2>7, <3>1
  <2> QED  BY <2>8, <2>9
<1> QED  BY <1>1, <1>2 DEF ExactIn

\* What a touched set t tells of a list s that was rendered before the delta
\* and of the counts c reached since: an IP that has not moved is where it
\* was, and one that has is recorded where it was.
Tracks(t, s, c) ==
  \A ip \in IP :
    /\ t[ip] = "unseen" => (ip \in s <=> c[ip] > 0)
    /\ t[ip] = "present" => ip \in s
    /\ t[ip] = "absent" => ip \notin s

\* note keeps the touched set telling the truth as counts change, as long as
\* a contribution that is let go was counted.
LEMMA RetouchTracks ==
  ASSUME NEW t \in [IP -> Presence],
         NEW s \in SUBSET IP,
         NEW c \in [IP -> Nat],
         NEW old \in SUBSET IP,
         NEW new \in SUBSET IP,
         \A ip \in old : c[ip] > 0,
         Tracks(t, s, c)
  PROVE  /\ Retouch(t, c, old, new) \in [IP -> Presence]
         /\ Tracks(Retouch(t, c, old, new), s, Recount(c, old, new))
<1>1. CASE old = new
  BY <1>1 DEF Retouch, Recount
<1>2. CASE old # new
  <2> DEFINE u == Unref(c, old)
             t1 == Note(t, Leaving(c, old), "present")
             t2 == Note(t1, Entering(u, new), "absent")
  <2>1. u \in [IP -> Nat]
    BY DEF Unref
  <2>2. t1 \in [IP -> Presence] /\ Tracks(t1, s, u)
    BY ConstantAssumption, SMTT(20) DEF Note, Leaving, Unref, Tracks, Presence
  <2>3. t2 \in [IP -> Presence] /\ Tracks(t2, s, Ref(u, new))
    <3> HIDE DEF u, t1
    <3> QED  BY <2>1, <2>2, ConstantAssumption, SMTT(20)
             DEF Note, Entering, Ref, Tracks, Presence
  <2> QED  BY <1>2, <2>3 DEF Retouch, Recount
<1> QED  BY <1>1, <1>2

\* Exact counts list exactly the addresses some decision covers.
LEMMA ListedIsUnion ==
  ASSUME NEW f \in [DecisionId -> SUBSET IP], NEW c \in [IP -> Nat], ExactIn(f, c)
  PROVE  Listed(c) = UNION {f[i] : i \in DecisionId}
<1>1. ASSUME NEW ip \in IP
      PROVE  c[ip] > 0 <=> \E i \in DecisionId : ip \in f[i]
  <2> DEFINE H == {j \in DecisionId : ip \in f[j]}
  <2>1. c[ip] = Cardinality(H) /\ c[ip] \in Nat /\ (Cardinality(H) = 0 <=> H = {})
    BY IdSetCardinality DEF ExactIn
  <2>2. c[ip] > 0 <=> H # {}
    BY <2>1
  <2> QED  BY <2>2
<1> QED  BY <1>1 DEF Listed

-------------------------------------------------------------------------------
(* The whole list *)

\* The rendered slice, in every phase: in step with the counts when the lock
\* is free, with the displaced counts while a snapshot is applied, and
\* related to the counts by the touched sets while a delta is.
SliceTracks ==
  \A r \in Remediation :
    /\ phase = "idle" => sortedIPs[r] = Listed(refcount[r])
    /\ phase = "full" => sortedIPs[r] = Listed(before.refcount[r])
    /\ phase \in {"deleting", "adding"} => Tracks(touched[r], sortedIPs[r], refcount[r])

OneMap(held) ==
  \A i \in DecisionId, q, r \in Remediation :
    held[q][i] # {} /\ held[r][i] # {} => q = r

\* What a refused snapshot would restore is as good as what is held.
StashSound ==
  /\ Exact(before.decisionIPs, before.refcount)
  /\ OneMap(before.decisionIPs)
  /\ phase # "full" => before = NotStashed

\* The outcome of the last snapshot is what the shrink counter remembers.
ShrinkIsOutcome == accepted <=> pendingShrink = 0

\* The inductive invariant.
IInv ==
  /\ TypeOK
  /\ RefcountExact
  /\ OneMapPerDecision
  /\ StashSound
  /\ SliceTracks
  /\ ShrinkIsOutcome

\* Exactness of all the maps is exactness of each.
LEMMA ExactByMap ==
  ASSUME NEW h \in HeldMap, NEW c \in CountMap
  PROVE  Exact(h, c) <=> \A r \in Remediation : ExactIn(h[r], c[r])
  BY DEF Exact, ExactIn, Holders, HeldMap, CountMap

\* Nothing held is exactly counted by nothing.
LEMMA NothingIsExact ==
  /\ NoDecisions \in HeldMap /\ NoCounts \in CountMap
  /\ Exact(NoDecisions, NoCounts) /\ OneMap(NoDecisions)
<1>1. \A r \in Remediation, ip \in IP : Holders(NoDecisions, r, ip) = {}
  BY DEF Holders, NoDecisions
<1>2. Exact(NoDecisions, NoCounts)
  BY <1>1, FS_EmptySet DEF Exact, NoCounts
<1>3. NoDecisions \in HeldMap /\ NoCounts \in CountMap /\ OneMap(NoDecisions)
  BY DEF NoDecisions, NoCounts, HeldMap, CountMap, OneMap
<1> QED  BY <1>2, <1>3

\* Setting what one decision contributes, to at most one map, preserves
\* everything an apply relies on (forget, add, remove).
LEMMA SetContributionSound ==
  ASSUME IInv,
         phase # "idle",
         NEW i \in DecisionId,
         NEW new \in [Remediation -> SUBSET IP],
         \A q, r \in Remediation : new[q] # {} /\ new[r] # {} => q = r,
         SetContribution(i, new)
  PROVE  /\ decisionIPs' \in HeldMap
         /\ refcount' \in CountMap
         /\ touched' \in [Remediation -> [IP -> Presence] \cup {Nil}]
         /\ \A r \in Remediation : touched'[r] = Nil <=> touched[r] = Nil
         /\ RefcountExact'
         /\ OneMapPerDecision'
         /\ phase \in {"deleting", "adding"} =>
              \A r \in Remediation : Tracks(touched'[r], sortedIPs[r], refcount'[r])
<1> USE DEF IInv
<1>1. decisionIPs' \in HeldMap
  BY DEF TypeOK, HeldMap, SetContribution
<1>2. ASSUME NEW r \in Remediation
      PROVE  /\ decisionIPs[r] \in [DecisionId -> SUBSET IP]
             /\ refcount[r] \in [IP -> Nat]
             /\ ExactIn(decisionIPs[r], refcount[r])
             /\ decisionIPs'[r] = [decisionIPs[r] EXCEPT ![i] = new[r]]
             /\ refcount'[r] = Recount(refcount[r], decisionIPs[r][i], new[r])
             /\ touched'[r] = Retouch(touched[r], refcount[r], decisionIPs[r][i], new[r])
  BY ExactByMap DEF TypeOK, HeldMap, CountMap, SetContribution, RefcountExact
<1>3. ASSUME NEW r \in Remediation
      PROVE  /\ refcount'[r] \in [IP -> Nat]
             /\ ExactIn(decisionIPs'[r], refcount'[r])
  <2>1. /\ Recount(refcount[r], decisionIPs[r][i], new[r]) \in [IP -> Nat]
        /\ ExactIn([decisionIPs[r] EXCEPT ![i] = new[r]],
                   Recount(refcount[r], decisionIPs[r][i], new[r]))
    <3>1. new[r] \in SUBSET IP
      OBVIOUS
    <3> HIDE DEF IInv
    <3> QED  BY <1>2, <3>1, RecountIsExact
  <2> QED  BY <1>2, <2>1
<1>4. refcount' \in CountMap
  <2>1. refcount' = [r \in Remediation |-> refcount'[r]]
    BY DEF SetContribution
  <2> QED  BY <1>3, <2>1 DEF CountMap
<1>5. RefcountExact'
  BY <1>1, <1>3, <1>4, ExactByMap DEF RefcountExact
<1>6. OneMapPerDecision'
  <2> SUFFICES ASSUME NEW j \in DecisionId, NEW q \in Remediation,
                      NEW r \in Remediation,
                      decisionIPs'[q][j] # {}, decisionIPs'[r][j] # {}
               PROVE  q = r
    BY DEF OneMapPerDecision
  <2>1. \A m \in Remediation :
          decisionIPs'[m][j] = IF j = i THEN new[m] ELSE decisionIPs[m][j]
    <3> SUFFICES ASSUME NEW m \in Remediation
                 PROVE  decisionIPs'[m][j] = IF j = i THEN new[m] ELSE decisionIPs[m][j]
      OBVIOUS
    <3>1. /\ decisionIPs[m] \in [DecisionId -> SUBSET IP]
          /\ decisionIPs'[m] = [decisionIPs[m] EXCEPT ![i] = new[m]]
      BY <1>2
    <3> HIDE DEF IInv
    <3> QED  BY <3>1
  <2> QED  BY <2>1 DEF OneMapPerDecision
<1>7. ASSUME NEW r \in Remediation, touched[r] # Nil
      PROVE  /\ touched'[r] \in [IP -> Presence]
             /\ Tracks(touched'[r], sortedIPs[r], refcount'[r])
  <2>1. touched[r] \in [IP -> Presence] /\ phase \in {"deleting", "adding"}
    BY <1>7 DEF TypeOK
  <2>2. Tracks(touched[r], sortedIPs[r], refcount[r])
    BY <2>1 DEF SliceTracks
  <2>3. \A ip \in decisionIPs[r][i] : refcount[r][ip] > 0
    <3> SUFFICES ASSUME NEW ip \in decisionIPs[r][i] PROVE refcount[r][ip] > 0
      OBVIOUS
    <3>1. Listed(refcount[r]) = UNION {decisionIPs[r][j] : j \in DecisionId}
      BY <1>2, ListedIsUnion
    <3> QED  BY <3>1 DEF Listed
  <2>4. sortedIPs[r] \in SUBSET IP /\ decisionIPs[r][i] \in SUBSET IP
    BY <1>2 DEF TypeOK
  <2>5. /\ refcount[r] \in [IP -> Nat] /\ new[r] \in SUBSET IP
        /\ refcount'[r] = Recount(refcount[r], decisionIPs[r][i], new[r])
        /\ touched'[r] = Retouch(touched[r], refcount[r], decisionIPs[r][i], new[r])
    BY <1>2
  <2> HIDE DEF IInv
  <2>6. LET t2 == Retouch(touched[r], refcount[r], decisionIPs[r][i], new[r])
        IN  /\ t2 \in [IP -> Presence]
            /\ Tracks(t2, sortedIPs[r], Recount(refcount[r], decisionIPs[r][i], new[r]))
    BY <2>1, <2>2, <2>3, <2>4, <2>5, RetouchTracks, Zenon
  <2> QED  BY <2>5, <2>6
<1>8. ASSUME NEW r \in Remediation, touched[r] = Nil
      PROVE  touched'[r] = Nil
  BY <1>2, <1>8 DEF Retouch, Note
<1>9. /\ touched' \in [Remediation -> [IP -> Presence] \cup {Nil}]
      /\ \A r \in Remediation : touched'[r] = Nil <=> touched[r] = Nil
  <2>1. touched' = [r \in Remediation |-> touched'[r]]
    BY DEF SetContribution
  <2> QED  BY <1>7, <1>8, <2>1, ConstantAssumption
<1>10. phase \in {"deleting", "adding"} =>
         \A r \in Remediation : Tracks(touched'[r], sortedIPs[r], refcount'[r])
  BY <1>7 DEF TypeOK
<1> QED  BY <1>1, <1>4, <1>5, <1>6, <1>9, <1>10

\* What a decision contributes goes to one map at most.
LEMMA ContributionIsToOneMap ==
  ASSUME NEW d \in Decision
  PROVE  LET new == [r \in Remediation |-> Contribution(r, d)]
         IN  /\ new \in [Remediation -> SUBSET IP]
             /\ \A q, r \in Remediation : new[q] # {} /\ new[r] # {} => q = r
  BY ConstantAssumption DEF Contribution, Decision

\* After settle the slice is in step with the counts, spliced or rebuilt.
LEMMA SettledIsListed ==
  ASSUME IInv, phase \in {"deleting", "adding"}, NEW r \in Remediation
  PROVE  /\ Settled(r) = Listed(refcount[r])
         /\ Arrived(r) = Listed(refcount[r]) \ sortedIPs[r]
         /\ Departed(r) = sortedIPs[r] \ Listed(refcount[r])
<1>1. /\ touched[r] \in [IP -> Presence]
      /\ sortedIPs[r] \in SUBSET IP
      /\ refcount[r] \in [IP -> Nat]
      /\ Tracks(touched[r], sortedIPs[r], refcount[r])
  BY DEF IInv, TypeOK, CountMap, SliceTracks
<1>2. /\ Arrived(r) = Listed(refcount[r]) \ sortedIPs[r]
      /\ Departed(r) = sortedIPs[r] \ Listed(refcount[r])
  BY <1>1 DEF Tracks, Arrived, Departed, Listed, Presence
<1> QED  BY <1>1, <1>2 DEF Settled

-------------------------------------------------------------------------------
(* The inductive invariant *)

\* The initial states satisfy the invariant.
LEMMA InitIInv == Init => IInv
<1> SUFFICES ASSUME Init PROVE IInv
  OBVIOUS
<1> USE DEF Init
<1>1. TypeOK
  BY NothingIsExact, ConstantAssumption DEF TypeOK, NotStashed, NoChange
<1>2. RefcountExact /\ OneMapPerDecision /\ StashSound
  BY NothingIsExact
     DEF RefcountExact, OneMapPerDecision, StashSound, NotStashed, OneMap
<1>3. SliceTracks
  BY DEF SliceTracks, Listed, NoCounts
<1>4. ShrinkIsOutcome
  BY DEF ShrinkIsOutcome
<1> QED  BY <1>1, <1>2, <1>3, <1>4 DEF IInv

\* Every step keeps the invariant.
LEMMA NextIInv == IInv /\ [Next]_vars => IInv'
<1> SUFFICES ASSUME IInv, [Next]_vars PROVE IInv'
  OBVIOUS
<1>0. ShrinkIsOutcome'
  <2>1. ShrinkIsOutcome /\ pendingShrink \in {0, 1}
    BY DEF IInv, TypeOK
  <2>2. \/ UNCHANGED <<accepted, pendingShrink>>
        \/ accepted' = TRUE /\ pendingShrink' = 0
        \/ accepted' = FALSE /\ pendingShrink' = pendingShrink + 1
    BY DEF Next, vars, BeginDelta, Remove, AddToDelta, AddToFull, Add, EndDelta,
           BeginFull, KeepFull, RefuseFull
  <2>3. CASE UNCHANGED <<accepted, pendingShrink>>
    BY <2>1, <2>3 DEF ShrinkIsOutcome
  <2>4. CASE accepted' = TRUE /\ pendingShrink' = 0
    BY <2>4 DEF ShrinkIsOutcome
  <2>5. CASE accepted' = FALSE /\ pendingShrink' = pendingShrink + 1
    <3>1. pendingShrink' # 0
      BY <2>1, <2>5
    <3> QED  BY <2>5, <3>1 DEF ShrinkIsOutcome
  <2> QED  BY <2>2, <2>3, <2>4, <2>5
<1>1. CASE BeginDelta
  <2>1. TypeOK'
    BY <1>1, ConstantAssumption DEF IInv, BeginDelta, TypeOK, NoChange, Presence
  <2>2. SliceTracks'
    <3>1. \A r \in Remediation : sortedIPs[r] = Listed(refcount[r])
      BY <1>1 DEF IInv, SliceTracks, BeginDelta
    <3>2. \A r \in Remediation : Tracks(touched'[r], sortedIPs[r], refcount[r])
      BY <1>1, <3>1 DEF BeginDelta, Tracks, Listed
    <3> QED  BY <1>1, <3>2 DEF SliceTracks, BeginDelta
  <2>3. RefcountExact' /\ OneMapPerDecision' /\ StashSound'
    BY <1>1 DEF IInv, BeginDelta, RefcountExact, OneMapPerDecision, StashSound
  <2> QED  BY <1>0, <2>1, <2>2, <2>3 DEF IInv
<1>2. ASSUME NEW i \in DecisionId, Remove(i) PROVE IInv'
  <2> DEFINE new == [r \in Remediation |-> {}]
  <2>1. /\ phase = "deleting" /\ SetContribution(i, new)
        /\ UNCHANGED <<phase, sortedIPs, before, pendingShrink, skippedRanges,
                       accepted, report>>
    BY <1>2 DEF Remove
  <2>2. /\ new \in [Remediation -> SUBSET IP]
        /\ \A q, r \in Remediation : new[q] # {} /\ new[r] # {} => q = r
    OBVIOUS
  <2> HIDE DEF new
  <2>3. /\ decisionIPs' \in HeldMap
        /\ refcount' \in CountMap
        /\ touched' \in [Remediation -> [IP -> Presence] \cup {Nil}]
        /\ \A r \in Remediation : touched'[r] = Nil <=> touched[r] = Nil
        /\ RefcountExact'
        /\ OneMapPerDecision'
        /\ \A r \in Remediation : Tracks(touched'[r], sortedIPs[r], refcount'[r])
    BY <2>1, <2>2, SetContributionSound
  <2>4. TypeOK'
    BY <2>1, <2>3 DEF IInv, TypeOK
  <2>5. StashSound' /\ SliceTracks'
    BY <2>1, <2>3 DEF IInv, StashSound, SliceTracks
  <2> QED  BY <1>0, <2>3, <2>4, <2>5 DEF IInv
<1>3. ASSUME NEW d \in Decision, AddToDelta(d) \/ AddToFull(d) PROVE IInv'
  <2> DEFINE new == [r \in Remediation |-> Contribution(r, d)]
  <2>1. /\ phase \in {"deleting", "adding", "full"} /\ SetContribution(d.id, new)
        /\ phase \in {"deleting", "adding"} => phase' = "adding"
        /\ phase = "full" => phase' = "full"
        /\ skippedRanges' \in {skippedRanges, skippedRanges + 1}
        /\ skippedRanges' # skippedRanges => skippedRanges < MaxSkipped
        /\ UNCHANGED <<sortedIPs, before, pendingShrink, accepted, report>>
    BY <1>3 DEF AddToDelta, AddToFull, Add
  <2>2. /\ new \in [Remediation -> SUBSET IP]
        /\ \A q, r \in Remediation : new[q] # {} /\ new[r] # {} => q = r
    BY ContributionIsToOneMap
  <2>3. d.id \in DecisionId
    BY DEF Decision
  <2> HIDE DEF new
  <2>4. /\ decisionIPs' \in HeldMap
        /\ refcount' \in CountMap
        /\ touched' \in [Remediation -> [IP -> Presence] \cup {Nil}]
        /\ \A r \in Remediation : touched'[r] = Nil <=> touched[r] = Nil
        /\ RefcountExact'
        /\ OneMapPerDecision'
        /\ phase \in {"deleting", "adding"} =>
             \A r \in Remediation : Tracks(touched'[r], sortedIPs[r], refcount'[r])
    BY <2>1, <2>2, <2>3, SetContributionSound
  <2>5. skippedRanges' \in 0..MaxSkipped
    BY <2>1, ConstantAssumption DEF IInv, TypeOK
  <2>6. TypeOK'
    BY <2>1, <2>4, <2>5 DEF IInv, TypeOK
  <2>7. StashSound' /\ SliceTracks'
    BY <2>1, <2>4 DEF IInv, StashSound, SliceTracks
  <2> QED  BY <1>0, <2>4, <2>6, <2>7 DEF IInv
<1>4. CASE EndDelta
  <2>1. /\ phase' = "idle" /\ phase \in {"deleting", "adding"}
        /\ sortedIPs' = [r \in Remediation |-> Listed(refcount[r])]
        /\ touched' = [r \in Remediation |-> Nil]
        /\ UNCHANGED <<decisionIPs, refcount, before, pendingShrink,
                       skippedRanges, accepted>>
    BY <1>4, SettledIsListed DEF EndDelta, NoTouched
  <2>2. report' \in [added : Nat, removed : Nat]
    <3>1. \A r \in Remediation : Arrived(r) \subseteq IP /\ Departed(r) \subseteq IP
      BY DEF Arrived, Departed
    <3>2. \A S \in SUBSET (Remediation \X IP) : Cardinality(S) \in Nat
      BY ConstantAssumption, FS_Product, FS_Subset, FS_CardinalityType
    <3> QED  BY <1>4, <3>1, <3>2 DEF EndDelta
  <2>3. TypeOK'
    BY <2>1, <2>2 DEF IInv, TypeOK, Listed
  <2>4. SliceTracks'
    BY <2>1 DEF SliceTracks
  <2>5. RefcountExact' /\ OneMapPerDecision' /\ StashSound'
    BY <2>1 DEF IInv, RefcountExact, OneMapPerDecision, StashSound
  <2> QED  BY <1>0, <2>3, <2>4, <2>5 DEF IInv
<1>5. CASE BeginFull
  <2>1. TypeOK'
    BY <1>5, NothingIsExact, ConstantAssumption DEF IInv, BeginFull, TypeOK, NoChange
  <2>2. RefcountExact' /\ OneMapPerDecision'
    BY <1>5, NothingIsExact
       DEF BeginFull, RefcountExact, OneMapPerDecision, OneMap
  <2>3. StashSound' /\ SliceTracks'
    BY <1>5 DEF IInv, BeginFull, StashSound, SliceTracks, RefcountExact,
                OneMapPerDecision, OneMap
  <2> QED  BY <1>0, <2>1, <2>2, <2>3 DEF IInv
<1>6. CASE KeepFull \/ RefuseFull
  <2>1. report' \in [added : Nat, removed : Nat]
    <3>1. \A S \in SUBSET (Remediation \X IP) : Cardinality(S) \in Nat
      BY ConstantAssumption, FS_Product, FS_Subset, FS_CardinalityType
    <3> QED  BY <1>6, <3>1 DEF KeepFull, RefuseFull, Diff, Entries
  <2>2. NotStashed \in [decisionIPs : HeldMap, refcount : CountMap,
                         skippedRanges : 0..MaxSkipped]
    BY NothingIsExact, ConstantAssumption DEF NotStashed
  <2>3. CASE KeepFull
    <3>1. TypeOK'
      BY <2>1, <2>2, <2>3 DEF IInv, KeepFull, TypeOK, Listed
    <3>2. RefcountExact' /\ OneMapPerDecision' /\ StashSound' /\ SliceTracks'
      BY <2>3, NothingIsExact
         DEF IInv, KeepFull, RefcountExact, OneMapPerDecision, StashSound,
             SliceTracks, NotStashed, OneMap
    <3> QED  BY <3>1, <3>2, <1>0 DEF IInv
  <2>4. CASE RefuseFull
    <3>1. pendingShrink' \in {0, 1}
      BY <2>4 DEF IInv, RefuseFull, Refused, RefusesSnapshot, TypeOK
    <3>2. TypeOK'
      BY <2>1, <2>2, <2>4, <3>1 DEF IInv, RefuseFull, RestoredSlice, TypeOK, Listed
    <3>3. RefcountExact' /\ OneMapPerDecision' /\ StashSound' /\ SliceTracks'
      BY <2>4, NothingIsExact
         DEF IInv, RefuseFull, RestoredSlice, RefcountExact, OneMapPerDecision,
             StashSound, SliceTracks, NotStashed, OneMap
    <3> QED  BY <3>2, <3>3, <1>0 DEF IInv
  <2> QED  BY <1>6, <2>3, <2>4
<1>7. CASE UNCHANGED vars
  BY <1>7 DEF IInv, vars, TypeOK, RefcountExact, OneMapPerDecision, StashSound,
              SliceTracks, ShrinkIsOutcome
<1> QED  BY <1>1, <1>2, <1>3, <1>4, <1>5, <1>6, <1>7 DEF Next

\* The inductive invariant holds throughout.
THEOREM Invariance == Spec => []IInv
  BY InitIInv, NextIInv, PTL DEF Spec

-------------------------------------------------------------------------------
(* What follows from it *)

\* Every variable of the decision list keeps its type.
THEOREM TypeCorrect == Spec => []TypeOK
  BY Invariance, PTL DEF IInv

\* Reference counts are exact at every point of every apply.
THEOREM CountsExact == Spec => []RefcountExact
  BY Invariance, PTL DEF IInv

\* No decision is ever enforced in two maps.
THEOREM OneMapEach == Spec => []OneMapPerDecision
  BY Invariance, PTL DEF IInv

\* With the lock free, the invariant says that the slice is in step.
LEMMA InStepFromIInv == IInv => RenderedInStep
  BY DEF IInv, SliceTracks, RenderedInStep

\* The rendered slice is in step with the counts whenever the lock is free.
THEOREM SliceInStep == Spec => []RenderedInStep
  BY Invariance, InStepFromIInv, PTL

\* The end of a delta reports exactly a net change.
LEMMA StepReportsNet ==
  IInv /\ [Next]_vars =>
    (phase # "full" /\ phase # "idle" /\ phase' = "idle"
       => (report' = NoChange <=> sortedIPs' = sortedIPs))
<1> SUFFICES ASSUME IInv, Next, phase # "full", phase # "idle", phase' = "idle"
             PROVE  report' = NoChange <=> sortedIPs' = sortedIPs
  BY DEF vars
<1> DEFINE A == {e \in Remediation \X IP : e[2] \in Arrived(e[1])}
           D == {e \in Remediation \X IP : e[2] \in Departed(e[1])}
<1>1. EndDelta /\ phase \in {"deleting", "adding"}
  BY DEF Next, BeginDelta, Remove, AddToDelta, AddToFull, EndDelta, BeginFull,
         KeepFull, RefuseFull
<1>2. /\ sortedIPs' = [r \in Remediation |-> Settled(r)]
      /\ report' = [added |-> Cardinality(A), removed |-> Cardinality(D)]
  BY <1>1 DEF EndDelta
<1>3. A = {} <=> Cardinality(A) = 0
  BY ConstantAssumption, FS_Product, FS_Subset, FS_EmptySet
<1>4. D = {} <=> Cardinality(D) = 0
  BY ConstantAssumption, FS_Product, FS_Subset, FS_EmptySet
<1>5. report' = NoChange <=> A = {} /\ D = {}
  BY <1>2, <1>3, <1>4 DEF NoChange
<1>6. A = {} /\ D = {} <=> \A r \in Remediation : Arrived(r) = {} /\ Departed(r) = {}
  <2>1. \A r \in Remediation : Arrived(r) \subseteq IP /\ Departed(r) \subseteq IP
    BY DEF Arrived, Departed
  <2>2. \A r \in Remediation : \A ip \in Arrived(r) : <<r, ip>> \in A
    BY <2>1
  <2>3. \A r \in Remediation : \A ip \in Departed(r) : <<r, ip>> \in D
    BY <2>1
  <2>4. \A e \in A : e[1] \in Remediation /\ e[2] \in Arrived(e[1])
    OBVIOUS
  <2>5. \A e \in D : e[1] \in Remediation /\ e[2] \in Departed(e[1])
    OBVIOUS
  <2> HIDE DEF A, D
  <2> QED  BY <2>2, <2>3, <2>4, <2>5
<1>7. ASSUME NEW r \in Remediation
      PROVE  Arrived(r) = {} /\ Departed(r) = {} <=> Settled(r) = sortedIPs[r]
  <2>1. sortedIPs[r] \in SUBSET IP
    BY DEF IInv, TypeOK
  <2> QED  BY <1>1, <2>1, SettledIsListed
<1>8. sortedIPs' = sortedIPs <=> \A r \in Remediation : Settled(r) = sortedIPs[r]
  <2>1. sortedIPs = [r \in Remediation |-> sortedIPs[r]]
    BY DEF IInv, TypeOK
  <2> QED  BY <1>2, <2>1
<1> QED  BY <1>5, <1>6, <1>7, <1>8

\* A delta reports no change exactly when no map changed.
THEOREM DeltaReportNet == Spec => DeltaReportIsNet
  BY Invariance, StepReportsNet, PTL DEF Spec, DeltaReportIsNet

\* A step that keeps a short snapshot follows one that refused one.
LEMMA StepConfirms ==
  IInv /\ [Next]_vars =>
    (phase = "full" /\ phase' = "idle" /\ accepted'
       => \/ ~accepted
          \/ ~Short(Size(before.refcount), Size(refcount)))
<1> SUFFICES ASSUME IInv, Next, phase = "full", phase' = "idle", accepted' = TRUE,
                    Short(Size(before.refcount), Size(refcount))
             PROVE  ~accepted
  BY DEF vars, IInv, TypeOK
<1>1. KeepFull
  BY DEF Next, BeginDelta, Remove, AddToDelta, AddToFull, EndDelta, BeginFull,
         KeepFull, RefuseFull
<1>2. ~(pendingShrink + 1 < 2)
  BY <1>1 DEF KeepFull, Refused, RefusesSnapshot
<1> QED  BY <1>2 DEF IInv, TypeOK, ShrinkIsOutcome

\* A single short snapshot never unbans the list.
THEOREM MassUnbanConfirmed == Spec => MassUnbanIsConfirmed
  BY Invariance, StepConfirms, PTL DEF Spec, MassUnbanIsConfirmed

\* A step that refuses follows none that refused.
LEMMA StepRefusesOnce ==
  IInv /\ [Next]_vars => (phase = "full" /\ phase' = "idle" => accepted \/ accepted')
<1> SUFFICES ASSUME IInv, Next, phase = "full", phase' = "idle", ~accepted
             PROVE  accepted'
  BY DEF vars
<1>1. KeepFull \/ RefuseFull
  BY DEF Next, BeginDelta, Remove, AddToDelta, AddToFull, EndDelta, BeginFull
<1>2. pendingShrink = 1
  BY DEF IInv, TypeOK, ShrinkIsOutcome
<1> QED  BY <1>1, <1>2 DEF KeepFull, RefuseFull, Refused, RefusesSnapshot

\* A genuine flush of the list lands with the second snapshot.
THEOREM RefusedOnce == Spec => NeverRefusedTwice
  BY Invariance, StepRefusesOnce, PTL DEF Spec, NeverRefusedTwice

-------------------------------------------------------------------------------
(* Refinement: the list implements BlockList *)

\* What Apache is given amounts to the decisions held, or to those displaced.
LEMMA CountsAmountToList ==
  ASSUME NEW h \in HeldMap, NEW c \in CountMap, Exact(h, c)
  PROVE  /\ List!ListOf(h) = [r \in Remediation |-> Listed(c[r])]
         /\ Entries(c) = List!Entries(List!ListOf(h))
<1>1. \A r \in Remediation :
        /\ h[r] \in [DecisionId -> SUBSET IP]
        /\ c[r] \in [IP -> Nat]
        /\ ExactIn(h[r], c[r])
  BY ExactByMap DEF HeldMap, CountMap
<1>2. \A r \in Remediation : Listed(c[r]) = UNION {h[r][i] : i \in DecisionId}
  BY <1>1, ListedIsUnion
<1>3. List!ListOf(h) = [r \in Remediation |-> Listed(c[r])]
  BY <1>2 DEF List!ListOf
<1>4. Entries(c) = List!Entries(List!ListOf(h))
  BY <1>3 DEF Entries, List!Entries, Listed
<1> QED  BY <1>3, <1>4

\* The abstract specification counts with the same cardinality.
LEMMA SameCardinality ==
  ASSUME NEW S
  PROVE  List!Cardinality(S) = Cardinality(S)
  BY DEF Cardinality, List!Cardinality

\* The list starts where BlockList does.
LEMMA InitRefines == Init => List!Init
  BY DEF Init, List!Init, NoDecisions, List!Nothing, NotStashed, NoChange, List!NoChange

\* Every step is one of BlockList or changes nothing it sees.
LEMMA StepRefines == IInv /\ [Next]_vars => [List!Next]_(List!vars)
<1> SUFFICES ASSUME IInv, [Next]_vars PROVE [List!Next]_(List!vars)
  OBVIOUS
<1> DEFINE Batch == IF phase = "idle" THEN "none"
                    ELSE IF phase = "full" THEN "snapshot" ELSE "delta"
<1>a. phase \in {"idle", "deleting", "adding", "full"}
  BY DEF IInv, TypeOK
<1>h. /\ List!ListOf(decisionIPs) = [r \in Remediation |-> Listed(refcount[r])]
      /\ Entries(refcount) = List!Entries(List!ListOf(decisionIPs))
  BY CountsAmountToList DEF IInv, TypeOK, RefcountExact
<1>c. ASSUME NEW old, NEW new
      PROVE  List!Changes(old, new) =
               [added |-> Cardinality(List!Entries(new) \ List!Entries(old)),
                removed |-> Cardinality(List!Entries(old) \ List!Entries(new))]
  BY SameCardinality, Zenon DEF List!Changes, List!Gain
<1>1. CASE BeginDelta
  BY <1>1 DEF BeginDelta, List!Next, List!OpenDelta, NoChange, List!NoChange
<1>2. ASSUME NEW i \in DecisionId, Remove(i) PROVE [List!Next]_(List!vars)
  <2>1. List!Drop(i)
    BY <1>2 DEF Remove, SetContribution, List!Drop
  <2> QED  BY <2>1 DEF List!Next
<1>3. ASSUME NEW d \in Decision, AddToDelta(d) \/ AddToFull(d)
      PROVE  [List!Next]_(List!vars)
  <2>1. /\ Batch # "none" /\ Batch' = Batch
        /\ decisionIPs' = [r \in Remediation |->
                             [decisionIPs[r] EXCEPT ![d.id] = Contribution(r, d)]]
        /\ UNCHANGED <<before, sortedIPs, pendingShrink, report>>
    BY <1>3, <1>a DEF AddToDelta, AddToFull, Add, SetContribution
  <2>2. d.id \in DecisionId /\ d.value \in Value /\ d.type \in DecisionType
    BY DEF Decision
  <2>3. CASE Route[d.type] \in Remediation
    <3>1. Covers[d.value] \in SUBSET IP
      BY <2>2, ConstantAssumption
    <3>2. List!Put(d.id, Route[d.type], Covers[d.value])
      BY <2>1, <2>3 DEF List!Put, Contribution
    <3> QED  BY <2>2, <2>3, <3>1, <3>2 DEF List!Next
  <2>4. CASE Route[d.type] \notin Remediation
    <3>1. List!Drop(d.id)
      BY <2>1, <2>4 DEF List!Drop, Contribution
    <3> QED  BY <2>2, <3>1 DEF List!Next
  <2> QED  BY <2>3, <2>4
<1>4. CASE EndDelta
  <2>1. /\ phase \in {"deleting", "adding"} /\ phase' = "idle"
        /\ sortedIPs' = [r \in Remediation |-> Settled(r)]
        /\ report' =
             [added |-> Cardinality({e \in Remediation \X IP : e[2] \in Arrived(e[1])}),
              removed |-> Cardinality({e \in Remediation \X IP : e[2] \in Departed(e[1])})]
        /\ UNCHANGED <<decisionIPs, before, pendingShrink>>
    BY <1>4 DEF EndDelta
  <2>2. sortedIPs' = List!ListOf(decisionIPs)
    BY <2>1, <1>h, SettledIsListed
  <2>3. \A r \in Remediation :
          /\ Arrived(r) = List!ListOf(decisionIPs)[r] \ sortedIPs[r]
          /\ Departed(r) = sortedIPs[r] \ List!ListOf(decisionIPs)[r]
    BY <2>1, <1>h, SettledIsListed
  <2>4. /\ {e \in Remediation \X IP : e[2] \in Arrived(e[1])}
            = List!Entries(List!ListOf(decisionIPs)) \ List!Entries(sortedIPs)
        /\ {e \in Remediation \X IP : e[2] \in Departed(e[1])}
            = List!Entries(sortedIPs) \ List!Entries(List!ListOf(decisionIPs))
    BY <2>3 DEF List!Entries
  <2>5. report' = List!Changes(sortedIPs, List!ListOf(decisionIPs))
    BY <2>1, <2>4, <1>c, Zenon
  <2>6. before'.decisionIPs = List!Nothing
    <3>1. before = NotStashed /\ before' = before
      BY <2>1 DEF IInv, StashSound
    <3> QED  BY <3>1 DEF NotStashed, NoDecisions, List!Nothing
  <2> QED  BY <2>1, <2>2, <2>5, <2>6 DEF List!Next, List!Keep
<1>5. CASE BeginFull
  BY <1>5 DEF BeginFull, List!Next, List!OpenSnapshot, NoChange, List!NoChange,
              NoDecisions, List!Nothing
<1>6. CASE KeepFull \/ RefuseFull
  <2>1. /\ phase = "full" /\ phase' = "idle" /\ report' = Diff /\ before' = NotStashed
        /\ NotStashed.decisionIPs = List!Nothing
    BY <1>6 DEF KeepFull, RefuseFull, NotStashed, NoDecisions, List!Nothing
  <2>2. /\ List!ListOf(before.decisionIPs) = [r \in Remediation |-> Listed(before.refcount[r])]
        /\ Entries(before.refcount) = List!Entries(List!ListOf(before.decisionIPs))
    <3>1. before.decisionIPs \in HeldMap /\ before.refcount \in CountMap
      BY DEF IInv, TypeOK
    <3> QED  BY <3>1, CountsAmountToList DEF IInv, StashSound
  <2>3. sortedIPs = List!ListOf(before.decisionIPs)
    <3>1. sortedIPs = [r \in Remediation |-> sortedIPs[r]]
      BY DEF IInv, TypeOK
    <3>2. \A r \in Remediation : sortedIPs[r] = Listed(before.refcount[r])
      BY <2>1 DEF IInv, SliceTracks
    <3> QED  BY <2>2, <3>1, <3>2
  <2>4. report' = List!Changes(sortedIPs, List!ListOf(decisionIPs))
    <3>1. report' = [added |-> Cardinality(Entries(refcount) \ Entries(before.refcount)),
                     removed |-> Cardinality(Entries(before.refcount) \ Entries(refcount))]
      BY <2>1 DEF Diff
    <3>2. /\ Entries(refcount) = List!Entries(List!ListOf(decisionIPs))
          /\ Entries(before.refcount) = List!Entries(sortedIPs)
      BY <2>2, <2>3, <1>h
    <3> QED  BY <3>1, <3>2, <1>c, Zenon
  <2>5. Short(Size(before.refcount), Size(refcount)) <=> List!Doubtful
    <3>1. /\ Entries(before.refcount) = List!Entries(sortedIPs)
          /\ Entries(refcount) = List!Entries(List!ListOf(decisionIPs))
      BY <2>2, <2>3, <1>h
    <3> QED  BY <3>1, SameCardinality, Zenon DEF Size, Short, List!Doubtful, List!Short
  <2>6. pendingShrink \in {0, 1}
    BY DEF IInv, TypeOK
  <2>7. CASE KeepFull
    <3>1. /\ List!Doubtful => pendingShrink > 0
          /\ pendingShrink' = 0
      BY <2>5, <2>6, <2>7 DEF KeepFull, Refused, RefusesSnapshot
    <3> QED  BY <2>1, <2>4, <2>7, <3>1, <1>h DEF KeepFull, List!Next, List!Keep
  <2>8. CASE RefuseFull
    <3>1. /\ List!Doubtful /\ ~(pendingShrink > 0)
          /\ pendingShrink' > 0
      BY <2>5, <2>6, <2>8 DEF RefuseFull, Refused, RefusesSnapshot
    <3> QED  BY <2>1, <2>2, <2>3, <2>4, <2>8, <3>1
                DEF RefuseFull, RestoredSlice, List!Next, List!Abandon
  <2> QED  BY <1>6, <2>7, <2>8
<1>7. CASE UNCHANGED vars
  BY <1>7 DEF vars, List!vars
<1> QED  BY <1>1, <1>2, <1>3, <1>4, <1>5, <1>6, <1>7 DEF Next

\* The decision list implements its abstract specification.
THEOREM ListRefined == Spec => ListSpec
<1>1. Init => List!Init
  BY InitRefines
<1>2. IInv /\ [Next]_vars => [List!Next]_(List!vars)
  BY StepRefines
<1> QED  BY <1>1, <1>2, Invariance, PTL DEF Spec, ListSpec, List!Spec

==============================================================================
