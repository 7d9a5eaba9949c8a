--------------------------- MODULE CustomListsProofs ---------------------------
(***************************************************************************)
(* Proofs about CustomLists, for any number of lists, edits and faults.    *)
(* That a list which needs no rebuilding is live rests on the order of     *)
(* stamps: a list that still has the stamp it had when it was looked at    *)
(* has had it all along, so what the conversion read is that.              *)
(***************************************************************************)
EXTENDS CustomLists, TLAPS

\* No stamp is ahead of the latest one of its list.
StampsBounded ==
  \A l \in List : txt[l] <= stamp[l] /\ last[l] <= stamp[l]

\* While a list is built, it is as it was found, or gone, or newer.
FoundEarlier ==
  pc \in {"convert", "swap"} =>
    /\ seen <= stamp[Current]
    /\ txt[Current] = Missing \/ txt[Current] >= seen

\* What is moved into place was read after the list was found, and is what was found
\* when the list has not been touched since.
ReadLater ==
  pc = "swap" =>
    /\ tmp[Current] \in Nat /\ tmp[Current] >= seen
    /\ txt[Current] = seen => tmp[Current] = seen

IInv ==
  /\ TypeOK
  /\ StampsBounded
  /\ FoundEarlier
  /\ ReadLater
  /\ SettledIsLive

\* The initial states satisfy the invariant.
LEMMA InitIInv == Init => IInv
<1> SUFFICES ASSUME Init PROVE IInv
  OBVIOUS
<1> USE DEF Init, Missing, Torn, OldBuild, FirstStamp
<1>1. MaxFaults \in Nat
  BY CustomListsAssumption
<1>2. TypeOK
  BY <1>1 DEF TypeOK
<1>3. StampsBounded /\ FoundEarlier /\ ReadLater /\ SettledIsLive
  BY DEF StampsBounded, FoundEarlier, ReadLater, SettledIsLive
<1> QED
  BY <1>2, <1>3 DEF IInv

\* Faults stay within their bound.
LEMMA FaultTypes ==
  ASSUME TypeOK, Fault
  PROVE  faults' \in 0..MaxFaults
<1>1. MaxFaults \in Nat
  BY CustomListsAssumption
<1> QED
  BY <1>1 DEF TypeOK, Fault

\* While there is a list to look at, it is one of the lists, and so are the rest.
LEMMA CurrentIsList ==
  ASSUME TypeOK, pc \notin {"down", "idle"}
  PROVE  /\ todo # <<>> /\ Current \in List
         /\ Tail(todo) \in Seq(List)
BY DEF TypeOK, Current

\* Going on with the next list leaves nothing looked at.
LEMMA NextListTypes ==
  ASSUME TypeOK, pc \notin {"down", "idle"}, NextList
  PROVE  /\ pc' \in {"idle", "stat"}
         /\ todo' \in Seq(List) /\ (todo' = <<>> <=> pc' = "idle")
BY CurrentIsList DEF NextList

\* Looking at a list that is there.
LEMMA FoundKeepsIInv ==
  ASSUME IInv, pc \in {"stat", "restat"}, Found(Current), txt[Current] # Missing,
         UNCHANGED <<files, mapType, last, built, faults>>
  PROVE  IInv'
<1> USE DEF IInv, TypeOK, StampsBounded, FoundEarlier, ReadLater, SettledIsLive, files,
            NeedsBuild, Missing, Torn
<1>1. CASE NextList /\ UNCHANGED seen
  BY <1>1, NextListTypes
<1>2. CASE pc' = "convert" /\ seen' = txt[Current] /\ UNCHANGED todo
  BY <1>2, CurrentIsList DEF Current
<1> QED
  BY <1>1, <1>2 DEF Found

\* Every step keeps the invariant.
LEMMA StepIInv == IInv /\ [Next]_vars => IInv'
<1> SUFFICES ASSUME IInv, [Next]_vars PROVE IInv'
  OBVIOUS
<1> USE DEF IInv, TypeOK, StampsBounded, FoundEarlier, ReadLater, SettledIsLive, files,
            memory, NeedsBuild, Missing, Torn
<1>1. CASE Start \/ Tick
  BY <1>1, CustomListsAssumption DEF Start, Tick
<1>2. CASE Stat
  <2>1. CASE txt[Current] = Missing
    BY <1>2, <2>1 DEF Stat
  <2>2. CASE txt[Current] # Missing
    BY <1>2, <2>2, FoundKeepsIInv DEF Stat
  <2> QED
    BY <2>1, <2>2
<1>3. CASE Create
  <2>1. stamp' \in [List -> Nat] /\ txt' \in [List -> Nat]
    BY <1>3, CurrentIsList DEF Create
  <2>2. TypeOK'
    BY <1>3, <2>1, CurrentIsList DEF Create
  <2>3. StampsBounded'
    BY <1>3, CurrentIsList DEF Create
  <2>4. (FoundEarlier /\ ReadLater /\ SettledIsLive)'
    BY <1>3, CurrentIsList DEF Create
  <2> QED
    BY <2>2, <2>3, <2>4
<1>4. CASE Restat
  <2>1. CASE Gone(Current)
    BY <1>4, <2>1, NextListTypes DEF Restat
  <2>2. CASE ~Gone(Current)
    BY <1>4, <2>2, FoundKeepsIInv DEF Restat, Gone
  <2> QED
    BY <2>1, <2>2
<1>5. CASE EnsureFails
  BY <1>5, NextListTypes, FaultTypes DEF EnsureFails
<1>6. CASE Convert
  <2>1. TypeOK'
    BY <1>6, CurrentIsList DEF Convert, Current
  <2>2. StampsBounded'
    BY <1>6, CurrentIsList DEF Convert, Current
  <2>3. FoundEarlier' /\ ReadLater'
    BY <1>6, CurrentIsList DEF Convert, Current
  <2>4. SettledIsLive'
    BY <1>6, CurrentIsList DEF Convert, Current
  <2> QED
    BY <2>1, <2>2, <2>3, <2>4
<1>7. CASE ConvertFails
  <2>1. TypeOK'
    <3>1. faults' \in 0..MaxFaults
      BY <1>7, FaultTypes DEF ConvertFails
    <3>2. tmp' \in [List -> Nat \cup {Torn}]
      BY <1>7, CurrentIsList DEF ConvertFails, Cleaned
    <3> QED
      BY <1>7, <3>1, <3>2, CurrentIsList, NextListTypes DEF ConvertFails, Record, Recorded
  <2>2. StampsBounded'
    BY <1>7, CurrentIsList, NextListTypes, FaultTypes DEF ConvertFails, Cleaned, Record, Recorded
  <2>3. FoundEarlier' /\ ReadLater'
    BY <1>7, CurrentIsList, NextListTypes, FaultTypes DEF ConvertFails, Cleaned, Record, Recorded
  <2>4. SettledIsLive'
    BY <1>7, CurrentIsList, NextListTypes, FaultTypes DEF ConvertFails, Cleaned, Record, Recorded
  <2> QED
    BY <2>1, <2>2, <2>3, <2>4
<1>8. CASE ConvertsNothing
  <2>1. TypeOK'
    BY <1>8, CurrentIsList, NextListTypes, FaultTypes DEF ConvertsNothing, Cleaned, Record, Recorded
  <2>2. StampsBounded'
    BY <1>8, CurrentIsList, NextListTypes, FaultTypes DEF ConvertsNothing, Cleaned, Record, Recorded
  <2>3. FoundEarlier' /\ ReadLater'
    BY <1>8, CurrentIsList, NextListTypes, FaultTypes DEF ConvertsNothing, Cleaned, Record, Recorded
  <2>4. SettledIsLive'
    BY <1>8, CurrentIsList, NextListTypes, FaultTypes DEF ConvertsNothing, Cleaned, Record, Recorded
  <2> QED
    BY <2>1, <2>2, <2>3, <2>4
<1>9. CASE Swap
  <2>1. TypeOK'
    BY <1>9, CurrentIsList, NextListTypes DEF Swap, Record, Recorded
  <2>2. StampsBounded'
    BY <1>9, CurrentIsList, NextListTypes DEF Swap, Record, Recorded
  <2>3. FoundEarlier' /\ ReadLater'
    BY <1>9, CurrentIsList, NextListTypes DEF Swap, Record, Recorded
  <2>4. SettledIsLive'
    BY <1>9, CurrentIsList, NextListTypes DEF Swap, Record, Recorded
  <2> QED
    BY <2>1, <2>2, <2>3, <2>4
<1>10. CASE SwapFails
  <2>1. TypeOK'
    BY <1>10, CurrentIsList, NextListTypes, FaultTypes DEF SwapFails, Record, Recorded
  <2>2. StampsBounded'
    BY <1>10, CurrentIsList, NextListTypes, FaultTypes DEF SwapFails, Record, Recorded
  <2>3. FoundEarlier' /\ ReadLater'
    BY <1>10, CurrentIsList, NextListTypes, FaultTypes DEF SwapFails, Record, Recorded
  <2>4. SettledIsLive'
    BY <1>10, CurrentIsList, NextListTypes, FaultTypes DEF SwapFails, Record, Recorded
  <2> QED
    BY <2>1, <2>2, <2>3, <2>4
<1>11. ASSUME NEW l \in List, Edit(l) PROVE IInv'
  <2>1. TypeOK'
    BY <1>11, CurrentIsList DEF Edit, Current
  <2>2. StampsBounded'
    BY <1>11, CurrentIsList DEF Edit, Current
  <2>3. FoundEarlier' /\ ReadLater'
    <3>1. Current' = Current /\ UNCHANGED <<pc, tmp, seen>>
      BY <1>11 DEF Edit, Current
    <3>2. SUFFICES ASSUME pc \in {"convert", "swap"}
                   PROVE  FoundEarlier' /\ ReadLater'
      BY <3>1
    <3>3. Current \in List
      BY <3>2, CurrentIsList
    <3>4. CASE l = Current
      BY <1>11, <3>1, <3>2, <3>3, <3>4 DEF Edit
    <3>5. CASE l # Current
      BY <1>11, <3>1, <3>2, <3>3, <3>5 DEF Edit
    <3> QED
      BY <3>4, <3>5
  <2>4. SettledIsLive'
    BY <1>11, CurrentIsList DEF Edit, Current
  <2> QED
    BY <2>1, <2>2, <2>3, <2>4
<1>12. ASSUME NEW l \in List, DeleteList(l) PROVE IInv'
  <2>1. TypeOK'
    BY <1>12, CurrentIsList, FaultTypes DEF DeleteList, Current
  <2>2. StampsBounded'
    BY <1>12, CurrentIsList, FaultTypes DEF DeleteList, Current
  <2>3. FoundEarlier' /\ ReadLater'
    BY <1>12, CurrentIsList, FaultTypes DEF DeleteList, Current
  <2>4. SettledIsLive'
    BY <1>12, CurrentIsList, FaultTypes DEF DeleteList, Current
  <2> QED
    BY <2>1, <2>2, <2>3, <2>4
<1>13. ASSUME NEW l \in List, DeleteMap(l) PROVE IInv'
  <2>1. TypeOK'
    BY <1>13, CurrentIsList, FaultTypes DEF DeleteMap, Current
  <2>2. StampsBounded'
    BY <1>13, CurrentIsList, FaultTypes DEF DeleteMap, Current
  <2>3. FoundEarlier' /\ ReadLater'
    BY <1>13, CurrentIsList, FaultTypes DEF DeleteMap, Current
  <2>4. SettledIsLive'
    BY <1>13, CurrentIsList, FaultTypes DEF DeleteMap, Current
  <2> QED
    BY <2>1, <2>2, <2>3, <2>4
<1>14. CASE Crash
  BY <1>14, FaultTypes DEF Crash
<1>15. CASE UNCHANGED vars
  BY <1>15 DEF vars, Current
<1> QED
  BY <1>1, <1>2, <1>3, <1>4, <1>5, <1>6, <1>7, <1>8, <1>9, <1>10, <1>11, <1>12, <1>13,
     <1>14, <1>15 DEF Next, Step, World

\* The inductive invariant of the operator's lists.
THEOREM ListsInvariance == Spec => []IInv
BY InitIInv, StepIInv, PTL DEF Spec

\* Types, for any number of lists, edits and faults.
THEOREM ListTypes == Spec => []TypeOK
<1>1. IInv => TypeOK
  BY DEF IInv
<1> QED
  BY <1>1, ListsInvariance, PTL

\* What the daemon takes for built is what Apache reads, whatever was edited, deleted
\* or failed in between.
THEOREM SettledListsAreLive == Spec => []SettledIsLive
<1>1. IInv => SettledIsLive
  BY DEF IInv
<1> QED
  BY <1>1, ListsInvariance, PTL

\* A map that is put in place is never older than the list was when looked at.
THEOREM NewMapsAreRecent == Spec => NewMapIsRecent
<1>1. IInv /\ [Next]_vars
        => [\A l \in List : dbm'[l] \notin {dbm[l], Missing, Torn} => dbm'[l] >= seen]_vars
  <2> SUFFICES ASSUME IInv, Next, NEW l \in List, dbm'[l] \notin {dbm[l], Missing, Torn}
               PROVE  dbm'[l] >= seen
    OBVIOUS
  <2>1. Swap
    <3>1. dbm' # dbm
      OBVIOUS
    <3>2. CASE SwapFails
      BY <3>2, CurrentIsList DEF SwapFails, IInv, TypeOK
    <3>3. ASSUME NEW k \in List, DeleteMap(k) PROVE FALSE
      BY <3>3 DEF DeleteMap, IInv, TypeOK
    <3> QED
      BY <3>1, <3>2, <3>3
         DEF Next, Step, World, Start, Tick, Stat, Create, Restat, EnsureFails, Convert,
             ConvertFails, ConvertsNothing, Edit, DeleteList, Crash, files
  <2>2. Current \in List /\ tmp[Current] >= seen
    BY <2>1, CurrentIsList DEF Swap, IInv, ReadLater
  <2> QED
    BY <2>1, <2>2 DEF Swap, IInv, TypeOK
<1> QED
  BY <1>1, ListsInvariance, PTL DEF Spec, NewMapIsRecent
==============================================================================
