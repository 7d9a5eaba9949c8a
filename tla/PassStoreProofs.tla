---------------------------- MODULE PassStoreProofs ----------------------------
(***************************************************************************)
(* Proofs about PassStore, for any number of addresses and requests and    *)
(* any writes that fail.  The properties are not inductive: what a write   *)
(* publishes depends on what memory holds of the addresses already told,   *)
(* and what a daemon starts with on what its predecessor left.             *)
(***************************************************************************)
EXTENDS PassStore, TLAPS

\* A process that is not up holds nothing in memory.
DownIsBlank == ~Up => ~enabled /\ passes = NoPasses

\* A listener, at whatever stage, belongs to a process that is up and has a store.
ListenerHasStore == server # "off" => Up /\ enabled

\* While the process is up, the readiness file says that the port is bound, or that
\* it was and the file is about to be removed or could not be.
ReadyIsBound == ready /\ Up => server \in {"serving", "closing", "uncleared"}

\* Memory has a pass for every address that was told so.
ToldIsHeld == told \subseteq Held(passes)

\* And the map names it, as long as it is there and the daemon does not empty it.
ToldIsExempt ==
  phase \in {"polling", "stopping"} /\ exists => told \subseteq file

IInv ==
  /\ TypeOK
  /\ DownIsBlank
  /\ ListenerHasStore
  /\ ReadyIsBound
  /\ ToldIsHeld
  /\ ExemptionsHaveExpiry
  /\ ToldIsExempt

\* A failed prune leaves memory as it was.
LEMMA RestoredIsUndone ==
  ASSUME passes \in [IP -> {"none", "current", "lapsed"}]
  PROVE  Restored(Dropped(passes), Lapsed(passes)) = passes
BY DEF Restored, Dropped, Lapsed

\* The initial states satisfy the invariant.
LEMMA InitIInv == Init => IInv
BY PassAssumption
   DEF Init, IInv, TypeOK, DownIsBlank, ListenerHasStore, ReadyIsBound, ToldIsHeld,
       ExemptionsHaveExpiry, ToldIsExempt, Up, NoPasses, Held

\* Every step keeps the invariant.
LEMMA StepIInv == IInv /\ [Next]_vars => IInv'
<1> SUFFICES ASSUME IInv, [Next]_vars PROVE IInv'
  OBVIOUS
<1> USE DEF listener, IInv, TypeOK, DownIsBlank, ListenerHasStore, ReadyIsBound,
            ToldIsHeld, ExemptionsHaveExpiry, ToldIsExempt, Up, Held
<1>1. ASSUME NEW s \in Solver, Add(s) PROVE IInv'
  <2>1. at[s] \in IP
    BY <1>1 DEF Add
  <2>2. CASE passes' = [passes EXCEPT ![at[s]] = "current"] /\ Written(passes')
             /\ told' = told \cup {at[s]}
    BY <1>1, <2>1, <2>2 DEF Add, Written
  <2>3. CASE passes' = FailedAdd(passes, at[s]) /\ NotWritten /\ UNCHANGED told
    BY <1>1, <2>1, <2>3 DEF Add, FailedAdd, NotWritten
  <2> QED
    BY <1>1, <2>2, <2>3 DEF Add
<1>2. ASSUME NEW s \in Solver, NEW a \in IP, Redeem(s, a) PROVE IInv'
  BY <1>2 DEF Redeem
<1>3. ASSUME NEW a \in IP, Lapse(a) PROVE IInv'
  BY <1>3 DEF Lapse, NoPasses
<1>4. CASE PruneWrites
  BY <1>4 DEF PruneWrites, Prunes, Written, Dropped, Lapsed
<1>5. CASE PruneFails
  BY <1>5, RestoredIsUndone DEF PruneFails, Prunes, NotWritten
<1>6. CASE StartWrites
  <2>1. told = {}
    BY <1>6 DEF StartWrites, Starts, NoPasses
  <2> QED
    BY <1>6, <2>1 DEF StartWrites, Starts, Listens, Written, NoPasses
<1>7. CASE StartFails
  <2>1. told = {} /\ ~enabled
    BY <1>7 DEF StartFails, Starts, NoPasses
  <2> QED
    BY <1>7, <2>1 DEF StartFails, Starts, Listens
<1>8. CASE Cancel
  BY <1>8 DEF Cancel
<1>9. CASE \/ Bind \/ BindFails \/ MarkReady \/ MarkFails \/ ServeFails \/ Shutdown
          \/ ClearReady \/ ClearFails \/ RemoveRuntimeDirectory
  <2>1. UNCHANGED rest
    BY <1>9 DEF Bind, BindFails, MarkReady, MarkFails, ServeFails, Shutdown, ClearReady,
                ClearFails, RemoveRuntimeDirectory
  <2>2. ready' \in BOOLEAN
    BY <1>9 DEF Bind, BindFails, MarkReady, MarkFails, ServeFails, Shutdown, ClearReady,
                Cleared, ClearFails, RemoveRuntimeDirectory
  <2>3. /\ server' \in {"off", "binding", "marking", "serving", "closing", "uncleared"}
        /\ server' # "off" => server # "off"
        /\ ready' /\ Up => server' \in {"serving", "closing", "uncleared"}
    BY <1>9 DEF Bind, BindFails, MarkReady, Marks, MarkFails, ServeFails, Shutdown,
                ClearReady, Cleared, ClearFails, RemoveRuntimeDirectory
  <2> QED
    BY <2>1, <2>2, <2>3 DEF rest
<1>10. CASE StopChallenge
  BY <1>10 DEF StopChallenge, Written, NotWritten, NoPasses
<1>11. ASSUME NEW how \in {"stopped", "crashed"}, Ends(how) PROVE IInv'
  BY <1>11, PassAssumption DEF Ends, NoPasses
<1>12. CASE Delete
  BY <1>12 DEF Delete
<1>13. CASE UNCHANGED vars
  BY <1>13 DEF vars
<1> QED
  BY <1>1, <1>2, <1>3, <1>4, <1>5, <1>6, <1>7, <1>8, <1>9, <1>10, <1>11, <1>12, <1>13
     DEF Next, Exit, Crash

\* The inductive invariant: what memory, the map and the clients were told keep to
\* each other through every operation of the pass store.
THEOREM PassInvariance == Spec => []IInv
BY InitIInv, StepIInv, PTL DEF Spec

\* The map names addresses and the store holds passes, always.
THEOREM PassTypes == Spec => []TypeOK
<1>1. IInv => TypeOK
  BY DEF IInv
<1> QED
  BY <1>1, PassInvariance, PTL

\* Every exempted address has a pass in memory that prune will end.
THEOREM ExemptionsExpire == Spec => []ExemptionsHaveExpiry
<1>1. IInv => ExemptionsHaveExpiry
  BY DEF IInv
<1> QED
  BY <1>1, PassInvariance, PTL

\* An address that the map exempts without a current pass makes the next prune rewrite it.
EndIsDue ==
  phase \in {"polling", "stopping"} /\ enabled /\ (\E a \in file : passes[a] # "current")
    => Prunes

\* A daemon with a store never leaves an exemption that has to end to chance: it is one
\* that prune acts on, whatever writes failed before (passes.add, prune, reset).
THEOREM OverdueIsPruned == Spec => []EndIsDue
<1>1. IInv => EndIsDue
  BY DEF IInv, TypeOK, ExemptionsHaveExpiry, EndIsDue, Prunes, NeedsWrite, Held, Lapsed
<1> QED
  BY <1>1, PassInvariance, PTL

\* A write that comes off ends the overdue exemptions, all of them, and no other.
EndsOverdue ==
  PruneWrites =>
    /\ \A a \in file' : passes'[a] = "current"
    /\ \A a \in file \ file' : passes[a] # "current"

\* Prune's write leaves the addresses whose pass is current, the ones an add could not
\* publish included.  With OverdueIsPruned it is what ExemptionEnds rests on in each state.
THEOREM PruneEndsOverdue == Spec => [][EndsOverdue]_vars
<1>1. IInv /\ [Next]_vars => [EndsOverdue]_vars
  BY DEF IInv, TypeOK, ExemptionsHaveExpiry, EndsOverdue, PruneWrites, Prunes, Written,
         Dropped, Held, Lapsed
<1> QED
  BY <1>1, PassInvariance, PTL DEF Spec
==============================================================================
