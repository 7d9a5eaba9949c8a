---------------------------- MODULE PollLoopProofs ----------------------------
(***************************************************************************)
(* Proofs about PollLoop, for every set of addresses, every order of maps, *)
(* every number of faults and every threshold of the snapshot guard: type  *)
(* correctness, and that the map files are created, retired and kept in    *)
(* step with the list through every failure and restart.                   *)
(***************************************************************************)
EXTENDS PollLoop, WellFoundedInduction, TLAPS

-------------------------------------------------------------------------------
(* The maps still to be processed, and one map's files *)

\* The first of some maps is one of them.
LEMMA FirstIsOne ==
  ASSUME NEW maps \in SUBSET Remediation, maps # {}
  PROVE  First(maps) \in maps
<1> DEFINE Places == {i \in DOMAIN MapOrder : MapOrder[i] \in maps}
           IsFirst(i) == MapOrder[i] \in maps /\ \A j \in 1..(i - 1) : MapOrder[j] \notin maps
<1>1. DOMAIN MapOrder = 1..Len(MapOrder) /\ Len(MapOrder) \in Nat
  BY PollAssumption DEF PollAssumption
<1>2. Places \subseteq Nat /\ Places # {}
  BY <1>1 DEF Remediation
<1>3. PICK i \in Places : \A j \in Places : ~(<<j, i>> \in OpToRel(<, Nat))
  <2> HIDE DEF Places
  <2> QED  BY <1>2, NatLessThanWellFounded, WFMin, Zenon
<1>4. \A j \in Places : ~(j < i)
  BY <1>2, <1>3 DEF OpToRel
<1>5. i \in DOMAIN MapOrder /\ IsFirst(i)
  BY <1>1, <1>4
<1>6. IsFirst(CHOOSE k \in DOMAIN MapOrder : IsFirst(k))
  <2> HIDE DEF IsFirst
  <2> QED  BY <1>5
<1> QED  BY <1>6 DEF First

\* A whole file is neither missing nor torn.
LEMMA WholeFile ==
  ASSUME NEW ips
  PROVE  Holding(ips) # Missing /\ Holding(ips) # Torn /\ Torn # Missing
  BY DEF Holding, Missing, Torn

\* The bound on faults is a number.
LEMMA FaultTypes == MaxFaults \in Nat
  BY PollAssumption DEF PollAssumption

\* What TypeOK says of the files.
FileTypes ==
  /\ txt \in [Remediation -> File \ {Torn}]
  /\ dbm \in [Remediation -> File]
  /\ suspect \subseteq Remediation
  /\ deleted \subseteq suspect
  /\ faults \in 0..MaxFaults

\* What every outcome of writing map r has in common (writeMap): it leaves the
\* other maps alone, and a map it has not put in order is under suspicion.
Outcome(r, ips) ==
  /\ FileTypes'
  /\ \A q \in Remediation \ {r} :
       /\ txt'[q] = txt[q] /\ dbm'[q] = dbm[q]
       /\ q \in suspect' <=> q \in suspect
       /\ q \in deleted' <=> q \in deleted
  /\ txt'[r] \in {txt[r], Holding(ips)}
  /\ dbm[r] # Missing => dbm'[r] # Missing
  /\ deleted' \subseteq deleted
  /\ r \notin suspect' => /\ txt'[r] = Holding(ips)
                          /\ mapType = "dbm" => dbm'[r] = Holding(ips)

\* The write in which nothing fails leaves both files with the list.
LEMMA WriteMapOkOutcome ==
  ASSUME FileTypes, NEW r \in Remediation, NEW ips \in SUBSET IP, WriteMapOk(r, ips)
  PROVE  /\ Outcome(r, ips)
         /\ txt'[r] = Holding(ips)
         /\ r \notin deleted'
         /\ mapType = "dbm" => dbm'[r] = Holding(ips)
<1>1. Holding(ips) \in File \ {Torn} /\ Holding(ips) # Missing
  BY WholeFile DEF File
<1>2. FileTypes'
  BY <1>1 DEF FileTypes, WriteMapOk
<1> QED  BY <1>1, <1>2 DEF FileTypes, WriteMapOk, Outcome

\* The write whose txt fails leaves the map as it was, under suspicion.
LEMMA WriteTxtFailsOutcome ==
  ASSUME FileTypes, NEW r \in Remediation, NEW ips \in SUBSET IP, WriteTxtFails({r})
  PROVE  Outcome(r, ips)
<1>1. FileTypes'
  BY FaultTypes DEF FileTypes, WriteTxtFails, Fault
<1> QED  BY <1>1 DEF FileTypes, WriteTxtFails, Outcome

\* The write whose conversion fails leaves the txt with the list.
LEMMA BuildDBMFailsOutcome ==
  ASSUME FileTypes, NEW r \in Remediation, NEW ips \in SUBSET IP, BuildDBMFails(r, ips)
  PROVE  /\ Outcome(r, ips)
         /\ mapType = "dbm" /\ r \in suspect'
         /\ txt'[r] = Holding(ips) /\ deleted' = deleted
<1>1. Holding(ips) \in File \ {Torn} /\ Torn \in File /\ Torn # Missing
  BY WholeFile DEF File
<1>2. FileTypes'
  BY <1>1, FaultTypes DEF FileTypes, BuildDBMFails, Fault
<1>3. dbm' \in {dbm, [dbm EXCEPT ![r] = Torn]}
  BY DEF BuildDBMFails
<1> QED  BY <1>1, <1>2, <1>3 DEF FileTypes, BuildDBMFails, Outcome

\* The callers that ignore the error see one of the three (ensureMap,
\* retireUnusedMaps).
LEMMA BestEffortOutcome ==
  ASSUME FileTypes, NEW r \in Remediation, NEW ips \in SUBSET IP, WriteMapBestEffort(r, ips)
  PROVE  Outcome(r, ips)
  BY WriteMapOkOutcome, WriteTxtFailsOutcome, BuildDBMFailsOutcome DEF WriteMapBestEffort

-------------------------------------------------------------------------------
(* Types *)

\* What a policy enforces is listed under the maps it produces.
LEMMA EnforcedTypes ==
  ASSUME NEW entries \in SUBSET Entry
  PROVE  Enforced(entries) \subseteq produced \X IP
  BY DEF Enforced, Entry

\* pendingShrink is 0 or 1.
LEMMA ShrinkTypes ==
  ASSUME NEW h, NEW s, NEW p \in {0, 1}
  PROVE  ShrinkCount(h, s, p) \in {0, 1}
<1>1. CASE RefusesSnapshot(h, s, p)
  <2>1. p + 1 < 2
    BY <1>1 DEF RefusesSnapshot
  <2>2. p + 1 \in {0, 1}
    BY <2>1
  <2> QED  BY <1>1, <2>2 DEF ShrinkCount
<1>2. CASE ~RefusesSnapshot(h, s, p)
  BY <1>2 DEF ShrinkCount
<1> QED  BY <1>1, <1>2

\* TypeOK in its two parts.
LEMMA TypesOfFiles ==
  ASSUME TypeOK
  PROVE  FileTypes
  BY DEF TypeOK, FileTypes

\* What TypeOK says of everything but the files.
LoopTypes ==
  /\ lapi \subseteq Entry /\ pulled \subseteq Entry /\ held \subseteq produced \X IP
  /\ pc \in {"down", "ensure", "retire", "sync", "write", "tick"}
  /\ mapType \in MapTypes
  /\ produced \subseteq Remediation /\ (produced = {} <=> pc = "down")
  /\ pending \in {0, 1} /\ due \in BOOLEAN
  /\ todo \subseteq Remediation /\ (pc = "write" => todo # {})
  /\ job \in {"kept", "refused", "poll"}

\* And the two parts make TypeOK.
LEMMA TypesAsParts == TypeOK <=> LoopTypes /\ FileTypes
  BY DEF TypeOK, LoopTypes, FileTypes

\* A step that may be a fault keeps to the bound.
LEMMA FaultKeepsBound ==
  ASSUME faults \in 0..MaxFaults, Fault \/ UNCHANGED faults
  PROVE  faults' \in 0..MaxFaults
  BY FaultTypes DEF Fault

\* The initial states are well typed.
LEMMA InitTypes == Init => TypeOK
<1> SUFFICES ASSUME Init PROVE TypeOK
  OBVIOUS
<1>1. Missing \in File \ {Torn}
  BY WholeFile DEF File
<1>2. 0 \in 0..MaxFaults
  BY FaultTypes
<1>3. FileTypes
  BY <1>1, <1>2 DEF Init, FileTypes
<1>4. LoopTypes
  BY DEF Init, LoopTypes
<1> QED  BY <1>3, <1>4, TypesAsParts

\* The types of a step that fetches and leaves the files alone.
LEMMA ApplyFullTypes ==
  ASSUME LoopTypes, NEW snapshot \in SUBSET Entry,
         NEW kept \in {"kept", "poll"}, NEW refused \in {"refused", "poll"},
         ApplyFull(snapshot, kept, refused)
  PROVE  /\ held' \subseteq produced \X IP
         /\ pending' \in {0, 1} /\ due' \in BOOLEAN
         /\ job' \in {kept, refused}
<1> DEFINE n == Cardinality(held)
           m == Cardinality(Enforced(snapshot))
<1>1. Enforced(snapshot) \subseteq produced \X IP
  BY EnforcedTypes
<1>2. ShrinkCount(n, m, pending) \in {0, 1}
  BY ShrinkTypes DEF LoopTypes
<1>3. /\ pending' = ShrinkCount(n, m, pending)
      /\ held' \in {held, Enforced(snapshot)}
      /\ job' \in {kept, refused}
      /\ due' \in {due, FALSE}
  BY DEF ApplyFull
<1> QED  BY <1>1, <1>2, <1>3 DEF LoopTypes

\* The types of a step that writes a map.
LEMMA WriteTypes ==
  ASSUME TypeOK, WriteNext
  PROVE  TypeOK'
<1> DEFINE r == First(todo)
<1>1. r \in Remediation /\ ListOf(r) \subseteq IP
  BY FirstIsOne DEF WriteNext, TypeOK, ListOf
<1>2. FileTypes'
  BY <1>1, TypesOfFiles, WriteMapOkOutcome, BuildDBMFailsOutcome DEF WriteNext, Outcome
<1>3. LoopTypes'
  <2>1. CASE Rest(todo) # {}
    BY <2>1 DEF WriteNext, TypeOK, LoopTypes, Rest, lapiVars, policy, listVars
  <2>2. CASE Rest(todo) = {}
    BY <2>2 DEF WriteNext, AfterWrite, TypeOK, LoopTypes, lapiVars, policy, listVars
  <2> QED  BY <2>1, <2>2
<1> QED  BY <1>2, <1>3 DEF LoopTypes, FileTypes, TypeOK

\* The types of a step of startup: ensureMap and retireUnusedMaps.
LEMMA StartupTypes ==
  ASSUME TypeOK, EnsureMap \/ RetireMap
  PROVE  TypeOK'
<1>1. FileTypes'
  <2>1. CASE UNCHANGED <<txt, dbm, history, faults>>
    BY <2>1, TypesOfFiles DEF FileTypes, history
  <2>2. CASE todo # {} /\ WriteMapBestEffort(First(todo), {})
    <3>1. First(todo) \in Remediation
      BY <2>2, FirstIsOne DEF TypeOK
    <3> QED  BY <2>2, <3>1, TypesOfFiles, BestEffortOutcome DEF Outcome
  <2> QED  BY <2>1, <2>2 DEF EnsureMap, RetireMap
<1>2. LoopTypes'
  <2>1. /\ todo' \subseteq Remediation
        /\ pc' \in {"ensure", "retire", "sync"} /\ pc # "down"
    BY DEF EnsureMap, RetireMap, TypeOK, Rest
  <2> QED  BY <2>1 DEF EnsureMap, RetireMap, TypeOK, LoopTypes, lapiVars, policy, listVars
<1> QED  BY <1>1, <1>2 DEF LoopTypes, FileTypes, TypeOK

\* Every step keeps the types.
LEMMA StepTypes ==
  ASSUME TypeOK, Next
  PROVE  TypeOK'
<1>1. LoopTypes /\ FileTypes
  BY TypesAsParts
<1>2. SUFFICES LoopTypes' /\ FileTypes'
  BY DEF LoopTypes, FileTypes, TypeOK
<1>3. CASE Boot
  <2>1. held = {}
    BY <1>1, <1>3 DEF Boot, LoopTypes
  <2>2. LoopTypes'
    BY <1>1, <1>3, <2>1 DEF Boot, LoopTypes, lapiVars, listVars
  <2>3. FileTypes'
    BY <1>1, <1>3 DEF Boot, FileTypes
  <2> QED  BY <2>2, <2>3
<1>4. CASE EnsureMap \/ RetireMap
  BY <1>4, StartupTypes DEF LoopTypes, FileTypes, TypeOK
<1>5. CASE SyncFails \/ PollFails
  <2>1. faults' \in 0..MaxFaults
    BY <1>1, <1>5, FaultKeepsBound DEF FileTypes, SyncFails, PollFails, FetchFails
  <2>2. FileTypes'
    BY <1>1, <1>5, <2>1 DEF FileTypes, SyncFails, PollFails, history
  <2>3. LoopTypes'
    BY <1>1, <1>5 DEF LoopTypes, SyncFails, PollFails, FetchFails, policy, listVars
  <2> QED  BY <2>2, <2>3
<1>6. CASE Sync \/ PollResync
  <2>1. PICK snapshot \in {lapi, {}} :
          /\ Fetch(snapshot, lapi)
          /\ \/ ApplyFull(snapshot, "kept", "refused")
             \/ ApplyFull(snapshot, "poll", "poll")
    BY <1>6 DEF Sync, PollResync
  <2>2. snapshot \in SUBSET Entry
    BY <1>1 DEF LoopTypes
  <2>3. /\ held' \subseteq produced \X IP
        /\ pending' \in {0, 1} /\ due' \in BOOLEAN
        /\ job' \in {"kept", "refused", "poll"}
    BY <1>1, <2>1, <2>2, ApplyFullTypes
  <2>4. faults' \in 0..MaxFaults
    BY <1>1, <2>1, FaultKeepsBound DEF FileTypes, Fetch
  <2>5. FileTypes'
    BY <1>1, <1>6, <2>4 DEF FileTypes, Sync, PollResync, history
  <2>6. BeginWrite /\ UNCHANGED policy /\ pc # "down" /\ UNCHANGED lapi /\ pulled' = lapi
    BY <1>6, <2>1 DEF Sync, PollResync, WritesResync, Fetch
  <2>7. LoopTypes'
    BY <1>1, <2>3, <2>6 DEF LoopTypes, BeginWrite, policy
  <2> QED  BY <2>5, <2>7
<1>7. CASE PollDelta
  <2>1. New \subseteq produced \X IP
    BY <1>1, EnforcedTypes DEF New, LoopTypes
  <2>2. held' \subseteq produced \X IP
    BY <1>1, <1>7, <2>1 DEF PollDelta, DeltaList, LoopTypes
  <2>3. faults' \in 0..MaxFaults
    BY <1>1, <1>7, FaultKeepsBound DEF FileTypes, PollDelta
  <2>4. FileTypes'
    BY <1>1, <1>7, <2>3 DEF FileTypes, PollDelta, history
  <2>5. /\ \/ pc' = "write" /\ todo' = produced /\ job' = "poll"
           \/ UNCHANGED <<pc, todo, job>>
        /\ pc = "tick" /\ UNCHANGED <<lapi, policy, pending, due>> /\ pulled' = lapi
    BY <1>7 DEF PollDelta, BeginWrite
  <2>6. LoopTypes'
    BY <1>1, <2>2, <2>5 DEF LoopTypes, policy
  <2> QED  BY <2>4, <2>6
<1>8. CASE WriteNext
  BY <1>8, WriteTypes DEF LoopTypes, FileTypes, TypeOK
<1>9. CASE WriteFails
  <2>1. faults' \in 0..MaxFaults
    BY <1>1, <1>9, FaultKeepsBound DEF FileTypes, WriteFails, WriteTxtFails
  <2>2. FileTypes'
    BY <1>1, <1>9, <2>1 DEF FileTypes, LoopTypes, WriteFails, WriteTxtFails
  <2>3. LoopTypes'
    BY <1>1, <1>9 DEF LoopTypes, WriteFails, lapiVars, policy, listVars
  <2> QED  BY <2>2, <2>3
<1>10. CASE ResyncFallsDue
  BY <1>1, <1>10 DEF ResyncFallsDue, LoopTypes, FileTypes, history, policy, listVars, lapiVars
<1>11. CASE LapiChanges
  <2>1. lapi' \subseteq Entry
    BY <1>1, <1>11 DEF LapiChanges, LoopTypes
  <2> QED  BY <1>1, <1>11, <2>1 DEF LapiChanges, LoopTypes, FileTypes, history, policy, listVars
<1>12. CASE Crash
  <2>1. faults' \in 0..MaxFaults
    BY <1>1, <1>12, FaultKeepsBound DEF FileTypes, Crash
  <2> QED  BY <1>1, <1>12, <2>1 DEF Crash, LoopTypes, FileTypes, history, lapiVars
<1>13. CASE DeleteFile
  <2>1. faults' \in 0..MaxFaults
    BY <1>1, <1>13, FaultKeepsBound DEF FileTypes, DeleteFile
  <2>2. Missing \in File \ {Torn}
    BY WholeFile DEF File
  <2>3. FileTypes'
    BY <1>1, <1>13, <2>1, <2>2 DEF DeleteFile, FileTypes
  <2>4. LoopTypes'
    BY <1>1, <1>13 DEF DeleteFile, LoopTypes, lapiVars, policy, listVars
  <2> QED  BY <2>3, <2>4
<1> QED
  BY <1>3, <1>4, <1>5, <1>6, <1>7, <1>8, <1>9, <1>10, <1>11, <1>12, <1>13 DEF Next, Step

\* A stuttering step changes nothing.
LEMMA StutterTypes ==
  ASSUME TypeOK, UNCHANGED vars
  PROVE  TypeOK'
  BY DEF TypeOK, vars

\* Every variable keeps its type.
THEOREM TypeCorrect == Spec => []TypeOK
<1>1. TypeOK /\ [Next]_vars => TypeOK'
  BY StepTypes, StutterTypes
<1> QED  BY <1>1, InitTypes, PTL DEF Spec

-------------------------------------------------------------------------------
(* What the steps do to the files *)

\* A step of the loop, or of the LAPI, that leaves the files alone: either it
\* begins a write, or the list and the place in the loop are as they were.
FilesUntouched ==
  /\ UNCHANGED <<policy, txt, dbm, history>>
  /\ \/ pc \in {"sync", "tick"} /\ BeginWrite /\ (pc = "tick" => job' = "poll")
     \/ UNCHANGED <<pc, todo, job, held>>

Untouching ==
  SyncFails \/ PollFails \/ Sync \/ PollResync \/ PollDelta \/ ResyncFallsDue \/ LapiChanges

\* The steps named in Untouching are of that kind.
LEMMA UntouchingSteps == Untouching => FilesUntouched
<1>1. SyncFails \/ PollFails => FilesUntouched
  BY DEF SyncFails, PollFails, FilesUntouched, policy, listVars
<1>2. ResyncFallsDue \/ LapiChanges => FilesUntouched
  BY DEF ResyncFallsDue, LapiChanges, FilesUntouched, policy, listVars
<1>3. Sync => FilesUntouched
  BY DEF Sync, FilesUntouched
<1>4. PollResync => FilesUntouched
  BY DEF PollResync, WritesResync, ApplyFull, FilesUntouched
<1>5. PollDelta => FilesUntouched
  BY DEF PollDelta, WritesDelta, FilesUntouched
<1> QED  BY <1>1, <1>2, <1>3, <1>4, <1>5 DEF Untouching

\* Every step is one of these.
LEMMA Steps ==
  Next => \/ Boot \/ EnsureMap \/ RetireMap \/ Untouching \/ WriteNext \/ WriteFails
          \/ Crash \/ DeleteFile
  BY DEF Next, Step, Untouching

\* One map of a write (writeMap, in write).
LEMMA WriteNextOutcome ==
  ASSUME TypeOK, WriteNext
  PROVE  LET r == First(todo)
         IN  /\ r \in todo /\ r \in Remediation
             /\ Outcome(r, ListOf(r))
             /\ txt'[r] = Holding(ListOf(r))
             /\ mapType = "dbm" => \/ dbm'[r] = Holding(ListOf(r))
                                   \/ r \in deleted <=> r \in deleted'
             /\ UNCHANGED <<held, produced, mapType, job>>
             /\ \/ todo' = todo \ {r} /\ pc' = "write"
                \/ /\ todo \subseteq {r} /\ todo' = {}
                   /\ pc' \in {"tick", "sync"}
                   /\ pc' = "tick" => job = "poll" \/ AllPresent
<1> DEFINE r == First(todo)
<1>1. pc = "write" /\ r \in todo /\ r \in Remediation /\ ListOf(r) \subseteq IP
  BY FirstIsOne DEF WriteNext, TypeOK, ListOf
<1>2. /\ Outcome(r, ListOf(r))
      /\ txt'[r] = Holding(ListOf(r))
      /\ mapType = "dbm" => \/ dbm'[r] = Holding(ListOf(r))
                            \/ r \in deleted <=> r \in deleted'
  <2> HIDE DEF r
  <2>1. CASE WriteMapOk(r, ListOf(r))
    BY <1>1, <2>1, TypesOfFiles, WriteMapOkOutcome
  <2>2. CASE BuildDBMFails(r, ListOf(r))
    BY <1>1, <2>2, TypesOfFiles, BuildDBMFailsOutcome
  <2> QED  BY <2>1, <2>2 DEF WriteNext, r
<1>3. UNCHANGED <<held, produced, mapType, job>>
  BY DEF WriteNext, policy, listVars
<1>4. \/ todo' = todo \ {r} /\ pc' = "write"
      \/ /\ todo \subseteq {r} /\ todo' = {}
         /\ pc' \in {"tick", "sync"}
         /\ pc' = "tick" => job = "poll" \/ AllPresent
  <2> HIDE DEF AllPresent
  <2> QED  BY <1>1 DEF WriteNext, AfterWrite, Rest
<1> QED  BY <1>1, <1>2, <1>3, <1>4

\* One map of the startup work (ensureMap, retireUnusedMaps).
LEMMA StartupOutcome ==
  ASSUME TypeOK, EnsureMap \/ RetireMap, todo # {}
  PROVE  LET r == First(todo)
         IN  /\ r \in todo /\ r \in Remediation
             /\ todo' = todo \ {r} /\ UNCHANGED <<pc, policy>>
             /\ \/ Outcome(r, {})
                \/ /\ pc = "ensure" => txt[r] # Missing
                   /\ pc = "retire" => txt[r] \in {Missing, Holding({})}
                   /\ UNCHANGED <<txt, dbm, history>>
<1> DEFINE r == First(todo)
<1>1. r \in todo /\ r \in Remediation
  BY FirstIsOne DEF TypeOK
<1>2. WriteMapBestEffort(r, {}) => Outcome(r, {})
  BY <1>1, TypesOfFiles, BestEffortOutcome
<1> HIDE DEF r
<1>3. CASE EnsureMap
  BY <1>1, <1>2, <1>3 DEF EnsureMap, NeedsMap, Rest, r
<1>4. CASE RetireMap
  BY <1>1, <1>2, <1>4 DEF RetireMap, NeedsRetiring, Rest, r
<1> QED  BY <1>1, <1>3, <1>4 DEF r

-------------------------------------------------------------------------------
(* The inductive invariant, by what it is about *)

\* Every map rendered has a txt once ensureMap has been through it.
Created ==
  /\ pc = "ensure" => /\ todo \subseteq produced
                      /\ \A r \in produced \ (todo \cup suspect) : txt[r] # Missing
  /\ pc \notin {"down", "ensure"} => \A r \in produced \ suspect : txt[r] # Missing

\* A map of a former policy is empty once retireUnusedMaps has been through it.
Retired ==
  /\ pc = "retire" => /\ todo \subseteq Remediation \ produced
                      /\ \A r \in Remediation \ (produced \cup todo \cup suspect) :
                           txt[r] \in {Missing, Holding({})}
  /\ RetiredListsEmpty

\* A map holds the list once write has been through it.
Written ==
  /\ pc = "write" => /\ todo \subseteq produced
                     /\ \A r \in produced \ (todo \cup suspect) :
                          Consulted(r) = Holding(ListOf(r))
  /\ FilesInStep

\* A map that nobody deletes exists once write has been through it, and in
\* the writes that follow a poll all the while.
InPlace ==
  /\ pc = "write" => /\ \A r \in produced \ (todo \cup deleted) : txt[r] # Missing
                     /\ job = "poll" => \A r \in produced \ deleted : Consulted(r) # Missing
  /\ NoneMissingOncePolling

IInv == TypeOK /\ Created /\ Retired /\ Written /\ InPlace

\* The invariant holds before the first start.
LEMMA InitInv == Init => IInv
<1> SUFFICES ASSUME Init PROVE Created /\ Retired /\ Written /\ InPlace
  BY InitTypes DEF IInv
<1> QED
  BY DEF Init, Created, Retired, RetiredListsEmpty, Written, FilesInStep, InPlace,
         NoneMissingOncePolling

\* Every step keeps Created.
LEMMA CreatedStep ==
  ASSUME TypeOK, Created, Retired, Written, Next
  PROVE  Created'
<1>1. CASE Boot
  BY <1>1 DEF Boot, Created
<1>2. CASE EnsureMap \/ RetireMap
  <2>1. CASE todo = {}
    BY <1>2, <2>1 DEF EnsureMap, RetireMap, Created, history, policy
  <2>2. CASE todo # {}
    <3>1. CASE UNCHANGED <<txt, dbm, history>>
      BY <1>2, <2>2, <3>1, StartupOutcome, WholeFile DEF Created, Outcome, history, policy
    <3>2. CASE Outcome(First(todo), {})
      <4> DEFINE r == First(todo)
      <4>1. /\ r \in todo /\ r \in Remediation
            /\ todo' = todo \ {r} /\ UNCHANGED <<pc, produced>>
        BY <1>2, <2>2, StartupOutcome DEF policy
      <4>2. \A q \in Remediation : q \notin suspect' /\ txt[q] # Missing => txt'[q] # Missing
        BY <3>2, WholeFile DEF Outcome
      <4>3. r \notin suspect' => txt'[r] # Missing
        BY <3>2, WholeFile DEF Outcome
      <4>4. \A q \in Remediation \ {r} : q \in suspect' <=> q \in suspect
        BY <3>2 DEF Outcome
      <4>5. produced \subseteq Remediation
        BY DEF TypeOK
      <4> HIDE DEF r
      <4> QED  BY <4>1, <4>2, <4>3, <4>4, <4>5 DEF Created
    <3> QED  BY <1>2, <2>2, <3>1, <3>2, StartupOutcome
  <2> QED  BY <2>1, <2>2
<1>3. CASE Untouching
  <2>1. FilesUntouched
    BY <1>3, UntouchingSteps
  <2> QED  BY <2>1 DEF FilesUntouched, BeginWrite, Created, history, policy
<1>4. CASE WriteNext
  <2> DEFINE r == First(todo)
  <2>1. /\ pc = "write" /\ pc' \notin {"down", "ensure"} /\ produced' = produced
        /\ txt'[r] # Missing
        /\ \A q \in Remediation \ {r} : txt'[q] = txt[q] /\ (q \in suspect' <=> q \in suspect)
    BY <1>4, WriteNextOutcome, WholeFile DEF Outcome, WriteNext
  <2>2. produced \subseteq Remediation
    BY DEF TypeOK
  <2> HIDE DEF r
  <2> QED  BY <2>1, <2>2 DEF Created
<1>5. CASE WriteFails
  BY <1>5 DEF WriteFails, WriteTxtFails, Created, policy
<1>6. CASE Crash
  BY <1>6 DEF Crash, Created
<1>7. CASE DeleteFile
  <2>1. \A q \in Remediation : q \notin suspect' => q \notin suspect /\ txt'[q] = txt[q]
    BY <1>7 DEF DeleteFile, TypeOK
  <2>2. UNCHANGED <<pc, produced, todo>> /\ produced \subseteq Remediation
    BY <1>7 DEF DeleteFile, policy, TypeOK
  <2> QED  BY <2>1, <2>2 DEF Created
<1> QED  BY <1>1, <1>2, <1>3, <1>4, <1>5, <1>6, <1>7, Steps

\* Every step keeps Retired: write handles none but produced maps.
LEMMA RetiredStep ==
  ASSUME TypeOK, Created, Retired, Written, Next
  PROVE  Retired'
<1>1. CASE Boot
  BY <1>1 DEF Boot, Retired, RetiredListsEmpty
<1>2. CASE EnsureMap \/ RetireMap
  <2>1. CASE todo = {}
    BY <1>2, <2>1 DEF EnsureMap, RetireMap, Retired, RetiredListsEmpty, history, policy
  <2>2. CASE todo # {}
    <3> DEFINE r == First(todo)
    <3>1. /\ r \in todo /\ r \in Remediation
          /\ todo' = todo \ {r} /\ UNCHANGED <<pc, produced>>
          /\ pc \in {"ensure", "retire"}
      BY <1>2, <2>2, StartupOutcome DEF policy, EnsureMap, RetireMap
    <3>2. pc = "retire" /\ r \notin suspect' => txt'[r] \in {Missing, Holding({})}
      BY <1>2, <2>2, StartupOutcome DEF Outcome, history
    <3>3. \A q \in Remediation \ {r} : txt'[q] = txt[q] /\ (q \in suspect' <=> q \in suspect)
      BY <1>2, <2>2, StartupOutcome DEF Outcome, history
    <3> HIDE DEF r
    <3> QED  BY <3>1, <3>2, <3>3 DEF Retired, RetiredListsEmpty
  <2> QED  BY <2>1, <2>2
<1>3. CASE Untouching
  <2>1. FilesUntouched
    BY <1>3, UntouchingSteps
  <2> QED  BY <2>1 DEF FilesUntouched, BeginWrite, Retired, RetiredListsEmpty, history, policy
<1>4. CASE WriteNext
  <2> DEFINE r == First(todo)
  <2>1. r \in todo /\ todo \subseteq produced /\ pc = "write"
    BY <1>4, WriteNextOutcome DEF WriteNext, Written
  <2>2. pc' \in {"write", "sync", "tick"} /\ produced' = produced
    BY <1>4, WriteNextOutcome
  <2>3. \A q \in Remediation \ {r} : txt'[q] = txt[q] /\ (q \in suspect' <=> q \in suspect)
    BY <1>4, WriteNextOutcome DEF Outcome
  <2> HIDE DEF r
  <2> QED  BY <2>1, <2>2, <2>3 DEF Retired, RetiredListsEmpty
<1>5. CASE WriteFails
  BY <1>5 DEF WriteFails, WriteTxtFails, Retired, RetiredListsEmpty, policy
<1>6. CASE Crash
  BY <1>6 DEF Crash, Retired, RetiredListsEmpty
<1>7. CASE DeleteFile
  <2>1. \A q \in Remediation : q \notin suspect' => q \notin suspect /\ txt'[q] = txt[q]
    BY <1>7 DEF DeleteFile, TypeOK
  <2>2. UNCHANGED <<pc, produced, todo>>
    BY <1>7 DEF DeleteFile, policy
  <2> QED  BY <2>1, <2>2 DEF Retired, RetiredListsEmpty
<1> QED  BY <1>1, <1>2, <1>3, <1>4, <1>5, <1>6, <1>7, Steps

\* Every step keeps Written: the list is not edited while it is written, and
\* what a failed write leaves behind is under suspicion.
LEMMA WrittenStep ==
  ASSUME TypeOK, Written, Next
  PROVE  Written'
<1>1. CASE Boot \/ EnsureMap \/ RetireMap \/ Crash
  <2>1. pc' \notin {"write", "tick"}
    BY <1>1 DEF Boot, EnsureMap, RetireMap, Crash
  <2> QED  BY <2>1 DEF Written, FilesInStep
<1>2. CASE Untouching
  <2>1. FilesUntouched
    BY <1>2, UntouchingSteps
  <2>2. CASE pc' = "write" /\ todo' = produced
    BY <2>1, <2>2 DEF FilesUntouched, Written, FilesInStep, policy
  <2>3. CASE UNCHANGED <<pc, todo, job, held>>
    BY <2>1, <2>3 DEF FilesUntouched, Written, FilesInStep, Consulted, ListOf, history, policy
  <2> QED  BY <2>1, <2>2, <2>3 DEF FilesUntouched, BeginWrite
<1>3. CASE WriteNext
  <2>0. PICK r : r = First(todo)
    OBVIOUS
  <2>1. /\ r \in todo /\ r \in Remediation /\ pc = "write"
        /\ todo \subseteq produced /\ produced \subseteq Remediation
    BY <1>3, <2>0, WriteNextOutcome DEF WriteNext, Written, TypeOK
  <2>2. UNCHANGED <<held, produced, mapType>>
    BY <1>3, <2>0, WriteNextOutcome
  <2>3. \A q \in Remediation \ {r} :
          /\ Consulted(q)' = Consulted(q) /\ ListOf(q)' = ListOf(q)
          /\ q \in suspect' <=> q \in suspect
    BY <1>3, <2>0, <2>2, WriteNextOutcome DEF Outcome, Consulted, ListOf
  <2>4. r \notin suspect' => Consulted(r)' = Holding(ListOf(r))
    BY <1>3, <2>0, <2>2, WriteNextOutcome DEF Outcome, Consulted
  <2>5. ListOf(r)' = ListOf(r)
    BY <2>2 DEF ListOf
  <2>6. \/ todo' = todo \ {r} /\ pc' = "write"
        \/ todo \subseteq {r} /\ todo' = {} /\ pc' \in {"tick", "sync"}
    BY <1>3, <2>0, WriteNextOutcome
  <2>7. \A q \in produced' \ (todo' \cup suspect') : Consulted(q)' = Holding(ListOf(q)')
    <3> SUFFICES ASSUME NEW q \in produced, q \notin todo', q \notin suspect'
                 PROVE  Consulted(q)' = Holding(ListOf(q)')
      BY <2>2
    <3>1. CASE q = r
      BY <2>4, <2>5, <3>1
    <3>2. CASE q # r
      <4>1. Consulted(q) = Holding(ListOf(q))
        BY <2>1, <2>3, <2>6, <3>2 DEF Written
      <4> QED  BY <2>1, <2>3, <3>2, <4>1
    <3> QED  BY <3>1, <3>2
  <2> QED  BY <2>1, <2>2, <2>6, <2>7 DEF Written, FilesInStep
<1>4. CASE WriteFails
  <2>1. UNCHANGED <<produced, mapType, held, txt, dbm>> /\ suspect' = suspect \cup todo
    BY <1>4 DEF WriteFails, WriteTxtFails, policy, listVars
  <2>2. pc = "write" /\ pc' \in {"tick", "sync"}
    BY <1>4 DEF WriteFails
  <2> QED  BY <2>1, <2>2 DEF Written, FilesInStep, Consulted, ListOf
<1>5. CASE DeleteFile
  <2>1. \A q \in Remediation :
          q \notin suspect' => q \notin suspect /\ txt'[q] = txt[q] /\ dbm'[q] = dbm[q]
    BY <1>5 DEF DeleteFile, TypeOK
  <2>2. UNCHANGED <<pc, produced, mapType, held, todo>> /\ produced \subseteq Remediation
    BY <1>5 DEF DeleteFile, policy, listVars, TypeOK
  <2> QED  BY <2>1, <2>2 DEF Written, FilesInStep, Consulted, ListOf
<1> QED  BY <1>1, <1>2, <1>3, <1>4, <1>5, Steps

\* Every step keeps InPlace: startup ends with no DBM missing, and a failed
\* conversion removes none.
LEMMA InPlaceStep ==
  ASSUME TypeOK, Written, InPlace, Next
  PROVE  InPlace'
<1>1. CASE Boot \/ EnsureMap \/ RetireMap \/ Crash
  <2>1. pc' \notin {"write", "tick"}
    BY <1>1 DEF Boot, EnsureMap, RetireMap, Crash
  <2> QED  BY <2>1 DEF InPlace, NoneMissingOncePolling
<1>2. CASE Untouching
  <2>1. FilesUntouched
    BY <1>2, UntouchingSteps
  <2>2. UNCHANGED <<mapType, produced, txt, dbm, deleted>>
    BY <2>1 DEF FilesUntouched, policy, history
  <2>3. CASE UNCHANGED <<pc, todo, job, held>>
    BY <2>2, <2>3 DEF InPlace, NoneMissingOncePolling, Consulted
  <2>4. CASE pc = "sync" /\ pc' = "write" /\ todo' = produced
    <3>1. job' \in {"kept", "refused"}
      BY <1>2, <2>4 DEF Untouching, SyncFails, PollFails, Sync, PollResync, PollDelta,
                        ResyncFallsDue, LapiChanges, ApplyFull
    <3> QED  BY <2>2, <2>4, <3>1 DEF InPlace, NoneMissingOncePolling
  <2>5. CASE pc = "tick" /\ pc' = "write" /\ todo' = produced
    BY <2>2, <2>5 DEF InPlace, NoneMissingOncePolling, Consulted
  <2> QED  BY <2>1, <2>3, <2>4, <2>5 DEF FilesUntouched, BeginWrite
<1>3. CASE WriteNext
  <2> DEFINE r == First(todo)
  <2>1. /\ r \in todo /\ r \in Remediation /\ pc = "write"
        /\ todo \subseteq produced /\ produced \subseteq Remediation
    BY <1>3, WriteNextOutcome DEF WriteNext, Written, TypeOK
  <2>2. UNCHANGED <<produced, mapType, job>>
    BY <1>3, WriteNextOutcome
  <2>3. \A q \in Remediation \ {r} :
          /\ txt'[q] = txt[q] /\ dbm'[q] = dbm[q]
          /\ q \in deleted' <=> q \in deleted
    BY <1>3, WriteNextOutcome DEF Outcome
  <2>4. txt'[r] # Missing
    BY <1>3, WriteNextOutcome, WholeFile
  <2>5. \/ todo' = todo \ {r} /\ pc' = "write"
        \/ /\ todo \subseteq {r} /\ todo' = {} /\ pc' \in {"tick", "sync"}
           /\ pc' = "tick" => job = "poll" \/ AllPresent
    BY <1>3, WriteNextOutcome
  <2>6. \A q \in produced \ (todo' \cup deleted') : txt'[q] # Missing
    <3> HIDE DEF r
    <3> QED  BY <2>1, <2>3, <2>4, <2>5 DEF InPlace
  <2>7. ASSUME job = "poll", NEW q \in produced, q \notin deleted'
        PROVE  Consulted(q)' # Missing
    <3>1. CASE q = r
      <4>1. mapType = "dbm" => dbm'[r] = Holding(ListOf(r)) \/ r \notin deleted
        BY <1>3, <2>7, <3>1, WriteNextOutcome
      <4>2. dbm[r] # Missing => dbm'[r] # Missing
        BY <1>3, WriteNextOutcome DEF Outcome
      <4>3. Holding(ListOf(r)) # Missing
        BY WholeFile
      <4> HIDE DEF r
      <4>4. mapType = "dbm" => dbm'[r] # Missing
        BY <2>1, <2>7, <3>1, <4>1, <4>2, <4>3 DEF InPlace, Consulted
      <4> QED  BY <2>2, <2>4, <3>1, <4>4 DEF Consulted
    <3>2. CASE q # r
      <4> HIDE DEF r
      <4> QED  BY <2>1, <2>2, <2>3, <2>7, <3>2 DEF InPlace, Consulted
    <3> QED  BY <3>1, <3>2
  <2>8. ASSUME AllPresent, todo' = {}, NEW q \in produced, q \notin deleted'
        PROVE  Consulted(q)' # Missing
    BY <2>2, <2>6, <2>8 DEF AllPresent, Consulted
  <2> HIDE DEF r
  <2> QED  BY <2>2, <2>5, <2>6, <2>7, <2>8 DEF InPlace, NoneMissingOncePolling
<1>4. CASE WriteFails
  <2>1. UNCHANGED <<produced, mapType, txt, dbm, deleted, job>>
    BY <1>4 DEF WriteFails, WriteTxtFails, policy
  <2>2. pc = "write" /\ pc' \in {"tick", "sync"} /\ (pc' = "tick" => job = "poll")
    BY <1>4 DEF WriteFails
  <2> QED  BY <2>1, <2>2 DEF InPlace, NoneMissingOncePolling, Consulted
<1>5. CASE DeleteFile
  <2>1. \A q \in Remediation :
          q \notin deleted' => q \notin deleted /\ txt'[q] = txt[q] /\ dbm'[q] = dbm[q]
    BY <1>5 DEF DeleteFile, TypeOK
  <2>2. UNCHANGED <<pc, produced, mapType, job, todo>> /\ produced \subseteq Remediation
    BY <1>5 DEF DeleteFile, policy, TypeOK
  <2> QED  BY <2>1, <2>2 DEF InPlace, NoneMissingOncePolling, Consulted
<1> QED  BY <1>1, <1>2, <1>3, <1>4, <1>5, Steps

-------------------------------------------------------------------------------
(* Theorems *)

\* A stuttering step keeps them all.
LEMMA StutterInv == IInv /\ UNCHANGED vars => IInv'
<1> SUFFICES ASSUME IInv, UNCHANGED vars PROVE IInv'
  OBVIOUS
<1>1. TypeOK'
  BY StutterTypes DEF IInv
<1>2. Created' /\ Retired' /\ Written' /\ InPlace'
  BY DEF IInv, vars, Created, Retired, RetiredListsEmpty, Written, FilesInStep, InPlace,
         NoneMissingOncePolling, Consulted, ListOf
<1> QED  BY <1>1, <1>2 DEF IInv

\* The parts hold together: each map is created, retired and written by a loop
\* that may fail, stop and start again at any map.
THEOREM Inductive == Spec => []IInv
<1>1. IInv /\ Next => IInv'
  BY StepTypes, CreatedStep, RetiredStep, WrittenStep, InPlaceStep DEF IInv
<1>2. IInv /\ [Next]_vars => IInv'
  BY <1>1, StutterInv
<1> QED  BY <1>2, InitInv, PTL DEF Spec

\* Between polls every map Apache consults holds the list, unless a file
\* operation has failed or a file was deleted since (run, write).
THEOREM FilesAreInStep == Spec => []FilesInStep
<1>1. IInv => FilesInStep
  BY DEF IInv, Written
<1> QED  BY <1>1, Inductive, PTL

\* Every map rendered has its txt before the first snapshot (ensureMap).
THEOREM MapsAreEnsured == Spec => []EnsuredMapsExist
<1>1. IInv => EnsuredMapsExist
  BY DEF IInv, Created, EnsuredMapsExist
<1> QED  BY <1>1, Inductive, PTL

\* No decision is left in the txt of a map of a former policy, unless emptying
\* it failed (retireUnusedMaps).
THEOREM RetiredListsAreEmpty == Spec => []RetiredListsEmpty
<1>1. IInv => RetiredListsEmpty
  BY DEF IInv, Retired
<1> QED  BY <1>1, Inductive, PTL

\* Where MAP_TYPE is txt at every start, no map of a former policy is enforced once the
\* startup work is done, unless emptying it failed (retireUnusedMaps): the DBM is what
\* the code's judgement by the txt gets wrong.
THEOREM RetiredTextsAreEmpty == ASSUME MapTypes = {"txt"} PROVE Spec => []RetiredMapsEmpty
<1>1. TypeOK /\ RetiredListsEmpty => RetiredMapsEmpty
  BY DEF TypeOK, RetiredListsEmpty, RetiredMapsEmpty, Consulted
<1> QED  BY <1>1, TypeCorrect, RetiredListsAreEmpty, PTL

\* A daemon that polls has every map in place that nobody deleted, however
\* often a conversion has failed (missingDBM, buildDBMFrom).
THEOREM NoneIsMissing == Spec => []NoneMissingOncePolling
<1>1. IInv => NoneMissingOncePolling
  BY DEF IInv, InPlace
<1> QED  BY <1>1, Inductive, PTL

\* What OutageKeepsMaps asks of a step.
KeepsMaps ==
  \A r \in produced :
    pc \in {"ensure", "retire", "sync"} /\ txt[r] # Missing =>
      /\ txt'[r] \in {txt[r], Missing}
      /\ dbm'[r] \in {dbm[r], Missing}

\* Startup work fills only missing maps and empties only maps not produced.
LEMMA StartupKeepsMaps ==
  ASSUME TypeOK, Retired, EnsureMap \/ RetireMap
  PROVE  KeepsMaps
<1> DEFINE r == First(todo)
<1>1. CASE UNCHANGED <<txt, dbm, history, faults>>
  BY <1>1 DEF KeepsMaps
<1>2. CASE EnsureMap /\ todo # {} /\ NeedsMap(r) /\ WriteMapBestEffort(r, {})
  <2>1. r \in Remediation /\ Outcome(r, {})
    BY <1>2, FirstIsOne, TypesOfFiles, BestEffortOutcome DEF TypeOK
  <2>2. txt[r] = Missing /\ produced \subseteq Remediation
    BY <1>2 DEF NeedsMap, TypeOK
  <2> HIDE DEF r
  <2> QED  BY <2>1, <2>2 DEF KeepsMaps, Outcome
<1>3. CASE RetireMap /\ todo # {} /\ WriteMapBestEffort(r, {})
  <2>1. r \in todo /\ r \in Remediation /\ Outcome(r, {})
    BY <1>3, FirstIsOne, TypesOfFiles, BestEffortOutcome DEF TypeOK
  <2>2. r \notin produced /\ produced \subseteq Remediation
    BY <1>3, <2>1 DEF RetireMap, Retired, TypeOK
  <2> HIDE DEF r
  <2> QED  BY <2>1, <2>2 DEF KeepsMaps, Outcome
<1> QED  BY <1>1, <1>2, <1>3 DEF EnsureMap, RetireMap

\* Every step keeps the maps that OutageKeepsMaps is about.
LEMMA StepKeepsMaps ==
  ASSUME TypeOK, Retired, Next
  PROVE  KeepsMaps
<1>1. CASE EnsureMap \/ RetireMap
  BY <1>1, StartupKeepsMaps
<1>2. CASE Untouching
  BY <1>2, UntouchingSteps DEF FilesUntouched, KeepsMaps
<1>3. CASE Boot \/ WriteNext \/ WriteFails
  BY <1>3 DEF Boot, WriteNext, WriteFails, KeepsMaps
<1>4. CASE Crash
  BY <1>4 DEF Crash, KeepsMaps
<1>5. CASE DeleteFile
  BY <1>5 DEF DeleteFile, KeepsMaps, TypeOK
<1> QED  BY <1>1, <1>2, <1>3, <1>4, <1>5, Steps

\* Until a snapshot has been applied, a restarted daemon changes neither file of a map
\* that it renders and that has its txt (ensureMap, retireUnusedMaps, run).
THEOREM OutageUnbansNobody == Spec => OutageKeepsMaps
<1>1. TypeOK /\ Retired /\ Next => KeepsMaps
  BY StepKeepsMaps
<1>2. IInv /\ [Next]_vars => [KeepsMaps]_vars
  BY <1>1 DEF IInv
<1> QED  BY <1>2, Inductive, PTL DEF Spec, OutageKeepsMaps, KeepsMaps

\* Where nothing is deleted from outside, no map has a DBM without its txt.
TxtBesideDBM == \A r \in Remediation : txt[r] = Missing => dbm[r] = Missing

\* Every write of a map leaves its txt in place, so only a deletion can take the txt
\* from beside a DBM.
LEMMA TxtBesideDBMStep ==
  ASSUME ~Deletable, TypeOK, TxtBesideDBM, [Next]_vars
  PROVE  TxtBesideDBM'
<1>1. ASSUME NEW r \in Remediation, NEW ips,
             WriteMapOk(r, ips) \/ BuildDBMFails(r, ips)
      PROVE  TxtBesideDBM'
  BY <1>1, WholeFile DEF WriteMapOk, BuildDBMFails, TxtBesideDBM, TypeOK
<1>2. CASE UNCHANGED <<txt, dbm>>
  BY <1>2 DEF TxtBesideDBM
<1>3. CASE EnsureMap \/ RetireMap
  <2>1. CASE todo # {} /\ WriteMapBestEffort(First(todo), {})
    <3>1. First(todo) \in Remediation
      BY <2>1, FirstIsOne DEF TypeOK
    <3> QED
      BY <1>1, <1>2, <2>1, <3>1 DEF WriteMapBestEffort, WriteTxtFails
  <2> QED
    BY <1>2, <1>3, <2>1 DEF EnsureMap, RetireMap
<1>4. CASE WriteNext
  <2>1. First(todo) \in Remediation
    BY <1>4, FirstIsOne DEF WriteNext, TypeOK
  <2> QED
    BY <1>1, <1>4, <2>1 DEF WriteNext
<1>5. CASE Untouching
  BY <1>2, <1>5, UntouchingSteps DEF FilesUntouched
<1>6. CASE Boot \/ WriteFails \/ Crash
  BY <1>2, <1>6 DEF Boot, WriteFails, WriteTxtFails, Crash
<1>7. CASE DeleteFile
  BY <1>7 DEF DeleteFile
<1>8. CASE UNCHANGED vars
  BY <1>2, <1>8 DEF vars
<1> QED
  BY <1>3, <1>4, <1>5, <1>6, <1>7, <1>8, Steps

\* What ExistingMapsLeftAlone asks of a step.
LeavesAlone ==
  \A r \in produced :
    pc \in {"ensure", "retire", "sync"} /\ Consulted(r) # Missing
      => Consulted(r)' \in {Consulted(r), Missing}

\* The comment at src/output.go:157 is true without reserve, over every failure, crash
\* and change of policy, where nothing is deleted from outside or every process writes
\* txt maps: what breaks it is a txt deleted from beside its DBM (ensureMap).
THEOREM LeftAloneUnlessDeleted ==
  ASSUME ~Deletable \/ MapTypes = {"txt"}
  PROVE  Spec => ExistingMapsLeftAlone
<1> DEFINE Beside == ~Deletable => TxtBesideDBM
<1>1. Init => Beside
  BY DEF Init, TxtBesideDBM
<1>2. TypeOK /\ Beside /\ [Next]_vars => Beside'
  BY TxtBesideDBMStep
<1>3. ASSUME IInv, Beside, Next PROVE LeavesAlone
  <2>1. SUFFICES ASSUME NEW r \in produced, pc \in {"ensure", "retire", "sync"},
                        Consulted(r) # Missing
                 PROVE  Consulted(r)' \in {Consulted(r), Missing}
    BY DEF LeavesAlone
  <2>2. TypeOK /\ Retired /\ r \in Remediation
    BY <1>3 DEF IInv, TypeOK
  <2>3. txt[r] # Missing
    BY <1>3, <2>1, <2>2 DEF Consulted, TypeOK, TxtBesideDBM
  <2>4. KeepsMaps /\ mapType' = mapType
    <3>1. KeepsMaps
      BY <1>3, <2>2, StepKeepsMaps
    <3>2. mapType' = mapType
      BY <1>3, <2>1, UntouchingSteps, Steps
         DEF Boot, EnsureMap, RetireMap, FilesUntouched, WriteNext, WriteFails, Crash,
             DeleteFile, policy
    <3> QED
      BY <3>1, <3>2
  <2>5. txt'[r] \in {txt[r], Missing} /\ dbm'[r] \in {dbm[r], Missing}
    BY <2>1, <2>3, <2>4 DEF KeepsMaps
  <2> QED
    BY <2>4, <2>5 DEF Consulted
<1>4. IInv /\ Beside /\ [Next]_vars => [LeavesAlone]_vars
  BY <1>3
<1>5. IInv => TypeOK
  BY DEF IInv
<1> HIDE DEF Beside
<1> QED
  BY <1>1, <1>2, <1>4, <1>5, Inductive, PTL DEF Spec, ExistingMapsLeftAlone, LeavesAlone

-------------------------------------------------------------------------------
(* Refinement: the loop implements MapFiles *)

\* What a write of map r does to the files is what MapFiles allows a write.
LEMMA WritesReplace ==
  ASSUME TypeOK, NEW r \in Remediation, NEW ips,
         WriteMapOk(r, ips) \/ BuildDBMFails(r, ips)
  PROVE  Maps!Write(r, ips)
BY DEF WriteMapOk, BuildDBMFails, Maps!Write

\* The best effort of the startup work is a write, or leaves the files as they were.
LEMMA BestEffortReplaces ==
  ASSUME TypeOK, NEW r \in Remediation, NEW ips, WriteMapBestEffort(r, ips)
  PROVE  Maps!Write(r, ips) \/ UNCHANGED <<txt, dbm>>
BY WritesReplace DEF WriteMapBestEffort, WriteTxtFails

\* Fetching and applying replaces the list by entries of the maps that are rendered.
LEMMA ListStaysTyped == TypeOK /\ [Next]_vars => held' \subseteq produced' \X IP
<1>1. TypeOK /\ [Next]_vars => TypeOK'
  BY StepTypes, StutterTypes
<1> QED
  BY <1>1 DEF TypeOK

\* The startup work creates and retires.
LEMMA StartupPrepares ==
  ASSUME IInv, EnsureMap \/ RetireMap
  PROVE  [Maps!Next]_(Maps!vars)
<1>0. TypeOK /\ Created /\ Retired
  BY DEF IInv
<1>m. Mode = "preparing" /\ UNCHANGED <<held, produced>>
  BY DEF EnsureMap, RetireMap, Mode, policy, listVars
<1>r. PICK r : r = First(todo)
  OBVIOUS
<1>1. CASE todo = {}
  <2>1. UNCHANGED <<txt, dbm>> /\ (pc' = "retire" \/ pc' = "sync")
    BY <1>1 DEF EnsureMap, RetireMap
  <2>2. Mode' \in {"preparing", "fetching"}
    BY <2>1 DEF Mode
  <2>3. UNCHANGED Maps!vars \/ Maps!Ready
    BY <1>m, <2>1, <2>2 DEF Maps!vars, Maps!Ready, Maps!files
  <2> QED
    BY <2>3 DEF Maps!Next
<1>2. CASE todo # {}
  <2>1. r \in todo /\ r \in Remediation /\ pc' = pc
    BY <1>0, <1>2, <1>r, FirstIsOne DEF TypeOK, EnsureMap, RetireMap
  <2>2. UNCHANGED Mode
    BY <2>1 DEF Mode
  <2>3. CASE UNCHANGED <<txt, dbm>>
    BY <1>m, <2>2, <2>3 DEF Maps!vars
  <2>4. CASE EnsureMap /\ NeedsMap(r) /\ Maps!Write(r, {})
    <3>1. r \in produced /\ txt[r] = Missing
      BY <1>0, <2>1, <2>4 DEF Created, EnsureMap, NeedsMap
    <3>2. Maps!Create(r) \/ Maps!Overwrite(r)
      BY <1>m, <2>2, <2>4, <3>1 DEF Maps!Create, Maps!Overwrite
    <3> QED
      BY <2>1, <3>2 DEF Maps!Next
  <2>5. CASE RetireMap /\ NeedsRetiring(r) /\ Maps!Write(r, {})
    <3>1. r \notin produced /\ txt[r] \notin {Missing, Holding({})}
      BY <1>0, <2>1, <2>5 DEF Retired, RetireMap, NeedsRetiring
    <3>2. Maps!Retire(r)
      BY <1>m, <2>2, <2>5, <3>1 DEF Maps!Retire
    <3> QED
      BY <2>1, <3>2 DEF Maps!Next
  <2>6. CASE EnsureMap
    BY <1>0, <1>2, <1>r, <2>1, <2>3, <2>4, <2>6, BestEffortReplaces DEF EnsureMap
  <2>7. CASE RetireMap
    BY <1>0, <1>2, <1>r, <2>1, <2>3, <2>5, <2>7, BestEffortReplaces DEF RetireMap
  <2> QED
    BY <2>6, <2>7
<1> QED
  BY <1>1, <1>2

\* A write that goes on renders a map.
LEMMA WriteRenders ==
  ASSUME IInv, WriteNext
  PROVE  Maps!Next
<1>0. TypeOK /\ Written /\ pc = "write"
  BY DEF IInv, WriteNext
<1>r. PICK r : r = First(todo)
  OBVIOUS
<1>1. r \in Remediation /\ r \in produced
  BY <1>0, <1>r, FirstIsOne DEF TypeOK, Written
<1>2. Maps!Write(r, ListOf(r)) /\ UNCHANGED <<held, produced>>
  BY <1>0, <1>1, <1>r, WritesReplace DEF WriteNext, policy, listVars
<1>3. pc' \in {"write", "tick", "sync"}
  BY <1>0 DEF WriteNext, AfterWrite
<1>4. Mode = "serving" /\ Mode' \in {"serving", "fetching"}
  BY <1>0, <1>3 DEF Mode
<1>5. Maps!ListOf(r) = ListOf(r)
  BY DEF Maps!ListOf, ListOf
<1>6. Maps!Render(r)
  BY <1>1, <1>2, <1>4, <1>5 DEF Maps!Render
<1> QED
  BY <1>1, <1>6 DEF Maps!Next

\* A fetch adopts a list, or shows in no file.
LEMMA FetchingAdopts ==
  ASSUME IInv, Untouching, held' \subseteq produced' \X IP
  PROVE  [Maps!Next]_(Maps!vars)
<1>1. FilesUntouched
  BY UntouchingSteps
<1>2. UNCHANGED <<produced, txt, dbm>>
  BY <1>1 DEF FilesUntouched, policy
<1>3. CASE pc \in {"sync", "tick"} /\ BeginWrite
  <2>1. Mode \in {"fetching", "serving"} /\ Mode' = "serving"
    BY <1>3 DEF BeginWrite, Mode
  <2>2. Maps!Adopt
    BY <1>2, <2>1 DEF Maps!Adopt, Maps!files
  <2> QED
    BY <2>2 DEF Maps!Next
<1>4. CASE UNCHANGED <<pc, todo, job, held>>
  <2>1. UNCHANGED Mode
    BY <1>4 DEF Mode
  <2> QED
    BY <1>2, <1>4, <2>1 DEF Maps!vars
<1> QED
  BY <1>1, <1>3, <1>4 DEF FilesUntouched

\* What happens to the daemon and to its files from outside, and a write that fails.
LEMMA OutsideSteps ==
  ASSUME IInv, Boot \/ WriteFails \/ Crash \/ DeleteFile
  PROVE  [Maps!Next]_(Maps!vars)
<1>0. TypeOK
  BY DEF IInv
<1>1. CASE Boot
  <2>1. /\ Mode = "down" /\ Mode' = "preparing" /\ UNCHANGED <<held, txt, dbm>>
        /\ produced' \in (SUBSET Remediation) \ {{}}
    BY <1>1 DEF Boot, Mode, listVars
  <2>2. Maps!Start
    BY <2>1 DEF Maps!Start, Maps!files
  <2> QED
    BY <2>2 DEF Maps!Next
<1>2. CASE WriteFails
  <2>1. /\ Mode = "serving" /\ Mode' \in {"serving", "fetching"}
        /\ UNCHANGED <<held, produced, txt, dbm>>
    BY <1>2 DEF WriteFails, WriteTxtFails, Mode, policy, listVars
  <2>2. UNCHANGED Maps!vars \/ Maps!Retry
    BY <2>1 DEF Maps!Retry, Maps!files, Maps!vars
  <2> QED
    BY <2>2 DEF Maps!Next
<1>3. CASE Crash
  <2>1. /\ Mode # "down" /\ Mode' = "down" /\ produced' = {} /\ held' = {}
        /\ UNCHANGED <<txt, dbm>>
    BY <1>0, <1>3 DEF Crash, Mode, TypeOK
  <2>2. Maps!Stop
    BY <2>1 DEF Maps!Stop, Maps!files
  <2> QED
    BY <2>2 DEF Maps!Next
<1>4. CASE DeleteFile
  <2>1. UNCHANGED <<Mode, held, produced>>
    BY <1>4 DEF DeleteFile, Mode, policy, listVars
  <2>2. PICK r \in Remediation :
          \/ txt' = [txt EXCEPT ![r] = Missing] /\ UNCHANGED dbm
          \/ dbm' = [dbm EXCEPT ![r] = Missing] /\ UNCHANGED txt
    BY <1>4 DEF DeleteFile
  <2>3. Maps!Delete(r)
    BY <2>1, <2>2 DEF Maps!Delete
  <2> QED
    BY <2>3 DEF Maps!Next
<1> QED
  BY <1>1, <1>2, <1>3, <1>4

\* The loop implements MapFiles, whatever fails and whenever it restarts: without a
\* snapshot it empties the maps of a former policy, those that have no txt, and in DBM
\* mode the DBM that a deleted txt left behind, and otherwise each txt it writes has the
\* list in full, its DBM that list, its former one or a torn one (ensureMap,
\* retireUnusedMaps, write, run).
THEOREM MapsRefined == Spec => MapsSpec
<1>1. Init => Maps!Init
  BY DEF Init, Mode, Maps!Init
<1>2. IInv /\ [Next]_vars => [Maps!Next]_(Maps!vars)
  <2> SUFFICES ASSUME IInv, [Next]_vars PROVE [Maps!Next]_(Maps!vars)
    OBVIOUS
  <2>1. CASE EnsureMap \/ RetireMap
    BY <2>1, StartupPrepares
  <2>2. CASE WriteNext
    BY <2>2, WriteRenders
  <2>3. CASE Untouching
    BY <2>3, FetchingAdopts, ListStaysTyped DEF IInv
  <2>4. CASE Boot \/ WriteFails \/ Crash \/ DeleteFile
    BY <2>4, OutsideSteps
  <2>5. CASE UNCHANGED vars
    BY <2>5 DEF vars, Mode, Maps!vars
  <2> QED
    BY <2>1, <2>2, <2>3, <2>4, <2>5, Steps
<1> QED
  BY <1>1, <1>2, Inductive, PTL DEF Spec, MapsSpec, Maps!Spec
===============================================================================
