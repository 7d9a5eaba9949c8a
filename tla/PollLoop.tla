------------------------------- MODULE PollLoop -------------------------------
(***************************************************************************)
(* The poll loop and the map files: src/run.go, src/output.go and          *)
(* src/stream.go.  One goroutine fetches the decision stream, applies it   *)
(* to the list and renders the list into one map per remediation, which    *)
(* Apache consults.  The list is at the level BlockList gives it: a set of *)
(* map entries, edited by deltas and replaced by snapshots.                *)
(*                                                                         *)
(* Around it: the LAPI, whose decisions change at any time and which       *)
(* remembers what each bouncer has pulled; fetches and file operations     *)
(* that fail; map files deleted from outside; crashes, restarts by systemd *)
(* and a policy that may be another after each.  All of these count as     *)
(* faults and are bounded by MaxFaults; changes at the LAPI are not.       *)
(*                                                                         *)
(* One map is written in one step.  A crash between its txt and its DBM    *)
(* leaves what a failed conversion and then a crash leave, and Apache      *)
(* consults one of the two only.  Challenge passes and operator lists,     *)
(* which the same loop maintains, are not part of this module.             *)
(***************************************************************************)
EXTENDS Naturals, FiniteSets, Sequences, SnapshotGuard

CONSTANTS
  IP,
  MapOrder,       \* knownRemediations: every map, in the order they are written
  MapTypes,       \* the values MAP_TYPE may have: of "txt" and "dbm"
  TwoFileBackend, \* httxt2dbm makes SDBM's pair of files
  ResyncEnabled,  \* RESYNC_INTERVAL > 0
  Deletable,      \* map files may be deleted from outside
  MaxFaults       \* bound on faults

Remediation == {MapOrder[i] : i \in DOMAIN MapOrder}
Entry == Remediation \X IP

ASSUME PollAssumption ==
  /\ MapOrder \in Seq(Remediation)
  /\ MapTypes \subseteq {"txt", "dbm"} /\ MapTypes # {}
  /\ {TwoFileBackend, ResyncEnabled, Deletable} \subseteq BOOLEAN
  /\ MaxFaults \in Nat
  /\ MinSnapshotIPs \in Nat /\ SnapshotShrinkDenom \in Nat

\* A file that does not exist, and a DBM whose two files are from different
\* conversions.
Missing == [file |-> "missing"]
Torn == [file |-> "torn"]
Holding(ips) == [file |-> "whole", ips |-> ips]
File == {Missing, Torn} \cup {Holding(ips) : ips \in SUBSET IP}

VARIABLES
  lapi,     \* the decisions at the LAPI
  pulled,   \* what the LAPI takes this bouncer to have
  pc,       \* "down", "ensure", "retire", "sync", "write" or "tick"
  mapType,  \* MAP_TYPE, as this process was configured
  produced, \* the maps the policy of this process renders
  held,     \* the list, as map entries
  pending,  \* pendingShrink
  due,      \* a resync is due
  todo,     \* the maps still to be ensured, retired or written
  job,      \* why the maps are written: "kept", "refused" (startup) or "poll"
  txt, dbm, \* the files of each map
  suspect,  \* the maps whose files were deleted, or left unwritten by a file
            \* operation that failed, since they were last written whole
  deleted,  \* those of them that had a file deleted
  faults    \* how many faults there have been

lapiVars == <<lapi, pulled>>
policy == <<mapType, produced>>
listVars == <<held, pending>>
history == <<suspect, deleted>>
vars == <<lapi, pulled, pc, mapType, produced, held, pending, due, todo, job, txt, dbm,
          suspect, deleted, faults>>

\* Mutant of Enforced: decisions are listed under maps that are not produced.
EnforcedAnyType(entries) == entries

\* The decisions of the types this policy renders maps for (setFor).
Enforced(entries) == {e \in entries : e[1] \in produced}
ListOf(r) == {ip \in IP : <<r, ip>> \in held}

\* The file that Apache consults for a map.
Consulted(r) == IF mapType = "dbm" THEN dbm[r] ELSE txt[r]

\* The first of some maps, in the order they are written.
First(maps) ==
  MapOrder[CHOOSE i \in DOMAIN MapOrder :
             MapOrder[i] \in maps /\ \A j \in 1..(i - 1) : MapOrder[j] \notin maps]
Rest(maps) == maps \ {First(maps)}

Fault == faults < MaxFaults /\ faults' = faults + 1

-------------------------------------------------------------------------------
(* Files *)

\* writeMap, when nothing fails: the txt by rename, then the DBM from it.
WriteMapOk(r, ips) ==
  /\ txt' = [txt EXCEPT ![r] = Holding(ips)]
  /\ dbm' = IF mapType = "dbm" THEN [dbm EXCEPT ![r] = Holding(ips)] ELSE dbm
  /\ suspect' = suspect \ {r}
  /\ deleted' = deleted \ {r}
  /\ UNCHANGED faults

\* writeTxt fails: nothing has been replaced, and the error is returned.  The
\* maps in unwritten are left as they are.
WriteTxtFails(unwritten) ==
  /\ Fault
  /\ suspect' = suspect \cup unwritten
  /\ UNCHANGED <<txt, dbm, deleted>>

\* buildDBM fails after the txt is in place.  It is logged and not returned.
\* The previous DBM is kept, or torn when a rename of a pair failed.
BuildDBMFails(r, ips) ==
  /\ mapType = "dbm"
  /\ Fault
  /\ suspect' = suspect \cup {r}
  /\ UNCHANGED deleted
  /\ txt' = [txt EXCEPT ![r] = Holding(ips)]
  /\ \/ UNCHANGED dbm
     \/ TwoFileBackend /\ dbm' = [dbm EXCEPT ![r] = Torn]

\* writeMap with the error it returns, for callers that go on regardless.
WriteMapBestEffort(r, ips) ==
  \/ WriteMapOk(r, ips)
  \/ WriteTxtFails({r})
  \/ BuildDBMFails(r, ips)

-------------------------------------------------------------------------------
(* Startup *)

Init ==
  /\ lapi \in SUBSET Entry
  /\ pulled = {}
  /\ pc = "down"
  /\ mapType \in MapTypes
  /\ produced = {}
  /\ held = {}
  /\ pending = 0
  /\ due = FALSE
  /\ todo = {}
  /\ job = "poll"
  /\ txt = [r \in Remediation |-> Missing]
  /\ dbm = [r \in Remediation |-> Missing]
  /\ suspect = {}
  /\ deleted = {}
  /\ faults = 0

\* newBouncer, under whatever policy and map type the configuration now has.
Boot ==
  /\ pc = "down"
  /\ pc' = "ensure"
  /\ produced' \in (SUBSET Remediation) \ {{}}
  /\ mapType' \in MapTypes
  /\ todo' = produced'
  /\ suspect' = {}
  /\ deleted' = {}
  /\ UNCHANGED <<lapiVars, listVars, due, job, txt, dbm, faults>>

\* Mutants of NeedsMap: an existing map is created afresh, a missing one never.
NeedsMapAlways(r) == TRUE
NeedsMapNever(r) == FALSE

NeedsMap(r) == txt[r] = Missing

\* ensureMap: an empty map where there is no txt.  In DBM mode that converts the empty
\* txt as well, over whatever DBM is there.
EnsureMap ==
  /\ pc = "ensure"
  /\ IF todo = {}
       THEN /\ pc' = "retire"
            /\ todo' = Remediation \ produced
            /\ UNCHANGED <<txt, dbm, history, faults>>
       ELSE /\ UNCHANGED pc
            /\ todo' = Rest(todo)
            /\ IF NeedsMap(First(todo)) THEN WriteMapBestEffort(First(todo), {})
               ELSE UNCHANGED <<txt, dbm, history, faults>>
  /\ UNCHANGED <<lapiVars, listVars, policy, due, job>>

\* Mutant of NeedsRetiring: the maps of a former policy are left as they are.
NeedsRetiringNever(r) == FALSE

NeedsRetiring(r) == txt[r] \notin {Missing, Holding({})}

\* retireUnusedMaps: the maps this policy does not produce are emptied.
RetireMap ==
  /\ pc = "retire"
  /\ IF todo = {}
       THEN /\ pc' = "sync"
            /\ UNCHANGED <<todo, txt, dbm, history, faults>>
       ELSE /\ UNCHANGED pc
            /\ todo' = Rest(todo)
            /\ IF NeedsRetiring(First(todo)) THEN WriteMapBestEffort(First(todo), {})
               ELSE UNCHANGED <<txt, dbm, history, faults>>
  /\ UNCHANGED <<lapiVars, listVars, policy, due, job>>

-------------------------------------------------------------------------------
(* Fetching and applying *)

\* fetch returns an error: the LAPI was not reached, or it answered and the
\* answer was lost, and then it takes the bouncer to have it.
FetchFails ==
  /\ Fault
  /\ pulled' \in {pulled, lapi}
  /\ UNCHANGED lapi

\* fetch succeeds with the answer in full, or with the empty 200 that stands
\* for no decisions.
Fetch(answer, full) ==
  /\ pulled' = lapi
  /\ UNCHANGED lapi
  /\ \/ answer = full /\ UNCHANGED faults
     \/ answer = {} /\ full # {} /\ Fault

\* applyFull, and the write that follows either way.
ApplyFull(snapshot, kept, refused) ==
  LET new == Enforced(snapshot)
      refuses == RefusesSnapshot(Cardinality(held), Cardinality(new), pending)
  IN  /\ pending' = ShrinkCount(Cardinality(held), Cardinality(new), pending)
      /\ held' = IF refuses THEN held ELSE new
      /\ job' = IF refuses THEN refused ELSE kept
      /\ due' = IF refuses THEN due ELSE FALSE

BeginWrite ==
  /\ pc' = "write"
  /\ todo' = produced

\* The startup fetch fails and is tried again: no map is touched.
SyncFails ==
  /\ pc = "sync"
  /\ FetchFails
  /\ UNCHANGED <<pc, policy, listVars, due, todo, job, txt, dbm, history>>

Sync ==
  /\ pc = "sync"
  /\ \E snapshot \in {lapi, {}} :
       /\ Fetch(snapshot, lapi)
       /\ ApplyFull(snapshot, "kept", "refused")
  /\ BeginWrite
  /\ UNCHANGED <<policy, txt, dbm, history>>

\* A poll that fails keeps the list and the maps.
PollFails ==
  /\ pc = "tick"
  /\ FetchFails
  /\ UNCHANGED <<pc, policy, listVars, due, todo, job, txt, dbm, history>>

\* Mutant of WritesResync: the maps are written only when the list changed.
WritesResyncIfChanged == held' # held

\* The maps are always written after a snapshot.
WritesResync == TRUE

\* A resync writes the maps whether or not the snapshot was kept.
PollResync ==
  /\ pc = "tick"
  /\ due
  /\ \E snapshot \in {lapi, {}} :
       /\ Fetch(snapshot, lapi)
       /\ ApplyFull(snapshot, "poll", "poll")
  /\ IF WritesResync THEN BeginWrite ELSE UNCHANGED <<pc, todo>>
  /\ UNCHANGED <<policy, txt, dbm, history>>

\* Entries the LAPI added and removed since this bouncer last pulled.
New == Enforced(lapi \ pulled)
Deleted == Enforced(pulled \ lapi)

\* applyDelta: deletions first, then additions.
DeltaList(new, gone) == (held \ gone) \cup new

\* Mutant of WritesDelta: only additions are written.
WritesDeltaIfAdded == held' \ held # {}

\* Only a delta that changed the list is written.
WritesDelta == held' # held

PollDelta ==
  /\ pc = "tick"
  /\ ~due
  /\ pulled' = lapi
  /\ UNCHANGED lapi
  /\ \/ held' = DeltaList(New, Deleted) /\ UNCHANGED faults
     \/ New \cup Deleted # {} /\ UNCHANGED held /\ Fault    \* an empty 200
  /\ IF WritesDelta THEN BeginWrite /\ job' = "poll"
     ELSE UNCHANGED <<pc, todo, job>>
  /\ UNCHANGED <<policy, pending, due, txt, dbm, history>>

-------------------------------------------------------------------------------
(* write, and what the loop does after it *)

\* Mutant of AllPresent: the DBMs are not looked for.
AllPresentAssumed == TRUE

\* missingDBM finds none missing.  There is nothing to miss in txt mode.
AllPresent == mapType = "dbm" => \A r \in produced : dbm'[r] # Missing

\* The startup sync ends with a snapshot that was kept and every map in place.
AfterWrite ==
  /\ pc' = IF job = "poll" \/ (job = "kept" /\ AllPresent) THEN "tick" ELSE "sync"
  /\ todo' = {}

WriteNext ==
  /\ pc = "write"
  /\ \/ WriteMapOk(First(todo), ListOf(First(todo)))
     \/ BuildDBMFails(First(todo), ListOf(First(todo)))
  /\ IF Rest(todo) # {} THEN todo' = Rest(todo) /\ UNCHANGED pc
     ELSE AfterWrite
  /\ UNCHANGED <<lapiVars, policy, listVars, due, job>>

\* write stops at the first map that fails.  A startup sync is tried again; a
\* poll waits for the next tick.
WriteFails ==
  /\ pc = "write"
  /\ WriteTxtFails(todo)
  /\ pc' = IF job = "poll" THEN "tick" ELSE "sync"
  /\ todo' = {}
  /\ UNCHANGED <<lapiVars, policy, listVars, due, job>>

-------------------------------------------------------------------------------
(* Everything else *)

\* RESYNC_INTERVAL has passed since the last snapshot was kept.
ResyncFallsDue ==
  /\ ResyncEnabled
  /\ pc = "tick" \/ (pc = "write" /\ job = "poll")
  /\ ~due
  /\ due' = TRUE
  /\ UNCHANGED <<lapiVars, pc, policy, listVars, todo, job, txt, dbm, history, faults>>

\* A decision is taken or expires at the LAPI.
LapiChanges ==
  /\ \E e \in Entry : lapi' = IF e \in lapi THEN lapi \ {e} ELSE lapi \cup {e}
  /\ UNCHANGED <<pulled, pc, policy, listVars, due, todo, job, txt, dbm, history, faults>>

\* The process stops, by a signal or a crash.  The files stay.
Crash ==
  /\ pc # "down"
  /\ Fault
  /\ pc' = "down"
  /\ produced' = {}
  /\ held' = {}
  /\ pending' = 0
  /\ due' = FALSE
  /\ todo' = {}
  /\ job' = "poll"
  /\ UNCHANGED <<lapiVars, mapType, txt, dbm, history>>

\* A map file is deleted from outside.
DeleteFile ==
  /\ Deletable
  /\ Fault
  /\ \E r \in Remediation :
       /\ suspect' = suspect \cup {r}
       /\ deleted' = deleted \cup {r}
       /\ \/ txt[r] # Missing /\ txt' = [txt EXCEPT ![r] = Missing] /\ UNCHANGED dbm
          \/ dbm[r] # Missing /\ dbm' = [dbm EXCEPT ![r] = Missing] /\ UNCHANGED txt
  /\ UNCHANGED <<lapiVars, pc, policy, listVars, due, todo, job>>

\* What the daemon and systemd do, as opposed to the world.
Step ==
  \/ Boot \/ EnsureMap \/ RetireMap
  \/ SyncFails \/ Sync
  \/ PollFails \/ PollResync \/ PollDelta
  \/ WriteNext \/ WriteFails

Next == Step \/ ResyncFallsDue \/ LapiChanges \/ Crash \/ DeleteFile

Spec == Init /\ [][Next]_vars

\* systemd restarts the daemon, its loop runs, and time passes.  Failures are
\* steps the loop may take, but only MaxFaults of them.
FairSpec == Spec /\ WF_vars(Step) /\ WF_vars(ResyncFallsDue)

-------------------------------------------------------------------------------
(* Properties *)

\* Every variable has its type.
TypeOK ==
  /\ lapi \subseteq Entry /\ pulled \subseteq Entry /\ held \subseteq produced \X IP
  /\ pc \in {"down", "ensure", "retire", "sync", "write", "tick"}
  /\ mapType \in MapTypes
  /\ produced \subseteq Remediation /\ (produced = {} <=> pc = "down")
  /\ pending \in {0, 1} /\ due \in BOOLEAN
  /\ suspect \subseteq Remediation /\ deleted \subseteq suspect
  /\ todo \subseteq Remediation /\ (pc = "write" => todo # {})
  /\ job \in {"kept", "refused", "poll"}
  /\ txt \in [Remediation -> File \ {Torn}] /\ dbm \in [Remediation -> File]
  /\ faults \in 0..MaxFaults

\* Between polls, unless a file operation has failed or a file has been
\* deleted since, every map Apache consults holds the list: whether it was
\* changed by a delta, replaced by a snapshot or kept by refusing one (run).
FilesInStep ==
  pc = "tick" =>
    \A r \in produced \ suspect : Consulted(r) = Holding(ListOf(r))

\* A daemon that polls has every map that Apache consults in place, unless
\* somebody deleted it since, however often the conversion has failed
\* (missingDBM, and buildDBMFrom keeping the previous DBM).
NoneMissingOncePolling ==
  pc = "tick" => \A r \in produced \ deleted : Consulted(r) # Missing

\* Until a snapshot has been applied, a restarted daemon changes neither file of a map
\* that it renders and that has its txt (ensureMap, retireUnusedMaps, run).
OutageKeepsMaps ==
  [][\A r \in produced :
        pc \in {"ensure", "retire", "sync"} /\ txt[r] # Missing =>
          /\ txt'[r] \in {txt[r], Missing}
          /\ dbm'[r] \in {dbm[r], Missing}]_vars

\* "An existing map is left completely alone": until a snapshot has been applied, what
\* Apache consults for a map that the daemon renders stays, or is deleted from outside,
\* whichever of its files are there (src/output.go:157, ensureMap).
ExistingMapsLeftAlone ==
  [][\A r \in produced :
        pc \in {"ensure", "retire", "sync"} /\ Consulted(r) # Missing
          => Consulted(r)' \in {Consulted(r), Missing}]_vars

\* Once the startup work is done, the maps of a former policy are enforced no
\* more, unless emptying them failed (retireUnusedMaps).
RetiredMapsEmpty ==
  pc \in {"sync", "write", "tick"} =>
    \A r \in Remediation \ (produced \cup suspect) : Consulted(r) \in {Missing, Holding({})}

\* Every map rendered has its txt before the first snapshot, unless creating it
\* failed: Apache opens it when it reads its configuration (ensureMap).
EnsuredMapsExist ==
  pc = "sync" => \A r \in produced \ suspect : txt[r] # Missing

\* And no decision is left in the txt of a map that a former policy rendered
\* (retireUnusedMaps).
RetiredListsEmpty ==
  pc \in {"sync", "write", "tick"} =>
    \A r \in Remediation \ (produced \cup suspect) : txt[r] \in {Missing, Holding({})}

\* When failures stop, a decision that stays at the LAPI comes to be enforced
\* and one that stays retired comes to be enforced no more, whatever was lost
\* or failed before: the full re-sync mends it (run).
Converges ==
  \A e \in Entry :
    /\ <>[](e \in lapi /\ e[1] \in produced)
         => <>[](Consulted(e[1]) # Missing /\ Consulted(e[1]) # Torn
                 /\ e[2] \in Consulted(e[1]).ips)
    /\ <>[](e \notin lapi /\ e[1] \in produced)
         => <>[](Consulted(e[1]) # Missing /\ Consulted(e[1]) # Torn
                 /\ e[2] \notin Consulted(e[1]).ips)

\* A change of the list is written to the maps, sooner or later, once the
\* decisions at the LAPI no longer change (README: "on every change").
EveryChangeIsWritten ==
  <>[][FALSE]_lapi =>
    \A r \in Remediation :
      []<>(r \notin produced \/ Consulted(r) = Holding(ListOf(r)))

\* What the loop is at, for the files.
Mode ==
  CASE pc = "down" -> "down"
    [] pc \in {"ensure", "retire"} -> "preparing"
    [] pc = "sync" -> "fetching"
    [] pc \in {"write", "tick"} -> "serving"

\* The loop implements its abstract specification, over every failure, retry and
\* restart: before a snapshot has been applied it writes only maps that have no txt and
\* maps of a former policy, and those empty; afterwards only what it renders, and that
\* with the list in full.  A DBM is what its txt was given, what it was before, or torn;
\* one whose txt was deleted is emptied with it, which is MapFiles' Overwrite
\* (ensureMap, retireUnusedMaps, write, run).
Maps == INSTANCE MapFiles WITH mode <- Mode, policy <- produced, list <- held

MapsSpec == Maps!Spec
==============================================================================
