------------------------------ MODULE CustomLists ------------------------------
(***************************************************************************)
(* The operator's own lists: src/customlist.go, with the conversion it     *)
(* shares with the other maps (buildDBMFrom of src/output.go).  At each    *)
(* start and each tick the daemon creates the lists that are missing and   *)
(* rebuilds the DBM of those that changed since it last tried.  It looks   *)
(* at a list, then converts it, then moves the result into place, and the  *)
(* operator may edit or delete anything between two of these steps.        *)
(*                                                                         *)
(* A file is its stamp: the modification time and size that needsBuild     *)
(* compares.  The model takes each write of a list to give it a stamp of   *)
(* its own, later than the ones before, so the stamp stands for the        *)
(* content as well; a DBM is the stamp of the list it was built from.      *)
(***************************************************************************)
EXTENDS Integers, SequencesExt

CONSTANTS
  Lists,          \* customListNames, in order
  MapTypes,       \* the values MAP_TYPE may have: of "txt" and "dbm"
  TwoFileBackend, \* httxt2dbm makes SDBM's pair of files
  MaxStamp,       \* bound on the operator's edits of a list
  MaxFaults       \* bound on failures, deletions and crashes

List == Range(Lists)

ASSUME CustomListsAssumption ==
  /\ Lists \in Seq(List) /\ Lists # <<>>
  /\ MapTypes \subseteq {"txt", "dbm"} /\ MapTypes # {}
  /\ TwoFileBackend \in BOOLEAN
  /\ MaxStamp \in Nat /\ MaxFaults \in Nat

\* No file, and one that is part of a conversion or of two.
Missing == 0
Torn == -1

\* The stamps of the files found at the first start.
OldBuild == 1
FirstStamp == 2

VARIABLES
  txt,     \* the list the operator edits
  stamp,   \* the latest stamp its file has had
  tmp,     \* what a conversion produced and has not been moved
  dbm,     \* the map Apache reads
  pc,      \* "down", "idle", or what is next for the list at the head of todo:
           \* "stat", "create", "restat", "convert" or "swap"
  mapType, \* MAP_TYPE, as this process was configured
  todo,    \* the lists still to be looked at on this tick
  seen,    \* the stamp found when the list was looked at
  last,    \* the state of txt as at the last attempt, Missing before one
  built,   \* that attempt succeeded
  faults

files == <<txt, stamp, tmp, dbm>>
memory == <<seen, last, built>>
vars == <<txt, stamp, tmp, dbm, pc, mapType, todo, seen, last, built, faults>>

Fault == faults < MaxFaults /\ faults' = faults + 1

Current == Head(todo)

Init ==
  /\ txt \in [List -> {Missing, FirstStamp}]
  /\ stamp = [l \in List |-> FirstStamp]
  /\ tmp = [l \in List |-> Missing]
  /\ dbm \in [List -> {Missing, OldBuild}]
  /\ pc = "down" /\ mapType \in MapTypes /\ todo = <<>>
  /\ seen = Missing
  /\ last = [l \in List |-> Missing]
  /\ built = [l \in List |-> FALSE]
  /\ faults = 0

-------------------------------------------------------------------------------
(* Looking at a list *)

\* syncCustomLists goes on with the next list, whatever came of this one.
NextList ==
  /\ todo' = Tail(todo)
  /\ pc' = IF Tail(todo) = <<>> THEN "idle" ELSE "stat"

\* The synchronisation at a start, and at each tick.
Start ==
  /\ pc = "down"
  /\ pc' = "stat" /\ todo' = Lists
  /\ mapType' \in MapTypes
  /\ UNCHANGED <<files, memory, faults>>

Tick ==
  /\ pc = "idle"
  /\ pc' = "stat" /\ todo' = Lists
  /\ UNCHANGED <<files, mapType, memory, faults>>

\* Mutants of NeedsBuild: an edit goes unnoticed, and so does a deleted map.
NeedsBuildOnce(l, found) == last[l] = Missing \/ (built[l] /\ dbm[l] = Missing)
NeedsBuildIfChanged(l, found) == found # last[l]

\* The list has moved since the last attempt, or its map is gone though that
\* attempt succeeded.
NeedsBuild(l, found) == found # last[l] \/ (built[l] /\ dbm[l] = Missing)

\* What follows when the list has been found in some state.
Found(l) ==
  IF mapType = "dbm" /\ NeedsBuild(l, txt[l])
    THEN pc' = "convert" /\ seen' = txt[l] /\ UNCHANGED todo
    ELSE NextList /\ UNCHANGED seen

Stat ==
  /\ pc = "stat"
  /\ IF txt[Current] = Missing THEN pc' = "create" /\ UNCHANGED <<todo, seen>>
     ELSE Found(Current)
  /\ UNCHANGED <<files, mapType, last, built, faults>>

\* ensureTxt creates an empty list, and truncates one that appeared meanwhile.
Create ==
  /\ pc = "create"
  /\ stamp' = [stamp EXCEPT ![Current] = @ + 1]
  /\ txt' = [txt EXCEPT ![Current] = stamp'[Current]]
  /\ pc' = "restat"
  /\ UNCHANGED <<tmp, dbm, mapType, todo, memory, faults>>

\* Mutant of Gone: the file just created is taken to be there.
GoneNever(l) == FALSE

Gone(l) == txt[l] = Missing

Restat ==
  /\ pc = "restat"
  /\ IF Gone(Current) THEN NextList /\ UNCHANGED seen ELSE Found(Current)
  /\ UNCHANGED <<files, mapType, last, built, faults>>

\* ensureTxt returns an error: the list is left for the next tick.
EnsureFails ==
  /\ pc \in {"stat", "create", "restat"}
  /\ Fault
  /\ NextList
  /\ UNCHANGED <<files, mapType, memory>>

-------------------------------------------------------------------------------
(* buildDBMFrom, and the record of how it went *)

\* Mutant of Recorded: the list is looked at again once its map is built.
RecordedAfter(l) == txt[l]

\* The state the list was found in, before the conversion.
Recorded(l) == seen

Record(l, ok) ==
  /\ last' = [last EXCEPT ![l] = Recorded(l)]
  /\ built' = [built EXCEPT ![l] = ok]
  /\ NextList

\* Mutant of Cleaned: what an earlier conversion left is still there.
CleanedNever(produced) == produced

\* The leftovers of an earlier conversion are removed first.
Cleaned(produced) == Missing

\* httxt2dbm converts the list as it is now.
Convert ==
  /\ pc = "convert" /\ txt[Current] # Missing
  /\ tmp' = [tmp EXCEPT ![Current] = txt[Current]]
  /\ pc' = "swap"
  /\ UNCHANGED <<txt, stamp, dbm, mapType, todo, memory, faults>>

\* It fails, or runs into the time limit, and leaves what it had written.
ConvertFails ==
  /\ pc = "convert"
  /\ IF txt[Current] = Missing THEN UNCHANGED faults ELSE Fault
  /\ \E left \in {Cleaned(tmp[Current]), Torn} : tmp' = [tmp EXCEPT ![Current] = left]
  /\ Record(Current, FALSE)
  /\ UNCHANGED <<txt, stamp, dbm, mapType, seen>>

\* It reports success and has produced nothing, which the check on what there is to
\* move finds out.
ConvertsNothing ==
  /\ pc = "convert"
  /\ Fault
  /\ tmp' = [tmp EXCEPT ![Current] = Cleaned(@)]
  /\ IF tmp'[Current] = Missing THEN Record(Current, FALSE)
     ELSE pc' = "swap" /\ UNCHANGED <<todo, last, built>>
  /\ UNCHANGED <<txt, stamp, dbm, mapType, seen>>

Swap ==
  /\ pc = "swap"
  /\ dbm' = [dbm EXCEPT ![Current] = tmp[Current]]
  /\ tmp' = [tmp EXCEPT ![Current] = Missing]
  /\ Record(Current, TRUE)
  /\ UNCHANGED <<txt, stamp, mapType, seen, faults>>

\* A rename fails: nothing is moved, or one file of the two.
SwapFails ==
  /\ pc = "swap"
  /\ Fault
  /\ \/ UNCHANGED dbm
     \/ TwoFileBackend /\ dbm' = [dbm EXCEPT ![Current] = Torn]
  /\ Record(Current, FALSE)
  /\ UNCHANGED <<txt, stamp, tmp, mapType, seen>>

-------------------------------------------------------------------------------
(* The operator and the world *)

Edit(l) ==
  /\ stamp[l] < MaxStamp
  /\ stamp' = [stamp EXCEPT ![l] = @ + 1]
  /\ txt' = [txt EXCEPT ![l] = stamp'[l]]
  /\ UNCHANGED <<tmp, dbm, pc, mapType, todo, memory, faults>>

DeleteList(l) ==
  /\ txt[l] # Missing /\ Fault
  /\ txt' = [txt EXCEPT ![l] = Missing]
  /\ UNCHANGED <<stamp, tmp, dbm, pc, mapType, todo, memory>>

DeleteMap(l) ==
  /\ dbm[l] # Missing /\ Fault
  /\ dbm' = [dbm EXCEPT ![l] = Missing]
  /\ UNCHANGED <<txt, stamp, tmp, pc, mapType, todo, memory>>

\* The process stops, by a signal or a crash, and its memory goes with it.
Crash ==
  /\ pc # "down" /\ Fault
  /\ pc' = "down" /\ todo' = <<>>
  /\ seen' = Missing
  /\ last' = [l \in List |-> Missing]
  /\ built' = [l \in List |-> FALSE]
  /\ UNCHANGED <<files, mapType>>

Step ==
  \/ Start \/ Tick \/ Stat \/ Create \/ Restat \/ EnsureFails
  \/ Convert \/ ConvertFails \/ ConvertsNothing \/ Swap \/ SwapFails

World == \E l \in List : Edit(l) \/ DeleteList(l) \/ DeleteMap(l)

Next == Step \/ World \/ Crash

Spec == Init /\ [][Next]_vars

\* The poll loop runs and systemd restarts the daemon.  Failures are steps the loop
\* may take, but only MaxFaults of them.
FairSpec == Spec /\ WF_vars(Step)

-------------------------------------------------------------------------------
(* Properties *)

\* Types, and that no list is converted which was not found.
TypeOK ==
  /\ txt \in [List -> Nat] /\ stamp \in [List -> Nat]
  /\ tmp \in [List -> Nat \cup {Torn}] /\ dbm \in [List -> Nat \cup {Torn}]
  /\ pc \in {"down", "idle", "stat", "create", "restat", "convert", "swap"}
  /\ mapType \in MapTypes
  /\ todo \in Seq(List) /\ (todo = <<>> <=> pc \in {"down", "idle"})
  /\ seen \in Nat /\ (pc \in {"convert", "swap"} => seen # Missing)
  /\ last \in [List -> Nat] /\ built \in [List -> BOOLEAN]
  /\ faults \in 0..MaxFaults

\* A list that needs no rebuilding has its map: what the daemon takes for built is
\* what Apache reads, whenever the operator edited it while it was looked at,
\* converted or moved (needsBuild, and record's use of the earlier state).
SettledIsLive ==
  \A l \in List :
    txt[l] # Missing /\ built[l] /\ ~NeedsBuild(l, txt[l]) => dbm[l] = txt[l]

\* A map that is put in place is never older than the list was when it was looked at,
\* whatever earlier conversions left behind (buildDBMFrom).
NewMapIsRecent ==
  [][\A l \in List : dbm'[l] \notin {dbm[l], Missing, Torn} => dbm'[l] >= seen]_vars

\* The daemon tried to build the list as it now is, and failed.
GivenUp(l) == last[l] # Missing /\ last[l] = txt[l] /\ ~built[l]

\* An edit goes live: a list that stays as it is comes to be what Apache reads, on
\* whatever tick it was made, unless its conversion failed, which is final until the
\* operator touches it (syncCustomLists).
EditGoesLive ==
  \A l \in List : \A v \in FirstStamp..MaxStamp :
    (txt[l] = v /\ mapType = "dbm")
      ~> (dbm[l] = v \/ txt[l] # v \/ mapType # "dbm" \/ GivenUp(l))

\* And a map that is deleted comes back, unless the list had failed to convert
\* (the second half of needsBuild).
DeletedMapComesBack ==
  \A l \in List :
    (dbm[l] = Missing /\ mapType = "dbm")
      ~> (dbm[l] # Missing \/ mapType # "dbm" \/ GivenUp(l))
==============================================================================
