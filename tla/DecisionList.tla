----------------------------- MODULE DecisionList -----------------------------
(***************************************************************************)
(* The decision list of the bouncer: src/bouncer.go and                    *)
(* src/remediation.go.  The poll loop applies the decision stream to it,   *)
(* either as a delta (applyDelta) or as a full snapshot (applyFull), and   *)
(* renders sortedIPs into the map files Apache reads.                      *)
(*                                                                         *)
(* A whole apply runs under the write lock b.state.  It is modelled one    *)
(* decision at a time: phase "idle" is the lock being free, and the other  *)
(* phases are points inside an apply.  The decisions of a batch are chosen *)
(* as the loop reaches them, which allows every response the LAPI can      *)
(* send, in any order and with ids repeated.  A decision without an id is  *)
(* ignored by add and by remove alike and is not represented.              *)
(*                                                                         *)
(* Data: a sorted slice is the set of its elements; a map entry that is    *)
(* absent is {} in decisionIPs and 0 in refcount; the scope and the value  *)
(* of a decision are one element of Value.                                 *)
(***************************************************************************)
EXTENDS Integers, FiniteSets, SnapshotGuard

CONSTANTS
  IP,             \* map keys: canonical addresses
  DecisionId,     \* LAPI decision ids
  Remediation,    \* the maps the bouncer renders, e.g. {"ban", "captcha"}
  DecisionType,   \* the types the LAPI may put on a decision
  Value,          \* scope and value of a decision
  Covers,         \* [Value -> SUBSET IP]: the addresses expand enumerates
  Oversized,      \* the values that are ranges beyond EXPAND_MAX_HOSTS
  Route,          \* [DecisionType -> Remediation \cup {NoMap}]
  NoMap,          \* the route of a type that no map is rendered for
  Nil,            \* the nil touched map
  ResortThreshold, \* 512 in the code
  MaxSkipped      \* bound on skippedRanges

Presence == {"unseen", "present", "absent"}

ASSUME ConstantAssumption ==
  /\ IsFiniteSet(IP) /\ IsFiniteSet(DecisionId) /\ IsFiniteSet(Remediation)
  /\ Covers \in [Value -> SUBSET IP]
  /\ Oversized \subseteq Value
  /\ \A v \in Oversized : Covers[v] = {}
  /\ Route \in [DecisionType -> Remediation \cup {NoMap}]
  /\ NoMap \notin Remediation
  /\ Nil \notin [IP -> Presence]
  /\ MinSnapshotIPs \in Nat
  /\ SnapshotShrinkDenom \in Nat
  /\ ResortThreshold \in Nat
  /\ MaxSkipped \in Nat

Decision == [id : DecisionId, type : DecisionType, value : Value]

VARIABLES
  phase,         \* "idle", "deleting", "adding" (applyDelta) or "full" (applyFull)
  decisionIPs,   \* per map: decision id -> the IPs it contributes
  refcount,      \* per map: ip -> contributing decisions
  sortedIPs,     \* per map: the keyset that writeTxt renders
  touched,       \* per map: Nil, or ip -> where it was when the delta started
  before,        \* what reset displaced, while a snapshot is applied
  pendingShrink, \* consecutive short snapshots
  skippedRanges, \* oversized ranges of the last batch
  accepted,      \* what the last applyFull returned
  report         \* the added and removed counts the last apply returned

vars == <<phase, decisionIPs, refcount, sortedIPs, touched, before,
          pendingShrink, skippedRanges, accepted, report>>

-------------------------------------------------------------------------------
(* One remediation map *)

\* The addresses on the list.
Listed(counts) == {ip \in IP : counts[ip] > 0}

\* Mutant of Note: the last move wins.
NoteLastMove(t, ips, presence) ==
  IF t = Nil THEN Nil
  ELSE [ip \in IP |-> IF ip \in ips THEN presence ELSE t[ip]]

\* note: the first move of an IP in a delta records where it started.
\* A snapshot leaves touched nil, and nothing is recorded.
Note(t, ips, presence) ==
  IF t = Nil THEN Nil
  ELSE [ip \in IP |-> IF ip \in ips /\ t[ip] = "unseen" THEN presence ELSE t[ip]]

\* Mutant of Unref: an IP leaves the list as soon as one decision lets go.
UnrefWholesale(counts, ips) ==
  [ip \in IP |-> IF ip \notin ips THEN counts[ip] ELSE 0]

\* unref and ref: the new reference counts ...
Unref(counts, ips) ==
  [ip \in IP |-> IF ip \notin ips THEN counts[ip]
                 ELSE IF counts[ip] <= 1 THEN 0 ELSE counts[ip] - 1]

Ref(counts, ips) ==
  [ip \in IP |-> IF ip \in ips THEN counts[ip] + 1 ELSE counts[ip]]

\* ... and the IPs whose count reaches zero, or leaves it.
Leaving(counts, ips) == {ip \in ips : counts[ip] <= 1}
Entering(counts, ips) == {ip \in ips : counts[ip] = 0}

\* A decision that contributed old now contributes new: the tail of add, and
\* forget when new is empty.
Recount(counts, old, new) ==
  IF old = new THEN counts ELSE Ref(Unref(counts, old), new)

Retouch(t, counts, old, new) ==
  IF old = new THEN t
  ELSE Note(Note(t, Leaving(counts, old), "present"),
            Entering(Unref(counts, old), new), "absent")

-------------------------------------------------------------------------------
(* The list: every map *)

\* Map entries, so that a count summed across the maps is a cardinality.
Entries(counts) == {e \in Remediation \X IP : counts[e[1]][e[2]] > 0}
Size(counts) == Cardinality(Entries(counts))

NoDecisions == [r \in Remediation |-> [i \in DecisionId |-> {}]]
NoCounts == [r \in Remediation |-> [ip \in IP |-> 0]]
NotStashed ==
  [decisionIPs |-> NoDecisions, refcount |-> NoCounts, skippedRanges |-> 0]
NoChange == [added |-> 0, removed |-> 0]

\* Mutant of Contribution: forget is left out, so a decision that changed
\* type stays in the map it no longer belongs to.
ContributionNotForgotten(r, d) ==
  IF Route[d.type] = r THEN Covers[d.value] ELSE decisionIPs[r][d.id]

\* What decision d contributes to map r: expand, for the map setFor routes
\* its type to and for no other (forget).
Contribution(r, d) == IF Route[d.type] = r THEN Covers[d.value] ELSE {}

\* forget and add: decision i now contributes new[r] to each map r.
SetContribution(i, new) ==
  /\ decisionIPs' = [r \in Remediation |-> [decisionIPs[r] EXCEPT ![i] = new[r]]]
  /\ refcount' = [r \in Remediation |->
                    Recount(refcount[r], decisionIPs[r][i], new[r])]
  /\ touched' = [r \in Remediation |->
                   Retouch(touched[r], refcount[r], decisionIPs[r][i], new[r])]

\* An oversized range is counted; expand is reached only for an enforced type.
Skips(d) == Route[d.type] # NoMap /\ d.value \in Oversized

Add(d) ==
  /\ SetContribution(d.id, [r \in Remediation |-> Contribution(r, d)])
  /\ IF Skips(d)
       THEN skippedRanges < MaxSkipped /\ skippedRanges' = skippedRanges + 1
       ELSE UNCHANGED skippedRanges
  /\ UNCHANGED <<sortedIPs, before, pendingShrink, accepted, report>>

-------------------------------------------------------------------------------
(* applyDelta *)

Init ==
  /\ phase = "idle"
  /\ decisionIPs = NoDecisions
  /\ refcount = NoCounts
  /\ sortedIPs = [r \in Remediation |-> {}]
  /\ touched = [r \in Remediation |-> Nil]
  /\ before = NotStashed
  /\ pendingShrink = 0
  /\ skippedRanges = 0
  /\ accepted = TRUE
  /\ report = NoChange

BeginDelta ==
  /\ phase = "idle"
  /\ phase' = "deleting"
  /\ touched' = [r \in Remediation |-> [ip \in IP |-> "unseen"]]
  /\ skippedRanges' = 0
  /\ report' = NoChange
  /\ UNCHANGED <<decisionIPs, refcount, sortedIPs, before, pendingShrink, accepted>>

\* remove: the decision goes from every map, by id.
Remove(i) ==
  /\ phase = "deleting"
  /\ SetContribution(i, [r \in Remediation |-> {}])
  /\ UNCHANGED <<phase, sortedIPs, before, pendingShrink, skippedRanges,
                 accepted, report>>

AddToDelta(d) ==
  /\ phase \in {"deleting", "adding"}
  /\ phase' = "adding"
  /\ Add(d)

\* settle: the IPs of map r that are listed now and were not when the delta
\* started, and the other way round, from touched and refcount alone.
Arrived(r) ==
  {ip \in IP : touched[r][ip] = "absent" /\ refcount[r][ip] > 0}
Departed(r) ==
  {ip \in IP : touched[r][ip] = "present" /\ refcount[r][ip] = 0}

\* Mutant of Settled: past the threshold the changes collected are given up
\* without the rebuild.
SettledWithoutRebuild(r) ==
  IF Cardinality(Arrived(r)) + Cardinality(Departed(r)) > ResortThreshold
    THEN sortedIPs[r]
    ELSE (sortedIPs[r] \cup Arrived(r)) \ Departed(r)

\* Few changes are spliced into sortedIPs; past the threshold it is rebuilt.
Settled(r) ==
  IF Cardinality(Arrived(r)) + Cardinality(Departed(r)) > ResortThreshold
    THEN Listed(refcount[r])
    ELSE (sortedIPs[r] \cup Arrived(r)) \ Departed(r)

\* Mutant of NoTouched: the touched sets are left behind.
NoTouchedKept == touched

NoTouched == [r \in Remediation |-> Nil]

\* Each map is settled, and its touched set dropped.
EndDelta ==
  /\ phase \in {"deleting", "adding"}
  /\ phase' = "idle"
  /\ sortedIPs' = [r \in Remediation |-> Settled(r)]
  /\ report' =
       [added |-> Cardinality({e \in Remediation \X IP : e[2] \in Arrived(e[1])}),
        removed |-> Cardinality({e \in Remediation \X IP : e[2] \in Departed(e[1])})]
  /\ touched' = NoTouched
  /\ UNCHANGED <<decisionIPs, refcount, before, pendingShrink, skippedRanges,
                 accepted>>

-------------------------------------------------------------------------------
(* applyFull *)

BeginFull ==
  /\ phase = "idle"
  /\ phase' = "full"
  /\ before' = [decisionIPs |-> decisionIPs, refcount |-> refcount,
                skippedRanges |-> skippedRanges]
  /\ decisionIPs' = NoDecisions
  /\ refcount' = NoCounts
  /\ skippedRanges' = 0
  /\ report' = NoChange
  /\ UNCHANGED <<sortedIPs, touched, pendingShrink, accepted>>

AddToFull(d) ==
  /\ phase = "full"
  /\ UNCHANGED phase
  /\ Add(d)

\* Mutant of Refused: the guard is left out.
RefusedNever == FALSE

\* acceptSnapshot, on the applied result.
Refused == RefusesSnapshot(Size(before.refcount), Size(refcount), pendingShrink)

\* diff against the displaced counts.
Diff ==
  [added |-> Cardinality(Entries(refcount) \ Entries(before.refcount)),
   removed |-> Cardinality(Entries(before.refcount) \ Entries(refcount))]

KeepFull ==
  /\ phase = "full"
  /\ ~Refused
  /\ phase' = "idle"
  /\ sortedIPs' = [r \in Remediation |-> Listed(refcount[r])]
  /\ pendingShrink' = 0
  /\ accepted' = TRUE
  /\ report' = Diff
  /\ before' = NotStashed
  /\ UNCHANGED <<decisionIPs, refcount, touched, skippedRanges>>

\* Mutant of RestoredSlice: sortedIPs is stashed by reference, and so holds
\* what rebuildSorted wrote over it.
RestoredSliceAliased(r) == Listed(refcount[r])

\* rebuildSorted, of the counts that come back.
RestoredSlice(r) == Listed(before.refcount[r])

\* restore: the displaced maps come back and sortedIPs is rebuilt from them.
RefuseFull ==
  /\ phase = "full"
  /\ Refused
  /\ phase' = "idle"
  /\ decisionIPs' = before.decisionIPs
  /\ refcount' = before.refcount
  /\ sortedIPs' = [r \in Remediation |-> RestoredSlice(r)]
  /\ skippedRanges' = before.skippedRanges
  /\ pendingShrink' = pendingShrink + 1
  /\ accepted' = FALSE
  /\ report' = Diff
  /\ before' = NotStashed
  /\ UNCHANGED touched

Next ==
  \/ BeginDelta
  \/ \E i \in DecisionId : Remove(i)
  \/ \E d \in Decision : AddToDelta(d) \/ AddToFull(d)
  \/ EndDelta
  \/ BeginFull
  \/ KeepFull
  \/ RefuseFull

Spec == Init /\ [][Next]_vars

-------------------------------------------------------------------------------
(* Properties *)

CountMap == [Remediation -> [IP -> Nat]]
HeldMap == [Remediation -> [DecisionId -> SUBSET IP]]

\* Every variable has its type, and a touched set exists exactly while a delta
\* is being applied.
TypeOK ==
  /\ phase \in {"idle", "deleting", "adding", "full"}
  /\ decisionIPs \in HeldMap
  /\ refcount \in CountMap
  /\ sortedIPs \in [Remediation -> SUBSET IP]
  /\ touched \in [Remediation -> [IP -> Presence] \cup {Nil}]
  /\ \A r \in Remediation : touched[r] = Nil <=> phase \in {"idle", "full"}
  /\ before \in [decisionIPs : HeldMap, refcount : CountMap,
                skippedRanges : 0..MaxSkipped]
  /\ pendingShrink \in {0, 1}
  /\ skippedRanges \in 0..MaxSkipped
  /\ accepted \in BOOLEAN
  /\ report \in [added : Nat, removed : Nat]

\* The decisions that contribute ip to a map.
Holders(held, r, ip) == {i \in DecisionId : ip \in held[r][i]}

Exact(held, counts) ==
  \A r \in Remediation, ip \in IP :
    counts[r][ip] = Cardinality(Holders(held, r, ip))

\* An IP's reference count is the number of decisions that cover it, at every
\* point of an apply: overlapping decisions neither free an IP that another
\* still bans nor leave one behind (ref, unref, add, forget, restore).
RefcountExact == Exact(decisionIPs, refcount)

\* A decision is enforced in at most one map, whatever types it arrived under:
\* a captcha escalated to a ban leaves the captcha map (forget).
OneMapPerDecision ==
  \A i \in DecisionId, q, r \in Remediation :
    decisionIPs[q][i] # {} /\ decisionIPs[r][i] # {} => q = r

\* Whenever the lock is free, so whenever the renderer or a metrics scrape can
\* look, the sorted slice is the keyset of the reference counts (settle,
\* insertSorted, removeSorted, rebuildSorted, restore).
RenderedInStep ==
  phase = "idle" => \A r \in Remediation : sortedIPs[r] = Listed(refcount[r])

\* The poll loop writes the maps after a delta only if it reports a change.
\* It reports none exactly when no map changed, even if IPs left and came
\* back within the delta (note, settle).
DeltaReportIsNet ==
  [][phase # "full" /\ phase # "idle" /\ phase' = "idle"
       => (report' = NoChange <=> sortedIPs' = sortedIPs)]_vars

\* A snapshot that drops most of a list worth protecting is kept only if the
\* snapshot before it was refused, whatever deltas came between: a single
\* short response never unbans the list (acceptSnapshot).
MassUnbanIsConfirmed ==
  [][phase = "full" /\ phase' = "idle" /\ accepted'
       => \/ ~accepted
          \/ ~Short(Size(before.refcount), Size(refcount))]_vars

\* A short snapshot is refused at most once in a row: a genuine flush of the
\* list lands with the next snapshot (acceptSnapshot).
NeverRefusedTwice ==
  [][phase = "full" /\ phase' = "idle" => accepted \/ accepted']_vars

\* The list implements its abstract specification: counts, touched sets and
\* splices amount to the union of the decisions held, a snapshot is refused
\* exactly when it is the first in a row too short for what is enforced, whatever
\* deltas came between, and a refused one leaves no trace but that doubt.
List == INSTANCE BlockList WITH
  batch <- IF phase = "idle" THEN "none"
           ELSE IF phase = "full" THEN "snapshot" ELSE "delta",
  held <- decisionIPs,
  base <- before.decisionIPs,
  enforced <- sortedIPs,
  doubted <- pendingShrink > 0,
  report <- report

ListSpec == List!Spec

==============================================================================
