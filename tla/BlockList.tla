------------------------------ MODULE BlockList ------------------------------
(***************************************************************************)
(* What the decision list promises, without the reference counts, the      *)
(* touched sets and the splicing that DecisionList uses to deliver it.     *)
(*                                                                         *)
(* Decisions are held by id, each in one remediation map with the IPs it   *)
(* covers.  They arrive in batches: a delta edits the decisions held, a    *)
(* snapshot starts from none.  The list that Apache is given changes only  *)
(* when a batch is kept, and is then, for each map, exactly the union of   *)
(* what its decisions cover.  A snapshot is abandoned exactly when it is   *)
(* the first in a row too short to be believed, and then leaves no trace   *)
(* but the doubt that lets the next one through.                           *)
(***************************************************************************)
EXTENDS Naturals, FiniteSets, SnapshotGuard

CONSTANTS IP, DecisionId, Remediation

VARIABLES
  batch,     \* "none", "delta" or "snapshot": the batch being applied
  held,      \* [Remediation -> [DecisionId -> SUBSET IP]]
  base,      \* what was held before the snapshot being applied
  enforced,  \* [Remediation -> SUBSET IP]: the list Apache is given
  doubted,   \* the last snapshot was abandoned
  report     \* how many entries the last batch added and removed

vars == <<batch, held, base, enforced, doubted, report>>

Nothing == [r \in Remediation |-> [i \in DecisionId |-> {}]]

\* The list that a set of held decisions amounts to.
ListOf(h) == [r \in Remediation |-> UNION {h[r][i] : i \in DecisionId}]

\* Map entries that are in list l and not in list m.
Entries(l) == {e \in Remediation \X IP : e[2] \in l[e[1]]}
Gain(l, m) == Cardinality(Entries(l) \ Entries(m))
Changes(old, new) == [added |-> Gain(new, old), removed |-> Gain(old, new)]

NoChange == [added |-> 0, removed |-> 0]

Init ==
  /\ batch = "none"
  /\ held = Nothing
  /\ base = Nothing
  /\ enforced = [r \in Remediation |-> {}]
  /\ doubted = FALSE
  /\ report = NoChange

OpenDelta ==
  /\ batch = "none"
  /\ batch' = "delta"
  /\ report' = NoChange
  /\ UNCHANGED <<held, base, enforced, doubted>>

OpenSnapshot ==
  /\ batch = "none"
  /\ batch' = "snapshot"
  /\ base' = held
  /\ held' = Nothing
  /\ report' = NoChange
  /\ UNCHANGED <<enforced, doubted>>

\* Decision i is now held in at most one map, r, where it covers ips.
Put(i, r, ips) ==
  /\ batch # "none"
  /\ held' = [q \in Remediation |->
                [held[q] EXCEPT ![i] = IF q = r THEN ips ELSE {}]]
  /\ UNCHANGED <<batch, base, enforced, doubted, report>>

\* Decision i is held nowhere: it was retired, or is not one to enforce.
Drop(i) ==
  /\ batch # "none"
  /\ held' = [q \in Remediation |-> [held[q] EXCEPT ![i] = {}]]
  /\ UNCHANGED <<batch, base, enforced, doubted, report>>

\* The snapshot would leave much less than the list it replaces.
Doubtful == Short(Cardinality(Entries(enforced)), Cardinality(Entries(ListOf(held))))

\* A delta is always kept; a doubtful snapshot, only after one that was abandoned.
Keep ==
  /\ batch # "none"
  /\ batch = "snapshot" /\ Doubtful => doubted
  /\ batch' = "none"
  /\ doubted' = (doubted /\ batch = "delta")
  /\ enforced' = ListOf(held)
  /\ report' = Changes(enforced, ListOf(held))
  /\ base' = Nothing
  /\ UNCHANGED held

\* Only a snapshot is ever abandoned, and no two in a row.  The report still says
\* what it would have done.
Abandon ==
  /\ batch = "snapshot"
  /\ Doubtful /\ ~doubted
  /\ batch' = "none"
  /\ doubted' = TRUE
  /\ held' = base
  /\ report' = Changes(enforced, ListOf(held))
  /\ base' = Nothing
  /\ UNCHANGED enforced

Next ==
  \/ OpenDelta
  \/ OpenSnapshot
  \/ \E i \in DecisionId :
        \/ Drop(i)
        \/ \E r \in Remediation, ips \in SUBSET IP : Put(i, r, ips)
  \/ Keep
  \/ Abandon

Spec == Init /\ [][Next]_vars
==============================================================================
