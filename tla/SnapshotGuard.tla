---------------------------- MODULE SnapshotGuard ----------------------------
(***************************************************************************)
(* acceptSnapshot of src/bouncer.go: when a full snapshot of the decision  *)
(* stream is too short to be believed at once.  Both counts are of map     *)
(* entries, summed over every remediation.                                 *)
(***************************************************************************)
EXTENDS Naturals

CONSTANTS
  MinSnapshotIPs,      \* 50 in the code
  SnapshotShrinkDenom  \* 2 in the code

\* The snapshot lists fewer than 1/SnapshotShrinkDenom of a list that is large
\* enough for the proportion to mean anything.
Short(heldIPs, snapshotIPs) ==
  /\ heldIPs >= MinSnapshotIPs
  /\ snapshotIPs * SnapshotShrinkDenom < heldIPs

\* The first short snapshot in a row is refused, the second is believed.
RefusesSnapshot(heldIPs, snapshotIPs, pending) ==
  Short(heldIPs, snapshotIPs) /\ pending + 1 < 2

\* pendingShrink after the verdict.
ShrinkCount(heldIPs, snapshotIPs, pending) ==
  IF RefusesSnapshot(heldIPs, snapshotIPs, pending) THEN pending + 1 ELSE 0
==============================================================================
