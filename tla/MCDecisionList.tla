---------------------------- MODULE MCDecisionList ----------------------------
(* A small instance of DecisionList: two maps, overlapping values, one range *)
(* that is too large to expand and one type that no map is rendered for.     *)
EXTENDS DecisionList, TLC

CONSTANTS ip1, ip2, id1, id2, id3

MCIP == {ip1, ip2}
MCDecisionId == {id1, id2, id3}
MCRemediation == {"ban", "captcha"}
MCDecisionType == {"ban", "captcha", "throttle"}
MCValue == {"first", "second", "both", "huge"}
MCCovers == [v \in MCValue |->
  CASE v = "first" -> {ip1}
    [] v = "second" -> {ip2}
    [] v = "both" -> {ip1, ip2}
    [] v = "huge" -> {}]
MCOversized == {"huge"}
MCRoute == [t \in MCDecisionType |-> IF t = "throttle" THEN "none" ELSE t]

Symmetry == Permutations(MCDecisionId)
==============================================================================
