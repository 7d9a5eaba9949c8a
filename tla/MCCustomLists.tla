----------------------------- MODULE MCCustomLists -----------------------------
(* Small instances of CustomLists. *)
EXTENDS CustomLists

BothLists == <<"allowlist", "denylist">>
==============================================================================
