------------------------------ MODULE MCPollLoop ------------------------------
(* Small instances of PollLoop: both maps, one address. *)
EXTENDS PollLoop

CONSTANT ip1

OneIP == {ip1}
MCMapOrder == <<"ban", "captcha">>
==============================================================================
