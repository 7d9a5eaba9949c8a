------------------------------ MODULE MCSettings ------------------------------
(***************************************************************************)
(* The environment files considered: every combination of the settings that *)
(* decide the routing, then of the dials, then of the files, each with the *)
(* rest left at a sound default.  The numbers are the code's own, combined *)
(* so that no product leaves TLC's integers.                               *)
(***************************************************************************)
EXTENDS Settings, TLC

MCReal == "d" :> "d" @@ "./d" :> "d" @@ "run" :> "run"
MCPlain == {"SHA-256"}
MCKeyed == {"PBKDF2/SHA-256"}
MCDefaultDials == [algorithm |-> "PBKDF2/SHA-256", cost |-> 5000, complexity |-> 5000]
MCCostRange == [lo |-> 1, hi |-> 100000]
MCComplexityRange == [lo |-> 1000, hi |-> 1000000]

\* Around each bound: the ranges, the call budget and the iteration budget.
MCDials ==
  {[algorithm |-> a, cost |-> n[1], complexity |-> n[2]] :
     a \in MCPlain \cup MCKeyed \cup {"other"},
     n \in {<<0, 0>>, <<1, 2000000>>, <<5000, 5000>>, <<10, 1000000>>, <<11, 1000000>>,
            <<500, 1000000>>, <<501, 1000000>>, <<200000, 5000>>, <<200000, 5002>>}}

Sound ==
  [bouncing |-> "all", onlyBan |-> "unset", override |-> "unset", fallback |-> "unset",
   listen |-> TRUE, removed |-> FALSE, sri |-> "unset", dials |-> MCDefaultDials,
   key |-> TRUE, mapType |-> "txt", converter |-> TRUE,
   output |-> <<"d", "blocklist", ".txt">>, dbm |-> NoFile,
   pass |-> <<"d", "captcha_passed", ".txt">>, ready |-> <<"run", "challenge.up">>,
   lists |-> "none"]

Policies ==
  {[Sound EXCEPT !.bouncing = b, !.onlyBan = o, !.override = v, !.fallback = f,
                 !.listen = l, !.removed = g, !.sri = s] :
     b \in {"unset", "ban", "captcha", "all", "other"}, o \in {"unset", "yes", "no"},
     v \in {"unset", "ban", "captcha", "other"},
     f \in {"unset", "empty", "ban", "captcha", "other"},
     l \in BOOLEAN, g \in BOOLEAN, s \in {"unset", "malformed"}}

DialSettings ==
  {[Sound EXCEPT !.dials = d, !.listen = l, !.sri = s] :
     d \in MCDials, l \in BOOLEAN, s \in {"unset", "valid", "malformed"}}

OwnedPaths ==
  {<<"d", "captcha_passed", ".txt">>, <<"./d", "captcha_passed", ".txt">>,
   <<"./d", "blocklist", ".txt">>, <<"d", "blocklist", ".dbm", ".pag">>,
   <<"d", "captcha", ".txt">>, <<"d", "captcha", ".dbm", ".dir">>,
   <<"d", "allowlist", ".txt">>, <<"d", "denylist", ".dbm">>}

FileSettings ==
  {[Sound EXCEPT !.bouncing = b, !.listen = l, !.output = o, !.dbm = d, !.pass = p,
                 !.ready = r, !.lists = c] :
     b \in {"ban", "captcha", "all"}, l \in BOOLEAN,
     o \in {<<"d", "blocklist", ".txt">>, <<"d", "captcha", ".txt">>, <<"d", "map", ".pag">>},
     d \in {NoFile, <<"d", "map">>, <<"./d", "blocklist", ".txt">>},
     p \in OwnedPaths,
     r \in OwnedPaths \cup {NoFile, <<"run", "challenge.up">>},
     c \in {"none", "./d"}}

ConverterSettings ==
  {[Sound EXCEPT !.key = k, !.mapType = m, !.converter = h] :
     k \in BOOLEAN, m \in {"txt", "dbm"}, h \in BOOLEAN}

MCEnvironment == Policies \cup DialSettings \cup FileSettings \cup ConverterSettings
==============================================================================
