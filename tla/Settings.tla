------------------------------- MODULE Settings -------------------------------
(***************************************************************************)
(* Loading the configuration: src/config.go.  loadConfig reads the         *)
(* environment file in an order that matters, because each part depends on *)
(* what an earlier one settled: the remediation policy, then the captcha   *)
(* settings, which may switch the listener off, then the fallback, then    *)
(* the maps that can be reached, then whether the listener has any work,   *)
(* then whether the files it would destroy are somebody else's.  One step  *)
(* here is one of these parts.                                             *)
(*                                                                         *)
(* A setting is abstracted to what the code tells apart: "other" stands    *)
(* for any value it does not know.  Values that are only clamped, printed  *)
(* or passed on (timeouts, URLs, markup) are left out.                     *)
(***************************************************************************)
EXTENDS Integers, Sequences

CONSTANTS
  Environment,       \* the environment files considered
  Dials,             \* and the settings of the three ALTCHA dials in them
  Real,              \* directory as it is spelt -> directory
  PlainAlgorithm, KeyedAlgorithm,  \* the two families of altchaAlgorithms
  DefaultDials,      \* the shipped algorithm, cost and complexity
  CostRange, ComplexityRange,
  MaxCalls, MaxIterations

KnownRemediations == {"ban", "captcha"}

\* The types the LAPI can send; "throttle" stands for any this bouncer cannot
\* express.
DecisionType == {"ban", "captcha", "throttle"}

Dial == [algorithm : STRING, cost : Int, complexity : Int]

\* An environment file: what loadConfig reads of it, in its order.
EnvironmentFile ==
  [key : BOOLEAN, output : Seq(STRING), dbm : Seq(STRING), mapType : {"txt", "dbm"},
   converter : BOOLEAN, lists : STRING,
   bouncing : KnownRemediations \cup {"all", "unset", "other"},
   onlyBan : {"unset", "yes", "no"},
   fallback : KnownRemediations \cup {"unset", "empty", "other"},
   override : KnownRemediations \cup {"unset", "other"},
   listen : BOOLEAN, removed : BOOLEAN, sri : {"unset", "valid", "malformed"},
   dials : Dial, pass : Seq(STRING), ready : Seq(STRING)]

VARIABLES
  env,   \* the environment file
  conf,  \* the config being assembled
  stage  \* what loadConfig does next, or "running" or "refused"

vars == <<env, conf, stage>>

-------------------------------------------------------------------------------
(* The remediation policy *)

PolicyRefused(e) ==
  \/ e.bouncing = "other"
  \/ e.fallback = "other"
  \/ e.override = "other"

\* BOUNCING_ON_TYPE, or what the deprecated ONLY_BAN stands for.
Bouncing(e) ==
  IF e.bouncing # "unset" THEN e.bouncing
  ELSE IF e.onlyBan = "no" THEN "all" ELSE "ban"

\* A setting that names a remediation, or what it means when it does not.
Named(v, otherwise) == IF v \in KnownRemediations THEN v ELSE otherwise

Policy(e, c) ==
  [c EXCEPT !.bouncing = Bouncing(e),
            !.fallback = Named(e.fallback, "ban"),
            !.override = Named(e.override, "none")]

\* captchaUsable is c.listening.
Expressible(c, r) == r = "ban" \/ (r = "captcha" /\ c.listening)

\* resolveRemediation: the map a decision of type t goes to, "none" when it is
\* not enforced.
Resolve(c, t) ==
  IF c.bouncing \notin {"all", t} THEN "none"
  ELSE LET r == IF c.override # "none" THEN c.override ELSE t
       IN  IF Expressible(c, r) THEN r ELSE c.fallback

\* Mutant of MapsNeeded: a type that is not enforced asks for a map as well.
MapsNeededForIgnored(c) == {Resolve(c, t) : t \in DecisionType}

MapsNeeded(c) == {Resolve(c, t) : t \in DecisionType} \ {"none"}

-------------------------------------------------------------------------------
(* The captcha settings *)

Clamped(n, range) ==
  IF n < range.lo THEN range.lo ELSE IF n > range.hi THEN range.hi ELSE n

\* ALTCHA_ALGORITHM, ALTCHA_COST and ALTCHA_COMPLEXITY as read.
DialsRead(e) ==
  [algorithm |-> e.dials.algorithm,
   cost |-> Clamped(e.dials.cost, CostRange),
   complexity |-> Clamped(e.dials.complexity, ComplexityRange)]

\* altchaWebCryptoCalls: what an expected solve asks of the browser.  The keyed
\* family spends three calls on a candidate, whatever the cost.
Calls(d) ==
  (d.complexity \div 2) * (IF d.algorithm \in KeyedAlgorithm THEN 3 ELSE d.cost)

Iterations(d) == (d.complexity \div 2) * d.cost

Solvable(d) ==
  /\ d.algorithm \in PlainAlgorithm \cup KeyedAlgorithm
  /\ Calls(d) <= MaxCalls
  /\ Iterations(d) <= MaxIterations

ASSUME SettingsAssumption ==
  /\ Environment \subseteq EnvironmentFile /\ Dials \subseteq Dial
  /\ Solvable(DefaultDials)

\* Mutant of DialsInForce: the two numbers are reset and the name is kept.
DialsInForceNumbersOnly(d) ==
  IF Solvable(d) \/ d.algorithm \notin PlainAlgorithm \cup KeyedAlgorithm THEN d
  ELSE [DefaultDials EXCEPT !.algorithm = d.algorithm]

\* All three dials give way together.
DialsInForce(d) == IF Solvable(d) THEN d ELSE DefaultDials

\* Mutant of CaptchaRefused: dials that cannot be solved are fatal.
CaptchaRefusedOnDials(e) == e.listen /\ (e.removed \/ ~Solvable(DialsRead(e)))

\* A setting of the removed provider, which only the listener would notice.
CaptchaRefused(e) == e.listen /\ e.removed

\* loadCaptcha.  The dials are judged only when there is a listener to use them,
\* and a digest no browser accepts switches the listener off.
Captcha(e, c) ==
  [c EXCEPT !.dials = IF e.listen THEN DialsInForce(DialsRead(e)) ELSE DialsRead(e),
            !.listening = e.listen /\ e.sri # "malformed"]

-------------------------------------------------------------------------------
(* What the captcha settings do to the policy *)

\* Mutant of Demoted: the fallback is left as it was configured.
DemotedNever(c) == c

\* A fallback to a captcha that nobody can serve becomes a ban.
Demoted(c) ==
  IF c.fallback = "captcha" /\ ~c.listening THEN [c EXCEPT !.fallback = "ban"] ELSE c

\* Mutant of WithMaps: every map is rendered.
WithMapsAll(c) == [c EXCEPT !.remediations = KnownRemediations]

WithMaps(c) == [c EXCEPT !.remediations = MapsNeeded(c)]

\* A listener that no decision is routed to is switched off.
SwitchedOff(c) == [c EXCEPT !.listening = @ /\ "captcha" \in c.remediations]

-------------------------------------------------------------------------------
(* Files.  A path is a sequence: a directory as it is spelt, then the name.  *)

NoFile == <<>>

AbsPath(p) == [p EXCEPT ![1] = Real[@]]

SamePath(p, q) == AbsPath(p) = AbsPath(q)

DefaultDBM(txt) ==
  IF txt[Len(txt)] = ".txt" THEN [txt EXCEPT ![Len(txt)] = ".dbm"]
  ELSE Append(txt, ".dbm")

\* Every name that httxt2dbm's backends can give the DBM.
DBMFiles(dbm) == {dbm} \cup {Append(dbm, suffix) : suffix \in {".db", ".pag", ".dir"}}

MapFiles(txt, dbm) == {txt} \cup DBMFiles(dbm)

DBMOf(e) == IF e.dbm = NoFile THEN DefaultDBM(e.output) ELSE e.dbm

\* mapPaths, and the files that the map then has.
FilesOf(e, r) ==
  IF r = "ban" THEN MapFiles(e.output, DBMOf(e))
  ELSE LET txt == <<e.output[1], r, ".txt">> IN MapFiles(txt, DefaultDBM(txt))

\* The operator's allowlist and denylist, unless CUSTOM_LIST_DIR is empty.
ListFiles(e) ==
  IF e.lists = "none" THEN {}
  ELSE UNION {LET txt == <<e.lists, list, ".txt">> IN MapFiles(txt, DefaultDBM(txt))
                : list \in {"allowlist", "denylist"}}

\* What cannot be defaulted, and a DBM that would be built over its own source.
FilesRefused(e) ==
  \/ ~e.key
  \/ \E f \in DBMFiles(DBMOf(e)) : SamePath(f, e.output)
  \/ e.mapType = "dbm" /\ ~e.converter

\* Mutant of Owned: a readiness file that nothing will write is compared as well.
OwnedWhenConfigured(e, c) == {e.pass} \cup (IF e.listen THEN {e.ready} \ {NoFile} ELSE {})

\* What the guard takes for its own: the pass map, which every start empties, and the
\* readiness file, which the listener empties and deletes.  The maps that
\* retireUnusedMaps empties are not among them.
Owned(e, c) == {e.pass} \cup (IF c.listening THEN {e.ready} \ {NoFile} ELSE {})

\* Mutant of Guarded: only the maps this policy renders are compared.
GuardedRendered(e, c) == UNION {FilesOf(e, r) : r \in c.remediations} \cup ListFiles(e)

\* Every map the daemon can write, produced under this policy or not.
Guarded(e, c) == UNION {FilesOf(e, r) : r \in KnownRemediations} \cup ListFiles(e)

Collides(e, c) ==
  \/ \E p \in Owned(e, c) : \E q \in Guarded(e, c) : SamePath(p, q)
  \/ c.listening /\ e.ready # NoFile /\ SamePath(e.ready, e.pass)

-------------------------------------------------------------------------------
(* loadConfig *)

NoConfig ==
  [bouncing |-> "none", fallback |-> "none", override |-> "none",
   listening |-> FALSE, dials |-> DefaultDials, remediations |-> {}]

Init ==
  /\ env \in Environment
  /\ conf = NoConfig
  /\ stage = "files"

Refuse == stage' = "refused" /\ UNCHANGED conf

CheckFiles ==
  /\ stage = "files"
  /\ IF FilesRefused(env) THEN Refuse ELSE stage' = "policy" /\ UNCHANGED conf
  /\ UNCHANGED env

LoadRemediationPolicy ==
  /\ stage = "policy"
  /\ IF PolicyRefused(env) THEN Refuse
     ELSE stage' = "captcha" /\ conf' = Policy(env, conf)
  /\ UNCHANGED env

LoadCaptcha ==
  /\ stage = "captcha"
  /\ IF CaptchaRefused(env) THEN Refuse
     ELSE stage' = "fallback" /\ conf' = Captcha(env, conf)
  /\ UNCHANGED env

DemoteFallback ==
  /\ stage = "fallback"
  /\ stage' = "maps"
  /\ conf' = Demoted(conf)
  /\ UNCHANGED env

DeriveMaps ==
  /\ stage = "maps"
  /\ stage' = "listener"
  /\ conf' = WithMaps(conf)
  /\ UNCHANGED env

SwitchOff ==
  /\ stage = "listener"
  /\ stage' = "guard"
  /\ conf' = SwitchedOff(conf)
  /\ UNCHANGED env

GuardFiles ==
  /\ stage = "guard"
  /\ stage' = IF Collides(env, conf) THEN "refused" ELSE "running"
  /\ UNCHANGED <<env, conf>>

\* systemd starts the daemon again (Restart=always), with the same file.
Restart ==
  /\ stage \in {"running", "refused"}
  /\ stage' = "files"
  /\ conf' = NoConfig
  /\ UNCHANGED env

Next ==
  \/ CheckFiles \/ LoadRemediationPolicy \/ LoadCaptcha \/ DemoteFallback
  \/ DeriveMaps \/ SwitchOff \/ GuardFiles \/ Restart

Spec == Init /\ [][Next]_vars

\* The same, all at once: what loadConfig makes of an environment file, for the
\* modules that start the daemon.
Loaded(e) ==
  SwitchedOff(WithMaps(Demoted(Captcha(e, Policy(e, NoConfig)))))

Refused(e) ==
  \/ FilesRefused(e) \/ PolicyRefused(e) \/ CaptchaRefused(e)
  \/ Collides(e, Loaded(e))

-------------------------------------------------------------------------------
(* Properties *)

\* Types, and that a running daemon always has a map to render.
TypeOK ==
  /\ stage \in {"files", "policy", "captcha", "fallback", "maps", "listener", "guard",
                "running", "refused"}
  /\ conf.bouncing \in KnownRemediations \cup {"all", "none"}
  /\ conf.fallback \in KnownRemediations \cup {"none"}
  /\ conf.override \in KnownRemediations \cup {"none"}
  /\ conf.listening \in BOOLEAN
  /\ conf.remediations \subseteq KnownRemediations
  /\ stage = "running" => conf.remediations # {}

\* Whatever combination of settings the daemon runs with, a decision of a type it
\* bounces on is enforced by something: it goes to a map that is rendered, and to
\* the captcha map only while a listener is to run (resolveRemediation, and the
\* demotion of the fallback).
NothingUnenforced ==
  stage = "running" =>
    \A t \in DecisionType :
      conf.bouncing \in {"all", t} =>
        /\ Resolve(conf, t) \in conf.remediations
        /\ Resolve(conf, t) = "captcha" => conf.listening

\* The maps were derived before the listener was switched off, and that changed no
\* routing: each map rendered is one a decision can still land in (mapsNeeded), and
\* the captcha map is rendered exactly when a listener is to run.
MapsMatchRouting ==
  stage = "running" =>
    /\ conf.remediations = MapsNeeded(conf)
    /\ conf.listening <=> "captcha" \in conf.remediations

\* A challenge that is served can be solved: whatever the dials say and however they
\* multiply, those in force are within what a browser manages (loadCaptcha).
ServedIsSolvable == stage = "running" /\ conf.listening => Solvable(conf.dials)

\* The same environment file under another policy.
Under(e, bouncing, fallback, override, listen, sri) ==
  [e EXCEPT !.bouncing = bouncing, !.fallback = fallback, !.override = override,
            !.listen = listen, !.sri = sri]

\* A daemon that starts with its files starts with them under every other policy, with
\* a digest that may be malformed, and without its listener.  A pass or readiness file
\* aimed at a map is refused whether or not this policy renders the map, so it never
\* waits for the change of policy that makes it destroy one.  Only a listener that the
\* change brings up has a readiness file that was not looked at; and where there is none,
\* for whichever of its reasons, not even a readiness file aimed at the ban map stops the
\* daemon (the comment in loadConfig).
FilesOutlastPolicy ==
  stage = "running" =>
    \A bouncing \in KnownRemediations \cup {"all"}, fallback \in KnownRemediations,
       override \in KnownRemediations \cup {"unset"}, listen \in {env.listen, FALSE},
       sri \in {env.sri, "malformed"} :
      LET e == Under(env, bouncing, fallback, override, listen, sri)
      IN  /\ (Loaded(e).listening => conf.listening) => ~Refused(e)
          /\ ~Loaded(e).listening => ~Refused([e EXCEPT !.ready = e.output])

\* A slip in the captcha dials or the digest never takes the bans down: the daemon
\* still starts, and whatever was banned or ignored still is (tiers 1 and 2 of the
\* comment in loadConfig).
CaptchaSlipKeepsBans ==
  stage = "running" =>
    \A dials \in Dials, sri \in {env.sri, "malformed"} :
      LET slip == [env EXCEPT !.dials = dials, !.sri = sri]
      IN  /\ ~Refused(slip)
          /\ \A t \in DecisionType :
               Resolve(conf, t) # "captcha" => Resolve(Loaded(slip), t) = Resolve(conf, t)
==============================================================================
