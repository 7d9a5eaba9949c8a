---------------------------- MODULE SettingsProofs ----------------------------
(***************************************************************************)
(* What holds of every environment file.  The argument: at each stage conf *)
(* is what the parts read so far make of the environment file, so that a   *)
(* running daemon's conf is Loaded(env) and nothing that refuses a start   *)
(* applies.  The properties are then about the operators alone.            *)
(***************************************************************************)
EXTENDS Settings, TLAPS

AfterPolicy(e) == Policy(e, NoConfig)
AfterCaptcha(e) == Captcha(e, AfterPolicy(e))
AfterFallback(e) == Demoted(AfterCaptcha(e))
AfterMaps(e) == WithMaps(AfterFallback(e))

\* The inductive invariant: conf at each stage, and what has not refused it.
IInv ==
  /\ env \in EnvironmentFile
  /\ stage \in {"files", "policy", "captcha", "fallback", "maps", "listener", "guard",
                "running", "refused"}
  /\ stage \in {"files", "policy"} => conf = NoConfig
  /\ stage = "captcha" => conf = AfterPolicy(env)
  /\ stage = "fallback" => conf = AfterCaptcha(env)
  /\ stage = "maps" => conf = AfterFallback(env)
  /\ stage = "listener" => conf = AfterMaps(env)
  /\ stage \in {"guard", "running"} => conf = Loaded(env)
  /\ stage \notin {"files", "refused"} => ~FilesRefused(env)
  /\ stage \notin {"files", "policy", "refused"} => ~PolicyRefused(env)
  /\ stage \notin {"files", "policy", "captcha", "refused"} => ~CaptchaRefused(env)
  /\ stage = "running" => ~Collides(env, conf)
  /\ stage = "refused" => \/ conf = NoConfig
                          \/ ~PolicyRefused(env) /\ conf \in {AfterPolicy(env), Loaded(env)}

\* The invariant holds before loading starts.
LEMMA StageInit == Init => IInv
BY SettingsAssumption DEF Init, IInv

\* Each stage of loading, and a restart, keeps the invariant.
LEMMA StageStep == IInv /\ [Next]_vars => IInv'
<1> SUFFICES ASSUME IInv, [Next]_vars PROVE IInv'
  OBVIOUS
<1> USE DEF IInv
<1>1. CASE CheckFiles
  BY <1>1 DEF CheckFiles, Refuse
<1>2. CASE LoadRemediationPolicy
  BY <1>2 DEF LoadRemediationPolicy, Refuse, AfterPolicy
<1>3. CASE LoadCaptcha
  BY <1>3 DEF LoadCaptcha, Refuse, AfterCaptcha
<1>4. CASE DemoteFallback
  BY <1>4 DEF DemoteFallback, AfterFallback
<1>5. CASE DeriveMaps
  BY <1>5 DEF DeriveMaps, AfterMaps
<1>6. CASE SwitchOff
  BY <1>6 DEF SwitchOff, AfterMaps, AfterFallback, AfterCaptcha, AfterPolicy, Loaded
<1>7. CASE GuardFiles
  BY <1>7 DEF GuardFiles
<1>8. CASE Restart
  BY <1>8 DEF Restart
<1>9. CASE UNCHANGED vars
  BY <1>9 DEF vars
<1> QED
  BY <1>1, <1>2, <1>3, <1>4, <1>5, <1>6, <1>7, <1>8, <1>9 DEF Next

\* What conf is at each stage of loading, for every environment file (loadConfig).
THEOREM Staged == Spec => []IInv
BY StageInit, StageStep, PTL DEF Spec

-------------------------------------------------------------------------------
(* The operators *)

\* What a complete config holds, whatever the environment file was.
Complete(c) ==
  /\ c.bouncing \in KnownRemediations \cup {"all"}
  /\ c.fallback \in KnownRemediations
  /\ c.override \in KnownRemediations \cup {"none"}
  /\ c.listening \in BOOLEAN

\* An accepted policy is complete, and the captcha settings leave it so.
LEMMA PolicyComplete ==
  ASSUME NEW e \in EnvironmentFile, ~PolicyRefused(e)
  PROVE  /\ Complete(AfterPolicy(e)) /\ Complete(AfterCaptcha(e))
         /\ AfterCaptcha(e).listening = (e.listen /\ e.sri # "malformed")
BY DEF EnvironmentFile, PolicyRefused, Complete, AfterPolicy, AfterCaptcha, Policy, Captcha,
       Bouncing, Named, NoConfig, KnownRemediations

\* The fallback of a complete config is one that can be served.
LEMMA FallbackServed ==
  ASSUME NEW e \in EnvironmentFile, ~PolicyRefused(e)
  PROVE  /\ Complete(AfterFallback(e))
         /\ AfterFallback(e).fallback = "captcha" => AfterFallback(e).listening
         /\ AfterFallback(e).listening = AfterCaptcha(e).listening
         /\ AfterFallback(e).dials = AfterCaptcha(e).dials
<1>1. AfterCaptcha(e) = [Policy(e, NoConfig) EXCEPT
         !.dials = IF e.listen THEN DialsInForce(DialsRead(e)) ELSE DialsRead(e),
         !.listening = e.listen /\ e.sri # "malformed"]
  BY DEF AfterCaptcha, AfterPolicy, Captcha
<1> QED
  BY <1>1, PolicyComplete DEF AfterFallback, Demoted, Complete, KnownRemediations, Policy, NoConfig

\* Switching the listener off when nothing is routed to it changes no route.
LEMMA RoutesKept ==
  ASSUME NEW c, Complete(c), c.fallback = "captcha" => c.listening,
         NEW d, d.bouncing = c.bouncing, d.fallback = c.fallback, d.override = c.override,
         d.listening = (c.listening /\ "captcha" \in MapsNeeded(c))
  PROVE  /\ \A t \in DecisionType : Resolve(d, t) = Resolve(c, t)
         /\ MapsNeeded(d) = MapsNeeded(c)
         /\ d.listening <=> "captcha" \in MapsNeeded(d)
<1>1. ASSUME NEW t \in DecisionType, Resolve(c, t) = "captcha"
      PROVE  c.listening
  BY <1>1 DEF Resolve, Expressible, Complete
<1>2. "captcha" \in MapsNeeded(c) => c.listening
  BY <1>1 DEF MapsNeeded
<1>3. ASSUME NEW t \in DecisionType
      PROVE  Resolve(d, t) = Resolve(c, t)
  <2>1. CASE d.listening = c.listening
    BY <2>1 DEF Resolve, Expressible
  <2>2. CASE c.listening /\ ~d.listening
    <3>1. Resolve(c, t) # "captcha"
      BY <2>2 DEF MapsNeeded
    <3> QED
      BY <2>2, <3>1 DEF Resolve, Expressible
  <2> QED
    BY <2>1, <2>2 DEF Complete
<1>4. MapsNeeded(d) = MapsNeeded(c)
  BY <1>3 DEF MapsNeeded
<1> QED
  BY <1>2, <1>3, <1>4 DEF Complete

\* The config of an accepted file, and what of it the routing and the dials need.
LEMMA LoadedRoutes ==
  ASSUME NEW e \in EnvironmentFile, ~PolicyRefused(e)
  PROVE  /\ Loaded(e).bouncing = AfterFallback(e).bouncing
         /\ Loaded(e).fallback = AfterFallback(e).fallback
         /\ Loaded(e).override = AfterFallback(e).override
         /\ Loaded(e).listening = (AfterFallback(e).listening
                                    /\ "captcha" \in MapsNeeded(AfterFallback(e)))
         /\ Loaded(e).remediations = MapsNeeded(AfterFallback(e))
         /\ Loaded(e).dials = AfterFallback(e).dials
<1> DEFINE p == Policy(e, NoConfig)
           c == AfterFallback(e)
<1>1. DOMAIN NoConfig = {"bouncing", "fallback", "override", "listening", "dials", "remediations"}
  BY DEF NoConfig
<1>2. DOMAIN p = DOMAIN NoConfig
  BY DEF Policy
<1>3. DOMAIN Captcha(e, p) = DOMAIN NoConfig
  BY <1>2 DEF Captcha
<1>4. DOMAIN c = DOMAIN NoConfig
  BY <1>3 DEF AfterFallback, AfterCaptcha, AfterPolicy, Demoted
<1>5. c = Demoted(Captcha(e, Policy(e, NoConfig)))
  BY DEF AfterFallback, AfterCaptcha, AfterPolicy
<1>6. Loaded(e) = SwitchedOff(WithMaps(c))
  BY <1>5 DEF Loaded
<1> HIDE DEF c
<1>7. /\ Loaded(e).bouncing = c.bouncing /\ Loaded(e).fallback = c.fallback
      /\ Loaded(e).override = c.override /\ Loaded(e).dials = c.dials
      /\ Loaded(e).listening = (c.listening /\ "captcha" \in MapsNeeded(c))
      /\ Loaded(e).remediations = MapsNeeded(c)
  BY <1>1, <1>4, <1>6 DEF SwitchedOff, WithMaps
<1> QED
  BY <1>7 DEF c

\* The types of a config, at whatever stage it is.
Typed(c) ==
  /\ c.bouncing \in KnownRemediations \cup {"all", "none"}
  /\ c.fallback \in KnownRemediations \cup {"none"}
  /\ c.override \in KnownRemediations \cup {"none"}
  /\ c.listening \in BOOLEAN
  /\ c.remediations \subseteq KnownRemediations

\* The maps that a complete config routes to are known ones, and it routes to some:
\* what it bounces on is not dropped.
LEMMA RoutesSomewhere ==
  ASSUME NEW c, Complete(c)
  PROVE  MapsNeeded(c) \subseteq KnownRemediations /\ MapsNeeded(c) # {}
<1>1. ASSUME NEW t \in DecisionType
      PROVE  Resolve(c, t) \in KnownRemediations \cup {"none"}
  BY DEF Resolve, Expressible, Complete, KnownRemediations, DecisionType
<1>2. PICK t \in DecisionType : c.bouncing \in {"all", t}
  BY DEF Complete, KnownRemediations, DecisionType
<1>3. Resolve(c, t) # "none"
  BY <1>2 DEF Resolve, Expressible, Complete, KnownRemediations, DecisionType
<1> QED
  BY <1>1, <1>3 DEF MapsNeeded

\* The config has its types at every stage of loading an accepted policy.
LEMMA TypedStages ==
  ASSUME NEW e \in EnvironmentFile, ~PolicyRefused(e)
  PROVE  /\ Typed(AfterPolicy(e)) /\ Typed(AfterCaptcha(e)) /\ Typed(AfterFallback(e))
         /\ Typed(AfterMaps(e)) /\ Typed(Loaded(e)) /\ Loaded(e).remediations # {}
<1>1. Complete(AfterPolicy(e)) /\ Complete(AfterCaptcha(e)) /\ Complete(AfterFallback(e))
  BY PolicyComplete, FallbackServed
<1>2. /\ AfterPolicy(e).remediations = {} /\ AfterCaptcha(e).remediations = {}
      /\ DOMAIN AfterCaptcha(e) = DOMAIN NoConfig
  BY DEF AfterPolicy, AfterCaptcha, Policy, Captcha, NoConfig
<1>3. AfterFallback(e).remediations = {} /\ DOMAIN AfterFallback(e) = DOMAIN NoConfig
  BY <1>2 DEF AfterFallback, Demoted, NoConfig
<1>4. Typed(AfterPolicy(e)) /\ Typed(AfterCaptcha(e)) /\ Typed(AfterFallback(e))
  BY <1>1, <1>2, <1>3 DEF Typed, Complete
<1>5. /\ MapsNeeded(AfterFallback(e)) \subseteq KnownRemediations
      /\ MapsNeeded(AfterFallback(e)) # {}
  BY <1>1, RoutesSomewhere
<1> DEFINE c == AfterFallback(e)
<1>6. AfterMaps(e) = [c EXCEPT !.remediations = MapsNeeded(c)]
  BY DEF AfterMaps, WithMaps
<1>7. DOMAIN c = {"bouncing", "fallback", "override", "listening", "dials", "remediations"}
  BY <1>3 DEF NoConfig
<1> HIDE DEF c
<1>8. /\ AfterMaps(e).bouncing = c.bouncing /\ AfterMaps(e).fallback = c.fallback
      /\ AfterMaps(e).override = c.override /\ AfterMaps(e).listening = c.listening
      /\ AfterMaps(e).remediations = MapsNeeded(c)
  BY <1>6, <1>7
<1>9. Typed(AfterMaps(e))
  BY <1>4, <1>5, <1>8 DEF Typed, c
<1>10. Typed(Loaded(e)) /\ Loaded(e).remediations # {}
  BY <1>4, <1>5, LoadedRoutes DEF Typed
<1> QED
  BY <1>4, <1>9, <1>10

\* The config has its types at every stage, and a running daemon has a map to
\* render, for every environment file.
THEOREM SettingsTypes == Spec => []TypeOK
<1>1. IInv => TypeOK
  <2> SUFFICES ASSUME IInv PROVE Typed(conf) /\ (stage = "running" => conf.remediations # {})
    BY DEF IInv, TypeOK, Typed
  <2>1. Typed(NoConfig)
    BY DEF Typed, NoConfig
  <2>2. CASE PolicyRefused(env)
    BY <2>1, <2>2 DEF IInv
  <2>3. CASE ~PolicyRefused(env)
    <3>1. conf \in {NoConfig, AfterPolicy(env), AfterCaptcha(env), AfterFallback(env),
                     AfterMaps(env), Loaded(env)}
      BY DEF IInv
    <3>2. env \in EnvironmentFile /\ (stage = "running" => conf = Loaded(env))
      BY DEF IInv
    <3> QED
      BY <2>1, <2>3, <3>1, <3>2, TypedStages
  <2> QED
    BY <2>2, <2>3
<1> QED
  BY <1>1, Staged, PTL

\* Whatever a running daemon bounces on is enforced, for every environment file.
THEOREM EveryDecisionEnforced == Spec => []NothingUnenforced
<1>1. IInv => NothingUnenforced
  <2> SUFFICES ASSUME IInv, stage = "running", NEW t \in DecisionType,
                      conf.bouncing \in {"all", t}
               PROVE  /\ Resolve(conf, t) \in conf.remediations
                      /\ Resolve(conf, t) = "captcha" => conf.listening
    BY DEF NothingUnenforced
  <2>1. env \in EnvironmentFile /\ ~PolicyRefused(env) /\ conf = Loaded(env)
    BY DEF IInv
  <2> DEFINE c == AfterFallback(env)
  <2>2. Complete(c) /\ (c.fallback = "captcha" => c.listening)
    BY <2>1, FallbackServed
  <2>3. /\ conf.bouncing = c.bouncing /\ conf.fallback = c.fallback
        /\ conf.override = c.override /\ conf.remediations = MapsNeeded(c)
        /\ conf.listening = (c.listening /\ "captcha" \in MapsNeeded(c))
    BY <2>1, LoadedRoutes
  <2> HIDE DEF c
  <2>4. /\ Resolve(conf, t) = Resolve(c, t)
        /\ conf.listening <=> "captcha" \in MapsNeeded(c)
    BY <2>2, <2>3, RoutesKept, Zenon
  <2>5. Resolve(c, t) # "none"
    BY <2>2, <2>3 DEF Resolve, Complete, KnownRemediations, DecisionType
  <2>6. Resolve(c, t) \in MapsNeeded(c)
    BY <2>5 DEF MapsNeeded
  <2> QED
    BY <2>3, <2>4, <2>6
<1> QED
  BY <1>1, Staged, PTL

\* Each map rendered is one a decision can land in, and the captcha map is rendered
\* exactly when a listener is to run, for every environment file.
THEOREM RoutingSettled == Spec => []MapsMatchRouting
<1>1. IInv => MapsMatchRouting
  <2> SUFFICES ASSUME IInv, stage = "running"
               PROVE  /\ conf.remediations = MapsNeeded(conf)
                      /\ conf.listening <=> "captcha" \in conf.remediations
    BY DEF MapsMatchRouting
  <2>1. env \in EnvironmentFile /\ ~PolicyRefused(env) /\ conf = Loaded(env)
    BY DEF IInv
  <2> DEFINE c == AfterFallback(env)
  <2>2. Complete(c) /\ (c.fallback = "captcha" => c.listening)
    BY <2>1, FallbackServed
  <2>3. /\ conf.bouncing = c.bouncing /\ conf.fallback = c.fallback
        /\ conf.override = c.override /\ conf.remediations = MapsNeeded(c)
        /\ conf.listening = (c.listening /\ "captcha" \in MapsNeeded(c))
    BY <2>1, LoadedRoutes
  <2> HIDE DEF c
  <2>4. /\ MapsNeeded(conf) = MapsNeeded(c)
        /\ conf.listening <=> "captcha" \in MapsNeeded(conf)
    BY <2>2, <2>3, RoutesKept, Zenon
  <2> QED
    BY <2>3, <2>4
<1> QED
  BY <1>1, Staged, PTL

\* A served challenge can be solved, for every setting of the dials and every bound
\* that the shipped defaults meet.
THEOREM DialsSolvable == Spec => []ServedIsSolvable
<1>1. IInv => ServedIsSolvable
  <2> SUFFICES ASSUME IInv, stage = "running", conf.listening PROVE Solvable(conf.dials)
    BY DEF ServedIsSolvable
  <2>1. env \in EnvironmentFile /\ ~PolicyRefused(env) /\ conf = Loaded(env)
    BY DEF IInv
  <2>2. /\ conf.listening = (AfterFallback(env).listening
                               /\ "captcha" \in MapsNeeded(AfterFallback(env)))
        /\ conf.dials = AfterFallback(env).dials
    BY <2>1, LoadedRoutes
  <2>3. /\ AfterFallback(env).listening = AfterCaptcha(env).listening
        /\ AfterFallback(env).dials = AfterCaptcha(env).dials
        /\ AfterCaptcha(env).listening = (env.listen /\ env.sri # "malformed")
    BY <2>1, FallbackServed, PolicyComplete
  <2>4. env.listen
    BY <2>2, <2>3
  <2>5. AfterCaptcha(env).dials = DialsInForce(DialsRead(env))
    BY <2>4 DEF AfterCaptcha, AfterPolicy, Captcha, Policy, NoConfig
  <2> QED
    BY <2>2, <2>3, <2>5, SettingsAssumption DEF DialsInForce
<1> QED
  BY <1>1, Staged, PTL

\* An environment file that has the files of another, but for its readiness file, no
\* listener that the other has not, and a policy that is not refused.
SameFiles(x, e) ==
  /\ x.key = e.key /\ x.output = e.output /\ x.dbm = e.dbm
  /\ x.mapType = e.mapType /\ x.converter = e.converter /\ x.lists = e.lists
  /\ x.pass = e.pass /\ x.removed = e.removed
  /\ x.listen => e.listen
  /\ ~PolicyRefused(x)

\* Such a file is accepted where the other is and its readiness file is the other's or
\* not written.
LEMMA SameFilesAccepted ==
  ASSUME NEW e, NEW c, NEW x, SameFiles(x, e),
         ~FilesRefused(e), ~CaptchaRefused(e), ~Collides(e, c),
         Loaded(x).listening => c.listening /\ x.ready = e.ready
  PROVE  ~Refused(x)
<1>1. ~FilesRefused(x) /\ ~PolicyRefused(x) /\ ~CaptchaRefused(x)
  BY DEF FilesRefused, CaptchaRefused, DBMOf, SameFiles
<1>2. /\ Owned(x, Loaded(x)) \subseteq Owned(e, c)
      /\ Guarded(x, Loaded(x)) = Guarded(e, c)
  BY DEF Owned, Guarded, ListFiles, FilesOf, DBMOf, SameFiles
<1>3. ~Collides(x, Loaded(x))
  BY <1>2 DEF Collides, SameFiles
<1> QED
  BY <1>1, <1>3 DEF Refused

\* The file with its readiness file aimed at the ban map.
Aimed(x) == [x EXCEPT !.ready = x.output]

\* Only the policy differs, and with another readiness file only that too.
SameButForPolicy(x, e) ==
  /\ SameFiles(x, e) /\ x.ready = e.ready
  /\ SameFiles(Aimed(x), e)
  /\ Loaded(Aimed(x)).listening = Loaded(x).listening

\* What another policy leaves as it was, and what another readiness file does.
LEMMA OtherPolicyFields ==
  ASSUME NEW e \in EnvironmentFile, NEW b \in KnownRemediations \cup {"all"},
         NEW f \in KnownRemediations, NEW o \in KnownRemediations \cup {"unset"},
         NEW l \in {e.listen, FALSE}, NEW s
  PROVE  SameButForPolicy(Under(e, b, f, o, l, s), e)
<1> DEFINE x == Under(e, b, f, o, l, s)
           y == Aimed(x)
           field == {"key", "output", "dbm", "mapType", "converter", "lists", "bouncing",
                    "onlyBan", "fallback", "override", "listen", "removed", "sri",
                    "dials", "pass", "ready"}
<1>1. x = [e EXCEPT !.bouncing = b, !.fallback = f, !.override = o, !.listen = l, !.sri = s]
  BY DEF Under
<1>2. DOMAIN e = field
  BY DEF EnvironmentFile
<1>3. x = [n \in field |-> IF n = "bouncing" THEN b ELSE IF n = "fallback" THEN f
                           ELSE IF n = "override" THEN o ELSE IF n = "listen" THEN l
                           ELSE IF n = "sri" THEN s ELSE e[n]]
  BY <1>1, <1>2
<1> HIDE DEF x
<1>4. y = [n \in field |-> IF n = "ready" THEN x.output ELSE x[n]]
  BY <1>3 DEF Aimed
<1> HIDE DEF y
<1>5. /\ x.key = e.key /\ x.output = e.output /\ x.dbm = e.dbm
      /\ x.mapType = e.mapType /\ x.converter = e.converter /\ x.lists = e.lists
      /\ x.pass = e.pass /\ x.removed = e.removed /\ x.ready = e.ready
      /\ x.bouncing = b /\ x.fallback = f /\ x.override = o /\ x.listen = l
  BY <1>3
<1>6. /\ y.key = x.key /\ y.output = x.output /\ y.dbm = x.dbm
      /\ y.mapType = x.mapType /\ y.converter = x.converter /\ y.lists = x.lists
      /\ y.pass = x.pass /\ y.removed = x.removed
      /\ y.bouncing = x.bouncing /\ y.onlyBan = x.onlyBan /\ y.fallback = x.fallback
      /\ y.override = x.override
      /\ y.listen = x.listen /\ y.sri = x.sri /\ y.dials = x.dials
  BY <1>4
<1>7. ~PolicyRefused(x) /\ ~PolicyRefused(y)
  BY <1>5, <1>6 DEF PolicyRefused, KnownRemediations
<1>8. Loaded(y) = Loaded(x)
  <2>1. Policy(y, NoConfig) = Policy(x, NoConfig)
    BY <1>6 DEF Policy, Bouncing
  <2>2. Captcha(y, Policy(x, NoConfig)) = Captcha(x, Policy(x, NoConfig))
    BY <1>6 DEF Captcha, DialsRead
  <2> QED
    BY <2>1, <2>2 DEF Loaded
<1> QED
  BY <1>5, <1>6, <1>7, <1>8 DEF SameFiles, SameButForPolicy, x, y

\* The files that a daemon starts with, it starts with under every other policy; and
\* where there is no listener the readiness file stops nothing: for every environment
\* file and every layout of the paths.
THEOREM FilesOutlastPolicies == Spec => []FilesOutlastPolicy
<1>1. IInv => FilesOutlastPolicy
  <2> SUFFICES ASSUME IInv, stage = "running",
                      NEW b \in KnownRemediations \cup {"all"}, NEW f \in KnownRemediations,
                      NEW o \in KnownRemediations \cup {"unset"},
                      NEW l \in {env.listen, FALSE}, NEW s \in {env.sri, "malformed"}
               PROVE  LET e == Under(env, b, f, o, l, s)
                      IN  /\ (Loaded(e).listening => conf.listening) => ~Refused(e)
                          /\ ~Loaded(e).listening => ~Refused([e EXCEPT !.ready = e.output])
    BY DEF FilesOutlastPolicy
  <2>1. /\ env \in EnvironmentFile
        /\ ~FilesRefused(env) /\ ~CaptchaRefused(env) /\ ~Collides(env, conf)
    BY DEF IInv
  <2> DEFINE x == Under(env, b, f, o, l, s)
  <2>2. SameButForPolicy(x, env)
    BY <2>1, OtherPolicyFields
  <2> HIDE DEF x
  <2>3. ASSUME Loaded(x).listening => conf.listening
        PROVE  ~Refused(x)
    BY <2>1, <2>2, <2>3, SameFilesAccepted DEF SameButForPolicy
  <2>4. ASSUME ~Loaded(x).listening
        PROVE  ~Refused(Aimed(x))
    BY <2>1, <2>2, <2>4, SameFilesAccepted DEF SameButForPolicy
  <2> QED
    BY <2>3, <2>4 DEF x, Aimed
<1> QED
  BY <1>1, Staged, PTL

\* The same environment file with other dials or a digest that is malformed.
Slip(e, dials, sri) == [e EXCEPT !.dials = dials, !.sri = sri]

SameButFor(slip, e) ==
  /\ slip.key = e.key /\ slip.output = e.output /\ slip.dbm = e.dbm
  /\ slip.mapType = e.mapType /\ slip.converter = e.converter /\ slip.lists = e.lists
  /\ slip.bouncing = e.bouncing /\ slip.onlyBan = e.onlyBan
  /\ slip.fallback = e.fallback /\ slip.override = e.override
  /\ slip.listen = e.listen /\ slip.removed = e.removed
  /\ slip.pass = e.pass /\ slip.ready = e.ready
  /\ slip.sri \in {e.sri, "malformed"}

\* What a slip in the captcha settings leaves as it was.
LEMMA SlipFields ==
  ASSUME NEW e \in EnvironmentFile, NEW dials \in Dials, NEW sri,
         sri \in {e.sri, "malformed"}
  PROVE  Slip(e, dials, sri) \in EnvironmentFile /\ SameButFor(Slip(e, dials, sri), e)
<1> DEFINE slip == Slip(e, dials, sri)
<1> DEFINE field == {"key", "output", "dbm", "mapType", "converter", "lists", "bouncing",
                    "onlyBan", "fallback", "override", "listen", "removed", "sri",
                    "dials", "pass", "ready"}
<1>1. DOMAIN e = field /\ dials \in Dial /\ sri \in {"unset", "valid", "malformed"}
  BY SettingsAssumption DEF EnvironmentFile
<1>2. slip = [f \in field |-> IF f = "sri" THEN sri ELSE IF f = "dials" THEN dials ELSE e[f]]
  BY <1>1 DEF Slip
<1> HIDE DEF slip
<1>3. /\ slip.key = e.key /\ slip.output = e.output /\ slip.dbm = e.dbm
      /\ slip.mapType = e.mapType /\ slip.converter = e.converter /\ slip.lists = e.lists
      /\ slip.bouncing = e.bouncing /\ slip.onlyBan = e.onlyBan
      /\ slip.fallback = e.fallback /\ slip.override = e.override
      /\ slip.listen = e.listen /\ slip.removed = e.removed
      /\ slip.pass = e.pass /\ slip.ready = e.ready
      /\ slip.sri = sri /\ slip.dials = dials
  BY <1>2
<1>4. slip \in EnvironmentFile
  BY <1>1, <1>2 DEF EnvironmentFile
<1> QED
  BY <1>1, <1>3, <1>4 DEF SameButFor, slip

\* What a slip does to the config before the maps are derived.
LEMMA SlipFallback ==
  ASSUME NEW e \in EnvironmentFile, ~PolicyRefused(e),
         NEW slip \in EnvironmentFile, SameButFor(slip, e)
  PROVE  /\ ~PolicyRefused(slip)
         /\ AfterFallback(slip).bouncing = AfterFallback(e).bouncing
         /\ AfterFallback(slip).override = AfterFallback(e).override
         /\ AfterFallback(slip).listening => AfterFallback(e).listening
         /\ slip.sri = e.sri \/ ~AfterFallback(slip).listening
         /\ slip.sri = e.sri => AfterFallback(slip).listening = AfterFallback(e).listening
         /\ AfterFallback(slip).fallback # AfterFallback(e).fallback
              => /\ slip.sri # e.sri /\ AfterFallback(slip).fallback = "ban"
                 /\ AfterFallback(e).fallback = "captcha"
<1>1. ~PolicyRefused(slip)
  BY DEF PolicyRefused, SameButFor
<1> DEFINE Q(x) == [Policy(x, NoConfig) EXCEPT
         !.dials = IF x.listen THEN DialsInForce(DialsRead(x)) ELSE DialsRead(x),
         !.listening = x.listen /\ x.sri # "malformed"]
<1>2. AfterCaptcha(e) = Q(e) /\ AfterCaptcha(slip) = Q(slip)
  BY DEF AfterCaptcha, AfterPolicy, Captcha
<1>3. /\ DOMAIN Policy(e, NoConfig) = DOMAIN NoConfig
      /\ DOMAIN Policy(slip, NoConfig) = DOMAIN NoConfig
      /\ DOMAIN NoConfig = {"bouncing", "fallback", "override", "listening", "dials", "remediations"}
      /\ Policy(e, NoConfig).bouncing = Bouncing(e)
      /\ Policy(slip, NoConfig).bouncing = Bouncing(e)
      /\ Policy(e, NoConfig).override = Policy(slip, NoConfig).override
      /\ Policy(e, NoConfig).fallback = Policy(slip, NoConfig).fallback
  BY DEF Policy, NoConfig, Bouncing, SameButFor
<1> HIDE DEF Q
<1>4. /\ DOMAIN Q(e) = DOMAIN NoConfig /\ DOMAIN Q(slip) = DOMAIN NoConfig
      /\ Q(slip).bouncing = Q(e).bouncing /\ Q(slip).override = Q(e).override
      /\ Q(slip).fallback = Q(e).fallback
      /\ Q(e).listening = (e.listen /\ e.sri # "malformed")
      /\ Q(slip).listening = (slip.listen /\ slip.sri # "malformed")
  BY <1>3 DEF Q
<1>5. AfterFallback(e) = Demoted(Q(e)) /\ AfterFallback(slip) = Demoted(Q(slip))
  BY <1>2 DEF AfterFallback
<1>6. DOMAIN Q(e) = {"bouncing", "fallback", "override", "listening", "dials", "remediations"}
  BY <1>3, <1>4
<1> DEFINE E == Demoted(Q(e))
           S == Demoted(Q(slip))
<1>7. /\ E.bouncing = Q(e).bouncing /\ E.override = Q(e).override
      /\ E.listening = Q(e).listening
      /\ E.fallback = IF Q(e).fallback = "captcha" /\ ~Q(e).listening
                       THEN "ban" ELSE Q(e).fallback
  BY <1>6 DEF Demoted
<1>8. /\ S.bouncing = Q(slip).bouncing /\ S.override = Q(slip).override
      /\ S.listening = Q(slip).listening
      /\ S.fallback = IF Q(slip).fallback = "captcha" /\ ~Q(slip).listening
                       THEN "ban" ELSE Q(slip).fallback
  BY <1>4, <1>6 DEF Demoted
<1> HIDE DEF E, S
<1>9. /\ S.bouncing = E.bouncing /\ S.override = E.override
      /\ S.listening => E.listening
      /\ slip.sri = e.sri \/ ~S.listening
      /\ slip.sri = e.sri => S.listening = E.listening
      /\ S.fallback # E.fallback
            => slip.sri # e.sri /\ S.fallback = "ban" /\ E.fallback = "captcha"
  BY <1>4, <1>7, <1>8 DEF SameButFor
<1> QED
  BY <1>1, <1>5, <1>9 DEF E, S

\* No slip in the dials or the digest stops the daemon or moves a ban, for every
\* environment file it runs with.
THEOREM SlipsKeepBans == Spec => []CaptchaSlipKeepsBans
<1>1. IInv => CaptchaSlipKeepsBans
  <2> SUFFICES ASSUME IInv, stage = "running",
                      NEW dials \in Dials, NEW sri \in {env.sri, "malformed"},
                      NEW slip, slip = Slip(env, dials, sri)
               PROVE  /\ ~Refused(slip)
                      /\ \A t \in DecisionType :
                           Resolve(conf, t) # "captcha" => Resolve(Loaded(slip), t) = Resolve(conf, t)
    BY Zenon DEF CaptchaSlipKeepsBans, Slip
  <2>1. /\ env \in EnvironmentFile /\ conf = Loaded(env) /\ ~PolicyRefused(env)
        /\ ~FilesRefused(env) /\ ~CaptchaRefused(env) /\ ~Collides(env, conf)
    BY DEF IInv
  <2>2. slip \in EnvironmentFile /\ SameButFor(slip, env)
    BY <2>1, SlipFields, Zenon
  <2> DEFINE c == AfterFallback(env)
             d == AfterFallback(slip)
  <2>3. /\ ~PolicyRefused(slip)
        /\ d.bouncing = c.bouncing /\ d.override = c.override
        /\ d.listening => c.listening
        /\ slip.sri = env.sri \/ ~d.listening
        /\ slip.sri = env.sri => d.listening = c.listening
        /\ d.fallback # c.fallback
              => slip.sri # env.sri /\ d.fallback = "ban" /\ c.fallback = "captcha"
    BY <2>1, <2>2, SlipFallback, Zenon
  <2>4. /\ Complete(c) /\ (c.fallback = "captcha" => c.listening)
        /\ Complete(d) /\ (d.fallback = "captcha" => d.listening)
    BY <2>1, <2>2, <2>3, FallbackServed
  <2>5. /\ conf.bouncing = c.bouncing /\ conf.fallback = c.fallback
        /\ conf.override = c.override
        /\ conf.listening = (c.listening /\ "captcha" \in MapsNeeded(c))
    BY <2>1, LoadedRoutes
  <2>6. /\ Loaded(slip).bouncing = d.bouncing /\ Loaded(slip).fallback = d.fallback
        /\ Loaded(slip).override = d.override
        /\ Loaded(slip).listening = (d.listening /\ "captcha" \in MapsNeeded(d))
    BY <2>2, <2>3, LoadedRoutes
  <2> HIDE DEF c, d
  <2>7. /\ \A t \in DecisionType : Resolve(conf, t) = Resolve(c, t)
        /\ \A t \in DecisionType : Resolve(Loaded(slip), t) = Resolve(d, t)
    BY <2>4, <2>5, <2>6, RoutesKept, Zenon
  <2>8. ASSUME NEW t \in DecisionType, Resolve(c, t) # "captcha"
        PROVE  Resolve(d, t) = Resolve(c, t)
    BY <2>3, <2>4, <2>8 DEF Resolve, Expressible, Complete, KnownRemediations
  <2>9. Loaded(slip).listening => conf.listening
    <3>1. CASE slip.sri # env.sri
      BY <3>1, <2>3, <2>6
    <3>2. CASE slip.sri = env.sri
      <4>1. d.fallback = c.fallback /\ d.listening = c.listening
        BY <3>2, <2>3
      <4>2. MapsNeeded(d) = MapsNeeded(c)
        BY <4>1, <2>3 DEF MapsNeeded, Resolve, Expressible
      <4> QED
        BY <4>1, <4>2, <2>5, <2>6
    <3> QED
      BY <3>1, <3>2
  <2>10. ~FilesRefused(slip) /\ ~CaptchaRefused(slip)
    BY <2>1, <2>2 DEF FilesRefused, CaptchaRefused, DBMOf, SameButFor
  <2>11. /\ Owned(slip, Loaded(slip)) \subseteq Owned(env, conf)
         /\ Guarded(slip, Loaded(slip)) = Guarded(env, conf)
    BY <2>2, <2>9 DEF Owned, Guarded, ListFiles, FilesOf, DBMOf, SameButFor
  <2>12. ~Collides(slip, Loaded(slip))
    BY <2>1, <2>2, <2>9, <2>11 DEF Collides, SameButFor
  <2> QED
    BY <2>3, <2>7, <2>8, <2>10, <2>12 DEF Refused
<1> QED
  BY <1>1, Staged, PTL
==============================================================================
