# A TLA+ model of crowdsec-apache2-bouncer

The daemon polls a CrowdSec Local API (LAPI) for decisions, keeps the banned
addresses in memory, and renders them into RewriteMap files that Apache
consults: a txt, or a txt and the DBM built from it.  It can also serve a
proof-of-work challenge, and then keeps a map of the addresses that passed.
These modules model the parts of it that keep state.  Every definition is
translated from the Go source; `map` in `PROJECT.json` gives the lines.

## 1. The system

| component | source | state | operations |
|---|---|---|---|
| decision list | `bouncer.go`, `remediation.go`, `decision.go` | per map: `decisionIPs`, `refcount`, `sortedIPs`, `touched`; `pendingShrink`, `skippedRanges` | `applyDelta`, `applyFull` (with `acceptSnapshot`, `restore`), `add`, `remove`, `forget`, `settle`, `diff` |
| poll loop and map files | `run.go`, `output.go`, `stream.go` | the files, the time of the last accepted snapshot, what the LAPI believes this bouncer has | `run`, `fetch`, `write`, `writeMap`, `ensureMap`, `retireUnusedMaps`, `missingDBM` |
| challenge store | `altcha.go` | `live`, `minting`, `lastSweep`, the mint tokens | `challengeFor`, `redeem`, `restore`, `prune`, `publish` |
| pass store | `pass.go`, part of `challenge.go` | the passes in memory, the pass map on disk | `add`, `prune`, `reset`, `startChallenge`, `stopChallenge` |
| challenge listener | `challenge.go` | listener, readiness file | `serve`, `markReady`, `clearReady`, `altchaChallenge`, `solve` |
| proof of work | `altcha.go` | none | `newAltchaChallenge`, `check` |
| remediation policy | `config.go` | fixed at the start | `loadRemediationPolicy`, `resolveRemediation`, `mapsNeeded`, `mapPaths` |
| operator lists | `customlist.go`, `buildDBMFrom` of `output.go` | the state of each list at the last attempt, its DBM | `syncCustomLists`: `ensureTxt`, `needsBuild`, `record` |
| configuration | `config.go` | the config being assembled; fixed at the start | `loadConfig`, `loadCaptcha` |
| metrics | `metrics.go` | counters | a scrape |
| Apache rules | `apache/blocklist.conf` | none (reads the maps and the readiness file) | one decision per request |
| process and service | `main.go`, `packaging/*.service` | the process | start, cancel, crash, `Restart=always` |
| packaging scripts, tests | `packaging/*`, `*_test.go` | - | - |

**How they interact.** One goroutine runs the poll loop.  On each tick it
fetches the stream, applies it to the decision list under the lock `b.state`,
writes the maps if the apply reports a change (always, after a snapshot), then
prunes the challenge store and the pass store and rebuilds the operator lists.
Each HTTP request of the challenge has a goroutine of its own; requests share
with one another and with the loop the challenge store (one mutex, released
during a derivation) and the pass store (one mutex, held over its file write).
A metrics scrape takes `b.state` to read.  Apache shares nothing with the daemon
but the files.

**What is hard, and what makes each component correct.**

* *Decision list.* Decisions overlap, come back under their id with another type
  or value, are removed by id alone; a delta splices the changes it collected or
  gives them up for a rebuild; a snapshot is applied first and may be undone
  after. Correct: counts equal covering decisions, one map per decision, the slice is
  the keyset of the counts, a delta's report is exact, one short response
  never unbans the list and a genuine flush is never refused twice.
* *Poll loop.* Lost and empty answers (the LAPI keeps a cursor), partial write
  failures, DBM conversions that fail or tear a pair, files deleted, crashes and
  policy changes across restarts. Correct: files follow the list, no map
  Apache needs is missing, a start without an answer from the LAPI changes no map that has
  its txt, a former policy stops being enforced, everything converges when faults stop.
* *Challenge store.* Critical sections with an expensive step between, copies and
  times that are stale when used, a capacity, waiting while holding a token.
  Correct: one derivation per address, one pass per proof, slots age out, the
  overshoot of the cap is bounded, every request ends.
* *Pass store and listener.* Memory has expiries and the file has none; a write
  may fail after memory changed; crashes lose the expiries; the readiness file
  and the port come and go separately. Correct: what the file exempts can be
  ended, who was told that it solved gets through the rules, and nobody is
  redirected to a challenge that is not there.
* *Configuration.* Each part of it depends on what others settled, and some are
  settled late. Correct: every decision bounced on is enforced by something, the maps
  are the ones the routing uses, a served challenge can be solved, the files
  that a start accepts do not become unacceptable with the policy, and a slip in the captcha settings does
  not reach the bans.
* *Operator lists.* The operator edits while a list is looked at, converted or moved;
  conversions fail and leave their files. Correct: what is taken for built is
  what Apache reads, and edits go live.

## 2. Modules

| module | models | stands on |
|---|---|---|
| `SnapshotGuard` | `acceptSnapshot` as operators | - |
| `BlockList` | abstract: what the list promises (the union of the decisions held, all or nothing per batch, a snapshot abandoned exactly when it is the first too short to be believed) | `SnapshotGuard` |
| `MapFiles` | abstract: what Apache can find in the map files, whatever fails | - |
| `Tickets` | abstract: what the store promises of a challenge, without requests, lock or claims | - |
| `DecisionList` | the list, one decision at a time | `SnapshotGuard`, instance of `BlockList` |
| `PollLoop` | the loop, the files, the LAPI's side of the stream | `SnapshotGuard`, instance of `MapFiles` |
| `AltchaStore` | the challenge store and the two handlers, one action per critical section | instance of `Tickets` |
| `PassStore` | passes, the pass map, the listener and its readiness file, start, stop and crash | - |
| `ApacheRules` | the rules of the captcha block, over those files | `PassStore` |
| `Settings` | the policy and `loadConfig` | - |
| `CustomLists` | the operator's lists | - |
| `*Proofs` | the theorems of the module they extend | TLAPS |
| `MC*` | the small instances, with their symmetry sets | - |

**DecisionList.** The variables have the names of the fields, one value per map.
A sorted slice is its set, an absent map entry is `{}` or `0`, and the scope and
value of a decision are one element of `Value` with the addresses it `Covers`.
`BeginDelta`, `Remove`, `AddToDelta`, `EndDelta` are `applyDelta`;
`BeginFull`, `AddToFull`, `KeepFull`, `RefuseFull` are `applyFull`. The lock is
free in phase `"idle"` and an apply is an atomic region for everyone else; the
phases exist so that the invariants are checked at each decision.  The
decisions of a batch are chosen as the loop reaches them, which allows any
response in any order, ids repeated included.  A decision with no id is ignored
by the code and has no step.  `ListSpec` is the refinement: what is held is read off
`decisionIPs`, the list enforced off the sorted slices, and the doubt is a positive
`pendingShrink`, so the list may be abandoned only when the guard of the code says so.

**PollLoop.** `Boot`, `EnsureMap`, `RetireMap`, `Sync`/`SyncFails` are `run` up
to its first tick; `PollDelta`, `PollResync`, `PollFails` a tick; `WriteNext` and
`WriteFails` are `write`, one map at a time.  The list is at `BlockList`'s level:
`held` is a set of map entries, which `DecisionList` justifies.  `lapi` and
`pulled` are the LAPI's side, external to the source and modelled from how
`stream.go` uses it: a successful call moves the cursor even when its answer is
lost.  A write of one map is a step; its outcomes are whole, nothing replaced,
txt new and DBM old, and for the two-file backend txt new and the pair torn.
`suspect` and `deleted` are history variables: maps with a failed file operation
or a deletion, and those with a deletion, since they were last written whole.
The state properties speak of the others, `Converges` of all.  The policy and the map
type of a process are chosen by `Boot`, so both may be others after a restart.
`MapsSpec` is the refinement: `Mode` reduces `pc` to what matters to the files, and
`MapFiles` knows no stream, no faults and no order of maps.  What a step may do to a map is
then this: leave it, create it empty because both of its files were missing (`Create`), empty it
because its txt was missing beside a DBM (`Overwrite`) or because it is no longer rendered
(`Retire`), write the list in full (`Render`), or lose a file from outside (`Delete`); each of
the writes may give the txt alone, or leave the two files of a DBM torn.  `Overwrite` is what
`poll_lost_txt` (section 4) is about.

**AltchaStore.** Each action is a critical section of `s.mu` or a step
outside it, and `pc[r]` is where a request's goroutine is. `now[r]`, `kept[r]`
are its local variables: the time, read *before* the lock, and the copy of an
entry taken under an earlier one.  The prune of the poll loop reads the clock
inside its critical section, since it waits for nothing between the two.  A
challenge's secret is represented by the request that minted it.  Requests are
served once; a client that retries is another request with the same address.
`answer` may be any key its address was issued, spent and replaced ones included,
or a wrong one.  `pc = "unclaim"` is the deferred function of `challengeFor`,
which runs after the return value is computed and takes the lock again.
`TicketSpec` is the refinement: a ticket of `Tickets` is a key, and `Place`, `Owner`,
`MintedAt` and `Expiry` say where it is (unminted, in a slot, in the hands of a
request that spent it, gone), for whom, since when and until when.

**PassStore.** `Redeem` is a client whose challenge has been spent; `Add` is
`passes.add`, atomic because it holds the mutex over the write. Time is
`none`/`current`/`lapsed`: a pass may lapse at any moment, which covers every
value of the clock since `prune` alone compares times. `StartWrites` and
`StartFails` are `startChallenge` with and without a successful reset, each with the
gate that decides whether there is a listener; `Cancel`,
`StopChallenge`, `Exit` an orderly stop, in the orders the source allows. After
an orderly stop nothing restarts by itself.  `server` is where the goroutine of
`serve` is, from `Bind` to `ClearReady`.  `CAPTCHA_READY_FILE=` (no such
file) behaves as `MarkFails`, and `StartWrites` chooses whether the template can be used.

**ApacheRules.** `Verdict` is the block rule, the challenge rule, the refuse rule
and the proxy in the order of the file; an address may be on either block list at any
moment, so the module needs nothing of `PollLoop`.  Both are about one
request at one moment: Apache caches a map by its modification time, which is left out.

**Settings.** One action per part of `loadConfig`, in its order, over an
environment file whose settings are abstracted to what the code tells apart.  A
path is a sequence of a directory's spelling and the parts of the name, so that
`samePath`, `defaultDBMPath` and the names of the four backends can be compared.
`Loaded` is the same as one operator, which the property on slips compares with
the configuration of a running daemon, and the proofs with every stage.

**CustomLists.** `todo` is the loop over the lists and `pc` the step it is at;
between any two the operator may `Edit`, `DeleteList` or `DeleteMap`.  A file is its
stamp: the modification time and size that `needsBuild` compares.  Each write of a list is
taken to give it a later stamp than any before; two edits of one size within
the resolution of the file system's clock are the same edit to the code, and to the model.

## 3. Runs

Passing runs:

| run | checks | instance |
|---|---|---|
| `decision_list` | `TypeOK`, `RefcountExact`, `RenderedInStep`, `DeltaReportIsNet`, `MassUnbanIsConfirmed`, refinement `ListSpec` | 3 ids, 2 addresses, 2 maps, 3 types (one unenforced), 4 values (two single, one covering both, one oversized) |
| `poll` | `TypeOK`, `FilesInStep`, `EnsuredMapsExist`, `RetiredListsEmpty`, `NoneMissingOncePolling`, `Converges`, refinement `MapsSpec` | txt and two-file DBM, 1 address, 2 maps, 3 faults, deletions, resync |
| `store_safety` | `TypeOK`, `OneDerivationPerAddress`, `NobodyWaitsInVain`, `SingleUse`, `CapOvershootBounded`, `EndsRightly`, `InStepWhileRecorded`, refinement `TicketSpec` | 4 requests, 3 addresses, 2 tokens, cap 1, clock to 3, failing pass writes |
| `store_ends` | `EveryRequestEnds` | 4 requests, 1 address, 2 tokens, clock to 1 |
| `apache_gate` | `TypeOK`, `ExemptionsHaveExpiry`, `ExemptionEnds`, `MapComesBack`, `RedirectsLeadToChallenge`, `DeadRedirectsEnd`, `SolvedGetsThrough` | 2 addresses, 2 solvers, any write, bind, template or readiness file may fail, and the listener |
| `settings` | `TypeOK`, `NothingUnenforced`, `MapsMatchRouting`, `ServedIsSolvable`, `FilesOutlastPolicy`, `CaptchaSlipKeepsBans` | every policy with every captcha switch; 27 settings of the dials at the code's own bounds; files in one directory under two spellings |
| `custom_lists` | `TypeOK`, `SettledIsLive`, `NewMapIsRecent`, `EditGoesLive`, `DeletedMapComesBack` | 2 lists, both map types, 1 edit or creation of each beyond the first state, 3 faults |

**Why the bounds are enough.** Three decisions are the fewest with one that
overlaps two others, and the fewest for which a count can be wrong after one of
several holders leaves. The thresholds are scaled to the instance
(`MinSnapshotIPs` 2 or 1 for 50, `SnapshotShrinkDenom` as it is, `ResortThreshold` 1
for 512), so that the guard and the rebuild are both on and off within two
maps of two addresses. `MaxSkipped` bounds a counter that only metrics read.
Two maps are all the source knows, and the order of `MapOrder` is that of
`knownRemediations`. Three faults are enough for any failure, a second during its repair,
and a crash, and so a change of policy, between the two.  One address suffices for the
files, which are written whole; what sets of addresses do is `DecisionList`'s. In the store,
a cap of 1 and two tokens make the cap race happen, and a third address leaves a
place to overshoot once both have inserted; four requests suffice for mint, extension, solve and a
competing fetch or solve; `TTL` 2, `MaxLifetime` 3 and `SweepEvery` 1 on a clock
to 3 allow an extension that the lifetime cuts short and expiry of the first entry.
`MaxClock` is 1 in `store_ends`, where time only decides whether a challenge is
current: both cases occur, and the clock is not needed for an answer.
The pass store needs two solvers for a solve in flight beside another, and two
addresses for a write on behalf of one that publishes the other. `Settings` is without
loops: its bound is the choice of environment files, which
holds every value that the code tells apart of each setting, combined within each group of
settings that interact (the policy and the captcha switches; the dials and the switches; the file
names and the policy), the other groups at a sound default. The operator lists are
handled one after the other, so two lists show what a tick does to the second; one edit after
the first state is enough to come between any two steps of a build, and three faults for a failed conversion, a
crash and a deletion.

**Symmetry.** Decision ids, requests, addresses of the store, and solvers and
addresses of the pass store are interchangeable: no definition names or orders
one. Symmetry sets are used by the safety runs only, never with liveness.

**Fairness.** `PollLoop`: `WF(Step)` (systemd restarts the daemon, the loop runs
on a ticker) and `WF(ResyncFallsDue)` (time passes); failures are steps that the fair
action may take, but `MaxFaults` of them, so what is assumed is that faults stop.
`AltchaStore`: `WF(Serve(r))` for each request, the Go scheduler and the token
channel; nothing makes clients arrive or give up, or the clock or the
poll tick move. `PassStore`: weak fairness of a prune that writes (ticks go on
and a failing disk recovers), of `stopChallenge` and exit, of the listener's
goroutine while the process runs (`Bind`, `MarkReady`, `Shutdown`, `ClearReady`), of systemd
removing the runtime directory, and of the start
after a crash (`Restart=always`), not after an orderly stop; a start waits for the removal, as
systemd does. `CustomLists`: `WF(Step)`, for the loop and systemd; failures are
bounded by `MaxFaults`, and no operator has to do anything. `Settings` has no liveness.

Deadlock is checked everywhere: in each
module some environment step is always possible.

## 4. Where the code and what is said of it differ

Each of these runs checks one sentence of the repository and finds a behaviour
of the code that contradicts it.

| run | property | what happens |
|---|---|---|
| `poll_unwritten` | `EveryChangeIsWritten` | the write of a delta fails, and with no resync configured nothing writes that change again (`run.go:181`); the README says every change is written |
| `poll_retired_dbm` | `RetiredMapsEmpty` | `retireUnusedMaps` (`output.go:235`) looks at the txt; when only its DBM fails to be rebuilt, later starts find the txt empty and skip it, and Apache goes on with the old DBM |
| `poll_lost_txt` | `ExistingMapsLeftAlone` | `ensureMap` (`output.go:163`) looks at the txt only; a DBM whose txt was deleted is replaced by an empty one at the next start, before any snapshot, so that an outage of the LAPI at that moment unbans everybody. The comment at `output.go:157` says that an existing map is left completely alone |
| `store_stale` | `PublishedInStep` | `restore` (`altcha.go:507`) puts back a copy that a fetch has since extended: the widget was told a later expiry than the one enforced. It takes a failed pass write; until one happens it holds (`InStepWhileRecorded`) |
| `pass_shutdown` | `EmptyWhenStopped` | `stopChallenge` empties the pass map while a solve is in flight (`challenge.go:427`), and its `add` writes the map again before the process ends |

Three of these are confined by a theorem, which says that nothing else contradicts the
sentence. `poll_retired_dbm`: where every process writes txt maps it holds without reserve
(`RetiredTextsAreEmpty`). `poll_lost_txt`: it holds where every process writes txt maps, and
where nobody deletes a map file, whatever writes fail and whenever the daemon is killed
(`LeftAloneUnlessDeleted`). `store_stale`: where passes can always be recorded it does too
(`NeverOutOfStep`).

## 5. Proofs

The modules named `*Proofs` are checked by
TLAPS without gaps, for every value of the constants that meets the assumption of the module.

* **DecisionList** (`ConstantAssumption`: finite addresses, ids and maps; routes
  and coverage are functions of the right sets; no address in an oversized range).
  `TypeCorrect`, `CountsExact`, `OneMapEach`, `SliceInStep`, `DeltaReportNet`,
  `MassUnbanConfirmed`, `RefusedOnce`, and `ListRefined`: every behaviour of
  `DecisionList` is one of `BlockList` under its mapping, the decision of the guard
  included, so no run checks `OneMapEach` or `RefusedOnce` beside it. `SliceInStep`
  is not inductive: in the middle of a delta the slice is stale. The strengthening says
  what `touched` means: an untouched address is listed iff it was when the delta
  began, a touched one was noted as it was then, and the slice is the keyset
  of that time; for a snapshot it says the same of the displaced counts. That
  makes both branches of `Settled` equal to the keyset, for every `ResortThreshold`.
  `CountsExact` rests on lemmas about `Recount` and the cardinality of `Holders`.
* **AltchaStore** (`StoreAssumption`: finite addresses and requests, at least one
  token, `0 < TTL <= MaxLifetime`). `StoreTypes`, `SolvedOnce`, `SingleFlight`,
  `LifetimeCapped`, `NoVainWaiting`, `SomebodyMoves`, `OvershootBounded`, `WidgetsInStep`,
  `NeverOutOfStep`, `EndedBySpendOrClaim`, `TicketsRefined`. `EndedBySpendOrClaim` is the
  action property `EndsRightly`: a challenge that can still be solved ends by being spent by a
  request that took a copy of it, or by the insertion of the request that has the claim of its
  address, and in no other way. That no key buys two passes is
  inductive only with the statement that a key is in at most one place: in a slot, in the
  hands of one request between `Spend` and `Record` or `Restore`, or spent; and that a claim
  in `minting` belongs to the request that derives. `SomebodyMoves` follows from
  `NoVainWaiting`: who waits, waits for a claim, and the owner of a claim does not wait. The
  two are the part of `EveryRequestEnds` that is about states. The
  cap (`OvershootBounded`) counts the slots in use together with the addresses that derive: a
  claim below the cap adds no more addresses than there are requests with a token. Only
  `restore` puts an entry back without looking at the cap, so each request whose pass was
  lost (`GaveBack`) is allowed one address more; the lemmas are that such a request stays
  one for good (`FailedForGood`), and that whatever it puts back speaks for one address
  (`RestoreSpeaksForOne`). `TicketsRefined` shows step by step that the store implements
  `Tickets`. Besides the invariant above it needs `TicketInv`: the times that requests read
  have been, every copy of a key has the mint time of that key, and no copy is good for
  longer than `TTL` from now.
* **PollLoop** (`PollAssumption`: any order of maps, any bound on faults, any thresholds;
  nothing is assumed of the addresses). `TypeCorrect`, `FilesAreInStep`, `MapsAreEnsured`,
  `RetiredListsAreEmpty`, `RetiredTextsAreEmpty`, `NoneIsMissing`, `OutageUnbansNobody`,
  `LeftAloneUnlessDeleted`, and `MapsRefined`: every behaviour of `PollLoop` is one of `MapFiles`, for any maps, faults
  and bounds. `OutageUnbansNobody` is
  about both files of a rendered map that has its txt, `LeftAloneUnlessDeleted` about what
  Apache consults; the latter needs that, without deletions, no map ever has a DBM but no txt
  (`TxtBesideDBM`). The other properties speak of
  the loop between its passes over the maps; the strengthening says of each pass that what is
  no longer in `todo` is as the pass leaves it, unless it is under suspicion: created,
  retired, equal to the list, in place. Polling starts with every DBM in place, by `missingDBM`, and
  then no failed conversion takes one away. All outcomes of `writeMap` are summarised by one
  lemma each (`Outcome`), on which every step, those of the refinement included, rests.
* **PassStore** (`PassAssumption`) and **ApacheRules**. `PassTypes`,
  `ExemptionsExpire`, `OverdueIsPruned`, `PruneEndsOverdue`, `RedirectsAreAnswered`,
  `SolvedIsServed`: with the
  strengthening that a process that is down has no store, no passes and no one in
  flight, that a listener has a store, that the readiness file of a process that is
  up says the port was bound, and that an address reported as solved has a pass in
  memory and, while the map is there, a line in it. Of `ExemptionEnds` two parts are
  proved: an exemption that is overdue makes prune act (`OverdueIsPruned`), and a prune that
  writes ends those that are overdue and no other (`PruneEndsOverdue`). That prune
  gets to write is fairness, and the run's.
* **Settings** (`SettingsAssumption`: the shipped dials are within the budgets;
  any directories, any dials). `SettingsTypes`, `EveryDecisionEnforced`, `RoutingSettled`,
  `DialsSolvable`, `FilesOutlastPolicies`, `SlipsKeepBans`. The invariant says what `conf` is at
  each stage and what has not refused it; so a running daemon has `Loaded(env)`, and
  the rest are lemmas about the operators: what the fallback is after its demotion,
  that a route to the captcha map needs a listener, that dials in force
  are solvable or the shipped ones, and that the guard's verdict on the files depends on the
  policy through the listener only (`SameFilesAccepted`).
* **CustomLists** (`CustomListsAssumption`). `ListTypes`, `SettledListsAreLive`,
  `NewMapsAreRecent`. A list that still has the stamp it had when it was looked at
  has had it all along (`StampsBounded`, `FoundEarlier`), so what the
  conversion read is that (`ReadLater`).

Every safety invariant of a passing run is proved, and so are all its action properties
and the three refinements (`ListSpec`, `MapsSpec`, `TicketSpec`). Where a refinement implies
a property that used to be checked beside it (`NeverRefusedTwice`, `OneMapPerDecision`, `OutageKeepsMaps`,
`SlotsAgeOut`), the run checks the refinement and the theorem about the
property stays. Only model-checked is liveness (`Converges`, `EveryRequestEnds`, `ExemptionEnds`,
`MapComesBack`, `DeadRedirectsEnd`, `EditGoesLive`, `DeletedMapComesBack`), which is beyond the prover.

## 6. Not modelled, and known limits

* Parsing of addresses and ranges, canonical forms, `EXPAND_MAX_HOSTS`
  arithmetic: data that the list sees as `Covers`. Key derivation, encoding, and
  cost estimates: `newAltchaChallenge` is a step that succeeds or fails.
* Configuration: intervals, timeouts, URLs, markup and the metrics settings are read,
  clamped and handed on; the parsing of digests, addresses and booleans. Metrics: counters that
  nothing reads; what a scrape may see of the list is `RenderedInStep`. Apache rules: the list of
  paths under the prefix, the exemption from another module, the optional extras,
  the encoding of the return target. The pages of the challenge, `clientIP` and `safeReturn`
  are functions of one request. Packaging scripts and flag parsing: no daemon state.
* `ensureTxt` writes an empty list when it found none, and truncates one that the
  operator put there in between (`Create` does the same); no property can mend that.
  `OUTPUT_FILE` named `captcha.txt` gives both maps one file (`mapPaths`), which nothing
  compares: the guard of `loadConfig` (`Collides`) looks at the pass map and the readiness file
  only, not at the maps that `retireUnusedMaps` (`output.go:229`) empties. Under a policy of bans
  only, each start then takes the ban map for the captcha map of a former policy and empties it
  before the first fetch. No run shows this: `PollLoop` has each map in a file of its own.
* In `altcha.go`, the flag that rations the "store is full" log line and the
  reuse of memory by `pruneLocked` are left out: no property tells them apart.
* The first snapshot after a restart has nothing to be compared with, so an
  empty one is believed. The comment at `run.go:79-87` records this gap; no
  property claims otherwise. The shrink guard sums over the maps, as
  `bouncer.go:88-90` says, and `MassUnbanIsConfirmed` is stated on the sum.
* If the reset of the pass map at startup fails, the daemon runs without a store
  and a stale map stays for the life of the process. `ExemptionsHaveExpiry` and
  `ExemptionEnds` are stated for a daemon with a store.
* Some smaller differences have no run of their own. `altchaMaxLive` "caps the
  challenges held at once" (`altcha.go:295`), but the check and the insertion are
  two critical sections (`altcha.go:406`, `443`): `CapOvershootBounded` is
  what holds. `altcha.go:362` says that a live entry is "never replaced"; but a request reads the
  time before the lock, so a fetch may extend a challenge that another, a tick later, has found
  expired and is replacing (`altcha.go:443`), and `EndsRightly` is what holds. `ensureMap`
  (`output.go:163`) looks for the txt only, so in DBM mode a missing DBM beside it is
  built by the first sync, not before; `EnsuredMapsExist` is about the txt.
  `CHANGELOG.md:51` calls it a startup error to set both `ONLY_BAN` and `BOUNCING_ON_TYPE`; the
  code (`config.go:436-439`) ignores the former, and `Bouncing` follows the code.
  `write` (`output.go:18`) renders the maps in turn, so when the second fails the first
  is already new, where the comment above it speaks of keeping the maps it had; `FilesInStep` is what holds.
  The comment on `setFor` (`bouncer.go:171`) says that `OVERRIDE_REMEDIATION` does not
  redirect a throttle; `resolveRemediation` (`config.go:401`) does redirect it, and `Resolve` follows the code.
  The comment in `loadConfig` (`config.go:773`) has the listener without work switched off before the
  maps are derived; it is after, and `MapsMatchRouting` is why that makes no difference.
* A power loss between a rename and its data reaching the disk is outside the model.

## 7. What could come next

1. `AltchaStore` with `PassStore` in one module, for what one proof is worth
   when `add` fails in the file and stays in memory.
2. An abstract specification of the pass store: who is exempt, without the writes, the
   listener or the restarts.
3. The state parts of `Converges` and `EditGoesLive`, as `OverdueIsPruned` is of
   `ExemptionEnds`: what is not yet in step always has a step due.
4. `PollLoop` and `CustomLists` in one loop, with the time that each takes of a tick.
