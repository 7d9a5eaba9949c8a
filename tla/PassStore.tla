------------------------------- MODULE PassStore -------------------------------
(***************************************************************************)
(* The passes of solved challenges and the listener they are solved at:    *)
(* src/pass.go, with what src/challenge.go and src/run.go do with it as    *)
(* the daemon starts, polls, shuts down and crashes.  Two copies have to   *)
(* agree: the passes in memory, which have an expiry, and the map on disk, *)
(* which is what Apache exempts and has none.  A second file, the          *)
(* readiness file, tells Apache whether the listener is there.             *)
(*                                                                         *)
(* Time is abstract: a pass is current until it lapses, at any moment.     *)
(* That loses nothing, because prune alone reads the expiry.  A write is   *)
(* a temporary file and a rename, so it happens whole or not at all.       *)
(***************************************************************************)

CONSTANTS
  IP,      \* client addresses
  Solver,  \* requests with a right answer that may be served at once
  None,    \* no address
  FailAt   \* what may fail, of Failure

\* The writes of the pass map; the template, the bind, the two operations on the
\* readiness file and the listener itself.
Failure == {"start", "add", "prune", "stop"} \cup {"template", "bind", "mark", "clear", "serve"}

ASSUME PassAssumption ==
  /\ None \notin IP
  /\ FailAt \subseteq Failure

VARIABLES
  phase,   \* stopped, crashed, polling, stopping (cancelled) or exiting
  enabled, \* the bouncer has a pass store (b.passes is not nil)
  usable,  \* a listener is configured (captchaUsable)
  server,  \* serve: off, binding, marking, serving, closing, or uncleared: over,
           \* but the readiness file could not be removed
  ready,   \* the readiness file is there
  passes,  \* memory: none, current or lapsed for each address
  exists,  \* the map is on disk
  file,    \* the addresses it exempts
  at,      \* solver -> the address whose challenge it has spent, or None
  told     \* addresses told "solved" since their last pass was dropped

vars == <<phase, enabled, usable, server, ready, passes, exists, file, at, told>>

listener == <<usable, server, ready>>

Up == phase \in {"polling", "stopping", "exiting"}

\* The port accepts connections, from the bind, before anything says so: the first wait
\* for the handlers, which come with "serving".
Serving == server \in {"marking", "serving"}

NoPasses == [a \in IP |-> "none"]
Lapsed(p) == {a \in IP : p[a] = "lapsed"}

\* Mutant of Held: an empty key is rendered as well.
HeldAndBlank(p) == {a \in IP : p[a] # "none"} \cup {None}

\* What a write renders: every pass in memory, lapsed or not.
Held(p) == {a \in IP : p[a] # "none"}

Written(p) == exists' = TRUE /\ file' = Held(p)
NotWritten == UNCHANGED <<exists, file>>

Init ==
  /\ phase = "stopped"
  /\ enabled = FALSE /\ usable \in BOOLEAN /\ server = "off" /\ ready = FALSE
  /\ passes = NoPasses
  /\ exists \in BOOLEAN /\ file = {}
  /\ at = [s \in Solver |-> None]
  /\ told = {}

-------------------------------------------------------------------------------
(* Solving: solve, after check has spent the challenge *)

Redeem(s, a) ==
  /\ enabled /\ server = "serving"
  /\ at[s] = None
  /\ at' = [at EXCEPT ![s] = a]
  /\ UNCHANGED <<phase, enabled, listener, passes, exists, file, told>>

\* Mutant of FailedAdd: the entry is rolled back as if it were new.
FailedAddRolledBack(p, a) == [p EXCEPT ![a] = "none"]

\* What memory holds after an add whose write failed: the pass, all the same.
FailedAdd(p, a) == [p EXCEPT ![a] = "current"]

\* passes.add: memory first, then the file; the client is told the outcome.  The
\* handlers still run while the daemon shuts down.
Add(s) ==
  /\ Up
  /\ at[s] # None
  /\ at' = [at EXCEPT ![s] = None]
  /\ \/ /\ passes' = [passes EXCEPT ![at[s]] = "current"]
        /\ Written(passes')
        /\ told' = told \cup {at[s]}
     \/ /\ "add" \in FailAt
        /\ passes' = FailedAdd(passes, at[s])
        /\ NotWritten
        /\ UNCHANGED told
  /\ UNCHANGED <<phase, enabled, listener>>

Lapse(a) ==
  /\ passes[a] = "current"
  /\ passes' = [passes EXCEPT ![a] = "lapsed"]
  /\ UNCHANGED <<phase, enabled, listener, exists, file, at, told>>

-------------------------------------------------------------------------------
(* Pruning, on each poll *)

\* Mutants of NeedsWrite: each forgets one of the two reasons to rewrite the map.
NeedsWriteIfMissing == ~exists
NeedsWriteIfLapsed == Lapsed(passes) # {}

NeedsWrite == Lapsed(passes) # {} \/ ~exists

Dropped(p) == [a \in IP |-> IF p[a] = "lapsed" THEN "none" ELSE p[a]]

\* Mutant of Restored: a failed write forgets the lapsed passes.
RestoredNever(p, lapsed) == p

\* The lapsed passes go back when the write failed: the file still names them.
Restored(p, lapsed) == [a \in IP |-> IF a \in lapsed THEN "lapsed" ELSE p[a]]

Prunes == phase \in {"polling", "stopping"} /\ enabled /\ NeedsWrite

PruneWrites ==
  /\ Prunes
  /\ passes' = Dropped(passes)
  /\ Written(passes')
  /\ told' = told \ Lapsed(passes)
  /\ UNCHANGED <<phase, enabled, listener, at>>

PruneFails ==
  /\ Prunes
  /\ "prune" \in FailAt
  /\ passes' = Restored(Dropped(passes), Lapsed(passes))
  /\ NotWritten
  /\ UNCHANGED <<phase, enabled, listener, at, told>>

-------------------------------------------------------------------------------
(* Starting and stopping *)

\* systemd starts the daemon once the runtime directory of the last one is gone.
Starts ==
  /\ phase \in {"stopped", "crashed"} /\ ~ready
  /\ phase' = "polling"
  /\ UNCHANGED <<usable, ready, passes, at, told>>

\* A listener without a store to record passes in would be worse than none.
Listens(stored) == usable /\ stored

\* startChallenge: the map is emptied before anything can be solved, and then the
\* listener is started if one is configured.  A template that cannot be used takes
\* the store with it.
StartWrites ==
  /\ Starts
  /\ Written(NoPasses)
  /\ enabled' \in BOOLEAN /\ (~enabled' => usable /\ "template" \in FailAt)
  /\ server' = IF Listens(enabled') THEN "binding" ELSE "off"

\* When that write fails the daemon runs without a store, and the map stays.
StartFails ==
  /\ Starts
  /\ "start" \in FailAt
  /\ server' = IF Listens(FALSE) THEN "binding" ELSE "off"
  /\ UNCHANGED <<enabled, exists, file>>

\* The context is cancelled; run and the listener each see it in their own time.
Cancel ==
  /\ phase = "polling"
  /\ phase' = "stopping"
  /\ UNCHANGED <<enabled, listener, passes, exists, file, at, told>>

\* stopChallenge, deferred by run: reset empties memory and then the map.
StopChallenge ==
  /\ phase = "stopping"
  /\ phase' = "exiting"
  /\ IF enabled
       THEN /\ passes' = NoPasses
            /\ Written(NoPasses) \/ ("stop" \in FailAt /\ NotWritten)
            /\ told' = {}
       ELSE UNCHANGED <<passes, exists, file, told>>
  /\ UNCHANGED <<enabled, listener, at>>

\* The process ends and its memory with it; requests in flight are cut off.
Ends(how) ==
  /\ phase' = how
  /\ enabled' = FALSE /\ server' = "off"
  /\ passes' = NoPasses
  /\ at' = [s \in Solver |-> None]
  /\ told' = {}
  /\ UNCHANGED <<usable, ready, exists, file>>

Exit == phase = "exiting" /\ Ends("stopped")
Crash == Up /\ Ends("crashed")

\* Somebody deletes the map.
Delete ==
  /\ exists
  /\ exists' = FALSE /\ file' = {}
  /\ UNCHANGED <<phase, enabled, listener, passes, at, told>>

-------------------------------------------------------------------------------
(* The listener: serve, in a goroutine of its own *)

rest == <<phase, enabled, usable, passes, exists, file, at, told>>

Bind ==
  /\ server = "binding"
  /\ server' = "marking"
  /\ UNCHANGED <<ready, rest>>

\* The port is taken, or the context is cancelled first.
BindFails ==
  /\ server = "binding"
  /\ "bind" \in FailAt \/ phase # "polling"
  /\ server' = "off"
  /\ UNCHANGED <<ready, rest>>

\* Mutant of Marks: the file is written before the port is bound.
MarksEarly == server = "binding"

\* markReady, after the bind.
Marks == server = "marking"

MarkReady ==
  /\ Marks
  /\ ready' = TRUE
  /\ server' = IF server = "marking" THEN "serving" ELSE server
  /\ UNCHANGED rest

\* It only logs: the challenge is served, and nobody is sent to it.
MarkFails ==
  /\ server = "marking" /\ "mark" \in FailAt
  /\ server' = "serving"
  /\ UNCHANGED <<ready, rest>>

\* Accepting fails for good: no listener, and the daemon goes on.
ServeFails ==
  /\ server = "serving" /\ "serve" \in FailAt
  /\ server' = "closing"
  /\ UNCHANGED <<ready, rest>>

\* The context is cancelled: no new requests, the ones in flight go on.
Shutdown ==
  /\ server = "serving" /\ phase \in {"stopping", "exiting"}
  /\ server' = "closing"
  /\ UNCHANGED <<ready, rest>>

\* Mutant of Cleared: the file is left for systemd to remove.
ClearedBySystemd == ready

Cleared == FALSE

\* clearReady, deferred: whatever Serve returned.
ClearReady ==
  /\ server = "closing"
  /\ server' = "off"
  /\ ready' = Cleared
  /\ UNCHANGED rest

ClearFails ==
  /\ server = "closing" /\ ready /\ "clear" \in FailAt
  /\ server' = "uncleared"
  /\ UNCHANGED <<ready, rest>>

\* systemd removes the runtime directory whenever the unit goes down.
RemoveRuntimeDirectory ==
  /\ phase \in {"stopped", "crashed"} /\ ready
  /\ ready' = FALSE
  /\ UNCHANGED <<server, rest>>

Next ==
  \/ \E s \in Solver : Add(s) \/ \E a \in IP : Redeem(s, a)
  \/ \E a \in IP : Lapse(a)
  \/ PruneWrites \/ PruneFails
  \/ StartWrites \/ StartFails
  \/ Bind \/ BindFails \/ MarkReady \/ MarkFails
  \/ ServeFails \/ Shutdown \/ ClearReady \/ ClearFails \/ RemoveRuntimeDirectory
  \/ Cancel \/ StopChallenge \/ Exit \/ Crash
  \/ Delete

Spec == Init /\ [][Next]_vars

\* The poll loop goes on and a failing disk recovers, a cancelled daemon stops, the
\* listener's goroutine runs while the process does, and systemd removes the runtime
\* directory and restarts a daemon that crashed (Restart=always).  Nothing makes it
\* start after an orderly stop, and no client has to solve anything.
FairSpec ==
  /\ Spec
  /\ WF_vars(PruneWrites)
  /\ WF_vars(StopChallenge) /\ WF_vars(Exit)
  /\ WF_vars(Bind) /\ WF_vars(MarkReady) /\ WF_vars(Shutdown) /\ WF_vars(ClearReady)
  /\ WF_vars(RemoveRuntimeDirectory)
  /\ WF_vars(phase = "crashed" /\ (StartWrites \/ StartFails))

-------------------------------------------------------------------------------
(* Properties *)

\* Types: the map names addresses and nothing else (add refuses unusable keys).
TypeOK ==
  /\ phase \in {"stopped", "crashed", "polling", "stopping", "exiting"}
  /\ enabled \in BOOLEAN /\ usable \in BOOLEAN /\ ready \in BOOLEAN
  /\ server \in {"off", "binding", "marking", "serving", "closing", "uncleared"}
  /\ passes \in [IP -> {"none", "current", "lapsed"}]
  /\ exists \in BOOLEAN
  /\ file \subseteq IP
  /\ at \in [Solver -> IP \cup {None}]
  /\ told \subseteq IP

\* Every address the map exempts has a pass in memory while the daemon polls, so
\* that prune will end it: over failed adds, failed prunes, deletions, crashes and
\* restarts.  A daemon whose startup reset failed has no store and no such bound.
ExemptionsHaveExpiry ==
  phase \in {"polling", "stopping"} /\ enabled => file \subseteq Held(passes)

\* No exemption outlives its pass for ever: while the daemon runs, or after a
\* crash, the map loses every address whose pass lapsed or was lost.  A daemon
\* whose startup reset failed runs without a store and leaves the map alone.
ExemptionEnds ==
  \A a \in IP :
    (a \in file /\ passes[a] # "current" /\ phase # "stopped")
      ~> (a \notin file \/ passes[a] = "current" \/ phase = "stopped" \/ (Up /\ ~enabled))

\* A map deleted while the daemon runs comes back (prune's self-healing): without
\* it Apache refuses to start.
MapComesBack ==
  (phase = "polling" /\ enabled /\ ~exists) ~> (exists \/ phase # "polling")

\* "Passes are discarded at startup and emptied at shutdown" (CHANGELOG.md:60):
\* after an orderly stop the map exempts nobody.
EmptyWhenStopped == phase = "stopped" => file = {}
==============================================================================
