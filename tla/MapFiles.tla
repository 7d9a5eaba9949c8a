------------------------------- MODULE MapFiles -------------------------------
(***************************************************************************)
(* What Apache can find in the map files, whatever PollLoop goes through   *)
(* to keep them: failures, retries, lost answers, restarts under another   *)
(* policy.  Files change one map at a time.  While a daemon prepares, it   *)
(* creates the maps that have no txt and empties those of a former policy; *)
(* while it waits for its first snapshot it touches none; once it serves,  *)
(* a map that is written is given the list as it is, in full; and what is  *)
(* outside may delete a file at any time.  A write may leave the DBM as it *)
(* was, or torn.  The one step that unbans without a snapshot has a name:  *)
(* Overwrite.                                                              *)
(***************************************************************************)
CONSTANTS Remediation, IP,
          Missing, Torn,  \* no file, and a DBM half replaced
          Holding(_)      \* the file that names some addresses

VARIABLES
  mode,      \* "down", "preparing", "fetching" or "serving"
  policy,    \* the maps that are rendered
  list,      \* the list, as map entries
  txt, dbm   \* the files of each map

vars == <<mode, policy, list, txt, dbm>>
files == <<txt, dbm>>

ListOf(r) == {ip \in IP : <<r, ip>> \in list}

Init ==
  /\ mode = "down" /\ policy = {} /\ list = {}
  /\ txt = [r \in Remediation |-> Missing]
  /\ dbm = [r \in Remediation |-> Missing]

\* The txt of a map is replaced as a whole.  Its DBM follows, or is kept, or torn.
Write(r, ips) ==
  /\ txt' = [txt EXCEPT ![r] = Holding(ips)]
  /\ dbm' \in {dbm, [dbm EXCEPT ![r] = Holding(ips)], [dbm EXCEPT ![r] = Torn]}

Start ==
  /\ mode = "down"
  /\ mode' = "preparing"
  /\ policy' \in (SUBSET Remediation) \ {{}}
  /\ UNCHANGED <<list, files>>

\* A map of the policy that has no file gets an empty one ...
Create(r) ==
  /\ mode = "preparing"
  /\ r \in policy /\ txt[r] = Missing /\ dbm[r] = Missing
  /\ Write(r, {})
  /\ UNCHANGED <<mode, policy, list>>

\* ... so does one that has lost its txt only, and its DBM may go with it ...
Overwrite(r) ==
  /\ mode = "preparing"
  /\ r \in policy /\ txt[r] = Missing /\ dbm[r] # Missing
  /\ Write(r, {})
  /\ UNCHANGED <<mode, policy, list>>

\* ... and one of another policy that names anybody is emptied.
Retire(r) ==
  /\ mode = "preparing"
  /\ r \notin policy /\ txt[r] \notin {Missing, Holding({})}
  /\ Write(r, {})
  /\ UNCHANGED <<mode, policy, list>>

Ready ==
  /\ mode = "preparing"
  /\ mode' = "fetching"
  /\ UNCHANGED <<policy, list, files>>

\* A snapshot or a delta: the list is another, or the same, and no file changes yet.
Adopt ==
  /\ mode \in {"fetching", "serving"}
  /\ mode' = "serving"
  /\ list' \subseteq policy \X IP
  /\ UNCHANGED <<policy, files>>

\* A map of the policy is given what the list has for it.  The startup sync may begin
\* again after it.
Render(r) ==
  /\ mode = "serving"
  /\ r \in policy
  /\ Write(r, ListOf(r))
  /\ mode' \in {"serving", "fetching"}
  /\ UNCHANGED <<policy, list>>

\* Or after a write that failed and left everything as it was.
Retry ==
  /\ mode = "serving"
  /\ mode' = "fetching"
  /\ UNCHANGED <<policy, list, files>>

\* The process ends and its list with it.  The files stay.
Stop ==
  /\ mode # "down"
  /\ mode' = "down" /\ policy' = {} /\ list' = {}
  /\ UNCHANGED files

Delete(r) ==
  /\ \/ txt' = [txt EXCEPT ![r] = Missing] /\ UNCHANGED dbm
     \/ dbm' = [dbm EXCEPT ![r] = Missing] /\ UNCHANGED txt
  /\ UNCHANGED <<mode, policy, list>>

\* Most of what the loop does shows in no file.
Unseen == UNCHANGED vars

Next ==
  \/ Unseen
  \/ Start \/ Ready \/ Adopt \/ Retry \/ Stop
  \/ \E r \in Remediation : Create(r) \/ Overwrite(r) \/ Retire(r) \/ Render(r) \/ Delete(r)

Spec == Init /\ [][Next]_vars
==============================================================================
