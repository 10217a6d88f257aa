------------------------------- MODULE Rebuild -------------------------------
(***************************************************************************)
(* nixos-rebuild on the box (src/remote-ops/nixos-rebuild.ts): a run       *)
(* starts a build in the background, loses sight of it, and polls over     *)
(* fresh sessions until a marker file has its exit code.  All runs use the *)
(* same marker file, and a run that gives up after 30 minutes leaves its   *)
(* build behind.  The up, update and upgrade of one box, from the CLI or   *)
(* from the dashboard, are the runs.                                       *)
(***************************************************************************)
EXTENDS Naturals

CONSTANTS
  Runs,       \* calls of runNixosRebuild
  NoRun,      \* in place of a run where there is none
  MaxDead     \* bound: start commands and polls whose session fails

ASSUME RebuildAssumption == NoRun \notin Runs /\ MaxDead \in Nat

VARIABLES
  caller,   \* run -> where the caller is, and the verdict it was given
  build,    \* run -> the build it started on the box
  marker,   \* EXIT_FILE: the run whose build wrote it, and its exit code
  overlap,  \* history: runs during which another run's build was on the box
  dead      \* how many sessions failed

rebuildVars == <<caller, build, marker, overlap, dead>>

Codes == {"zero", "other"}

NoMarker == [by |-> NoRun, code |-> "zero"]

RebuildTypeOK ==
  /\ caller \in [Runs -> [pc : {"idle", "polling", "read", "done", "threw"},
                          saw : Runs \cup {NoRun}, code : Codes]]
  /\ build \in [Runs -> {"none", "started", "building", "ended"}]
  /\ marker \in [by : Runs \cup {NoRun}, code : Codes]
  /\ overlap \subseteq Runs
  /\ dead \in 0..MaxDead

RebuildInit ==
  /\ caller = [r \in Runs |-> [pc |-> "idle", saw |-> NoRun, code |-> "zero"]]
  /\ build = [r \in Runs |-> "none"]
  /\ marker = NoMarker
  /\ overlap = {}
  /\ dead = 0

-----------------------------------------------------------------------------

\* Builds on the box that have not written their exit code.
Unfinished == {r \in Runs : build[r] \in {"started", "building"}}

Waiting == {r \in Runs : caller[r].pc \in {"polling", "read"}}

\* The shell command is sent.  If the session fails the caller may learn of it;
\* if the channel just closes nobody looks whether the command ever ran.
StartBuild(r) ==
  /\ caller[r].pc = "idle"
  /\ \/ /\ caller' = [caller EXCEPT ![r].pc = "polling"]
        /\ build' = [build EXCEPT ![r] = "started"]
        /\ UNCHANGED dead
        /\ overlap' = overlap \cup (IF Unfinished = {} THEN {} ELSE {r}) \cup Waiting
     \/ /\ dead < MaxDead
        /\ dead' = dead + 1
        /\ \E pc \in {"polling", "threw"} : caller' = [caller EXCEPT ![r].pc = pc]
        /\ UNCHANGED <<build, overlap>>
  /\ UNCHANGED marker

\* Mutant: the markers of the build before are not removed.
RemoveNothing(r) ==
  /\ build[r] = "started"
  /\ build' = [build EXCEPT ![r] = "building"]
  /\ UNCHANGED <<caller, marker, overlap, dead>>

\* In the background on the box: rm -f of the markers, and the build begins.
RemoveMarkers(r) ==
  /\ build[r] = "started"
  /\ build' = [build EXCEPT ![r] = "building"]
  /\ marker' = NoMarker
  /\ UNCHANGED <<caller, overlap, dead>>

EndBuild(r) ==
  /\ build[r] = "building"
  /\ build' = [build EXCEPT ![r] = "ended"]
  /\ \E c \in Codes : marker' = [by |-> r, code |-> c]
  /\ UNCHANGED <<caller, overlap, dead>>

\* cat EXIT_FILE finds an exit code.  The first poll is five seconds after
\* the start: the rm of the own command is taken to be done by then.
PollFindsExit(r) ==
  /\ caller[r].pc = "polling"
  /\ build[r] # "started"
  /\ marker.by # NoRun
  /\ caller' = [caller EXCEPT ![r] = [pc |-> "read", saw |-> marker.by, code |-> marker.code]]
  /\ UNCHANGED <<build, marker, overlap, dead>>

\* The log is read, the markers are removed (an error there is ignored) and
\* the result is returned.
ReturnResult(r) ==
  /\ caller[r].pc = "read"
  /\ caller' = [caller EXCEPT ![r].pc = "done"]
  /\ \/ marker' = NoMarker
     \/ dead < MaxDead /\ UNCHANGED marker
  /\ UNCHANGED <<build, overlap, dead>>

\* Reading the log fails: back to polling, with the marker still there.
ReadFails(r) ==
  /\ caller[r].pc = "read"
  /\ dead < MaxDead
  /\ dead' = dead + 1
  /\ caller' = [caller EXCEPT ![r] = [pc |-> "polling", saw |-> NoRun, code |-> "zero"]]
  /\ UNCHANGED <<build, marker, overlap>>

\* 30 minutes have passed: the caller throws, the build goes on.
GiveUp(r) ==
  /\ caller[r].pc = "polling"
  /\ caller' = [caller EXCEPT ![r].pc = "threw"]
  /\ UNCHANGED <<build, marker, overlap, dead>>

\* The result has been used, and no build of this run is left on the box.
Forget(r) ==
  /\ caller[r].pc \in {"done", "threw"}
  /\ r \notin Unfinished
  /\ marker.by # r
  /\ caller' = [caller EXCEPT ![r] = [pc |-> "idle", saw |-> NoRun, code |-> "zero"]]
  /\ build' = [build EXCEPT ![r] = "none"]
  /\ overlap' = overlap \ {r}
  /\ UNCHANGED <<marker, dead>>

RebuildNext ==
  \E r \in Runs :
    \/ StartBuild(r) \/ RemoveMarkers(r) \/ EndBuild(r)
    \/ PollFindsExit(r) \/ ReturnResult(r) \/ ReadFails(r)
    \/ GiveUp(r) \/ Forget(r)

-----------------------------------------------------------------------------

\* The result a run returns is its own build's, as long as it did start one
\* and no other run's build was on the box during it.  What an earlier build
\* left behind, also one nobody came to collect, is never taken for it.
VerdictIsOwn ==
  \A r \in Runs :
    caller[r].pc \in {"read", "done"} /\ build[r] # "none" /\ r \notin overlap
      => caller[r].saw = r

=============================================================================
