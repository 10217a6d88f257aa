--------------------------------- MODULE Box ---------------------------------
(***************************************************************************)
(* A deployed box with those who work on it at the same time: the          *)
(* dashboard's requests, the agent's scheduler, a cron reconciliation of   *)
(* up or update, rebuilds, a browser tab that watches its sessions, and     *)
(* commands that reconcile its firewall.                                   *)
(*                                                                         *)
(* A behaviour has a scene: the parties that act in it, what jobs.json is  *)
(* at first, and how many requests are posted.  Parties that share nothing *)
(* need not be looked at together, and the scenes name the combinations    *)
(* that are.                                                               *)
(***************************************************************************)
EXTENDS AgentRoutes, CronReconcile, Rebuild, LiveView, NetworkRules

CONSTANT
  Scenes     \* records with the fields crew, a set of parties: the operations
             \* the dashboard is asked for, "scheduler", "reconcile", "rebuild",
             \* "view", "breaks", and "aws" or "gcp" for the commands that
             \* reconcile the firewall; file, jobs.json at first; posts, the
             \* bound of the requests, reconciliations and such commands;
             \* changes, the bound of what changes beside these commands

\* Nobody is in the middle of a write of jobs.json at first, and no job in it has
\* the id of another.
ASSUME SceneAssumption ==
  \A s \in Scenes :
    /\ s.file \in File /\ s.file.shape # "torn"
    /\ \A i, j \in DOMAIN s.file.list : s.file.list[i].id = s.file.list[j].id => i = j
    /\ s.posts \in Nat

VARIABLES
  crew,      \* who acts
  posts      \* how many of them may still begin

sceneVars == <<crew, posts>>

allVars == <<linkVars, boxVars, routeVars, reconcileVars, rebuildVars, viewVars,
             netVars, sceneVars>>

Init ==
  /\ NetworkInit
  /\ \E s \in Scenes :
       /\ crew = s.crew /\ jobs = s.file /\ posts = s.posts
       /\ net.changes = s.changes
  /\ gateway = TRUE
  /\ sched = jobs.list
  /\ LinkInit
  /\ RoutesInit
  /\ ReconcileInit
  /\ RebuildInit
  /\ ViewInit
  /\ address = CHOOSE a \in Addresses : TRUE
  /\ IF crew \cap Clouds # {} THEN cloud \in crew
     ELSE cloud = "aws" /\ conf.ports = {} /\ ~conf.domain

TypeOK ==
  /\ RoutesTypeOK
  /\ ReconcileTypeOK
  /\ RebuildTypeOK
  /\ ViewTypeOK
  /\ NetworkTypeOK
  /\ \E s \in Scenes : crew = s.crew /\ posts \in 0..s.posts

-----------------------------------------------------------------------------

\* A reconciliation under way, of which somebody else has changed the file or
\* the gateway.
Noticed ==
  IF run.pc # "idle" /\ <<jobs, gateway>>' # <<jobs, gateway>>
  THEN run' = [run EXCEPT !.quiet = FALSE]
  ELSE UNCHANGED run

DashboardStep ==
  /\ \/ /\ posts > 0 /\ posts' = posts - 1
        /\ \E r \in Reqs : PostAny(r, crew \cap Ops)
     \/ /\ UNCHANGED posts
        /\ \E r \in Reqs : RequestStep(r)
     \/ Expire /\ UNCHANGED <<boxVars, routeVars, posts>>
     \/ "breaks" \in crew /\ Break /\ UNCHANGED <<boxVars, routeVars, posts>>
  /\ Noticed
  /\ UNCHANGED <<lost, rebuildVars, viewVars, netVars>>

SchedulerStep ==
  /\ "scheduler" \in crew
  /\ SchedulerSave
  /\ UNCHANGED <<linkVars, routeVars, reconcileVars, rebuildVars, viewVars, netVars, posts>>

Reconcile ==
  /\ "reconcile" \in crew
  /\ \/ /\ posts > 0 /\ posts' = posts - 1
        /\ \E decl \in Lists : BeginReconcile(decl)
     \/ /\ UNCHANGED posts
        /\ ReconcileStep
  /\ UNCHANGED <<linkVars, routeVars, rebuildVars, viewVars, netVars>>

RebuildParty ==
  /\ "rebuild" \in crew
  /\ RebuildNext
  /\ UNCHANGED <<linkVars, boxVars, routeVars, reconcileVars, viewVars, netVars, posts>>

ViewParty ==
  /\ "view" \in crew
  /\ ViewNext
  /\ UNCHANGED <<linkVars, boxVars, routeVars, reconcileVars, rebuildVars, netVars, posts>>

NetworkParty ==
  /\ cloud \in crew
  /\ \/ posts > 0 /\ posts' = posts - 1 /\ BeginAny
     \/ UNCHANGED posts /\ NetworkStep
  /\ UNCHANGED <<linkVars, boxVars, routeVars, reconcileVars, rebuildVars, viewVars>>

Next ==
  /\ \/ DashboardStep
     \/ SchedulerStep
     \/ Reconcile
     \/ RebuildParty
     \/ ViewParty
     \/ NetworkParty
  /\ UNCHANGED crew

\* A posted request goes on: the box answers or the connection breaks.
Progress(r) ==
  /\ RequestStep(r)
  /\ Noticed
  /\ UNCHANGED <<lost, rebuildVars, viewVars, netVars, sceneVars>>

Fairness ==
  /\ \A r \in Reqs : WF_allVars(Progress(r))
  /\ ViewFairness

Spec == Init /\ [][Next]_allVars /\ Fairness

-----------------------------------------------------------------------------
(* Properties *)

OnlyDashboard == crew \cap {"scheduler", "reconcile"} = {}

\* Where only the dashboard writes jobs.json, a change of it is one request's
\* edit of what is in the file at that moment, whatever the other requests do
\* meanwhile.  The exception is a create that could not read the file (its
\* connection broke or was closed under it): it starts from nothing.
EditsAreAtomic == [][OnlyDashboard => EditStep]_allVars

\* A job goes from the box only when somebody deletes it.  The code does not keep
\* this: see the exception above.
JobsKept == [][OnlyDashboard => KeepStep]_allVars

\* Every request is answered, those that wait for the lock too.
Answered == \A r \in Reqs : req[r].pc # "idle" ~> req[r].pc = "idle"

=============================================================================
