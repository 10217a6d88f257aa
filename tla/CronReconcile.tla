---------------------------- MODULE CronReconcile ----------------------------
(***************************************************************************)
(* The reconciliation of the declared cron jobs onto the box               *)
(* (src/remote-ops/cron.ts and src/orchestrator/cron-diff.ts): read        *)
(* jobs.json, compare, and if anything differs stop the gateway, apply     *)
(* removes, creates and edits through the agent's CLI one by one, pause    *)
(* and resume, and start the gateway again, all over one ssh session.      *)
(*                                                                         *)
(* The CLI is the agent's and is modelled from how cron.ts uses it.        *)
(***************************************************************************)
EXTENDS BoxState

CONSTANT MaxLost  \* bound: connections lost in the middle of a run

ASSUME ReconcileAssumption == MaxLost \in Nat

VARIABLES
  run,     \* the run: where it is, what is declared, what is left to do
  lost     \* how many runs lost their connection

reconcileVars == <<run, lost>>

\* Entries of [[hermes.cron]]; the schema refuses duplicate names.
Declared == [name : JobNames, body : Bodies, enabled : BOOLEAN]

Lists == {s \in UNION {[1..n -> Declared] : n \in 0..Cardinality(JobNames)} :
            \A i, j \in DOMAIN s : s[i].name = s[j].name => i = j}

\* "same" is an edit of `enabled` alone, for which there is no command; the
\* pause and resume of the end are "enable".
Command == [kind : {"remove", "create", "edit", "same", "enable"}, id : Ids, job : Declared]

\* No run is under way; `ok` is then whether the last one ended without an error.
Idle == [pc |-> "idle", decl |-> <<>>, todo |-> <<>>, alive |-> TRUE, ok |-> TRUE,
         quiet |-> TRUE]

ReconcileTypeOK ==
  /\ BoxTypeOK
  /\ run \in [pc : {"idle", "stop", "apply", "pause", "start"},
              decl : Seq(Declared), todo : Seq(Command),
              alive : BOOLEAN, ok : BOOLEAN, quiet : BOOLEAN]
  /\ lost \in 0..MaxLost

ReconcileInit == run = Idle /\ lost = 0

Ended(ok) == [Idle EXCEPT !.ok = ok]

-----------------------------------------------------------------------------
(* readBoxCrons and diffCrons *)

\* A file that is not an object with a field `jobs` counts as no jobs.
BoxCrons(f) == IF f.shape = "object" THEN f.list ELSE <<>>

IsFirst(list, i) == \A j \in 1..(i - 1) : list[j].name # list[i].name

\* The entry declared under a name.
EntryOf(decl, n) == decl[CHOOSE i \in DOMAIN decl : decl[i].name = n]

AnyEntry == CHOOSE d \in Declared : TRUE

AnyId == CHOOSE i \in Ids : TRUE

\* Mutant: a second job with a declared name is left alone.
StaysDuplicates(decl, list, i) == list[i].name \in NamesIn(decl)

\* Job i of the box is the one a declared entry is matched with.
Stays(decl, list, i) == list[i].name \in NamesIn(decl) /\ IsFirst(list, i)

\* cronFieldsChanged
Changed(d, j) == d.body # j.body \/ d.enabled # j.enabled

Removes(decl, list) ==
  LET gone == Picked(list, {i \in DOMAIN list : ~Stays(decl, list, i)}) IN
    [k \in DOMAIN gone |-> [kind |-> "remove", id |-> gone[k].id, job |-> AnyEntry]]

Creates(decl, list) ==
  LET new == Picked(decl, {i \in DOMAIN decl : decl[i].name \notin NamesIn(list)}) IN
    [k \in DOMAIN new |-> [kind |-> "create", id |-> AnyId, job |-> new[k]]]

Edits(decl, list) ==
  LET drifted == Picked(list, {i \in DOMAIN list :
                   /\ Stays(decl, list, i)
                   /\ Changed(EntryOf(decl, list[i].name), list[i])})
  IN [k \in DOMAIN drifted |->
        LET j == drifted[k] d == EntryOf(decl, j.name) IN
          [kind |-> IF d.body = j.body THEN "same" ELSE "edit", id |-> j.id, job |-> d]]

\* In the order in which the plan is applied.
Plan(decl, list) == Removes(decl, list) \o Creates(decl, list) \o Edits(decl, list)

\* The jobs whose `enabled` is not the declared one.
Toggles(decl, list) ==
  LET misset == Picked(list, {i \in DOMAIN list :
                  /\ list[i].name \in NamesIn(decl)
                  /\ EntryOf(decl, list[i].name).enabled # list[i].enabled})
  IN [k \in DOMAIN misset |->
        [kind |-> "enable", id |-> misset[k].id, job |-> EntryOf(decl, misset[k].name)]]

-----------------------------------------------------------------------------
(* The agent's CLI, external *)

\* What the CLI finds in the file; of a file that is not its own it may make
\* nothing at all.
CliReads == IF jobs.shape = "object" THEN jobs.list ELSE <<>>

CliWrites(list) == jobs' = [shape |-> "object", list |-> list]

HasId(list, id) == \E i \in DOMAIN list : list[i].id = id

CliRemove(id) ==
  /\ HasId(CliReads, id)
  /\ CliWrites(Picked(CliReads, {i \in DOMAIN CliReads : CliReads[i].id # id}))

CliCreate(d) ==
  LET free == Ids \ (IdsIn(CliReads) \cup IdsIn(sched))
      id == CHOOSE i \in free : TRUE
  IN /\ free # {}
     /\ CliWrites(Append(CliReads, [id |-> id, name |-> d.name, body |-> d.body,
                                   enabled |-> TRUE]))

CliEdit(id, d) ==
  /\ HasId(CliReads, id)
  /\ CliWrites([i \in DOMAIN CliReads |->
                  IF CliReads[i].id = id THEN [CliReads[i] EXCEPT !.body = d.body]
                                         ELSE CliReads[i]])

CliEnable(id, on) ==
  /\ HasId(CliReads, id)
  /\ CliWrites([i \in DOMAIN CliReads |->
                  IF CliReads[i].id = id THEN [CliReads[i] EXCEPT !.enabled = on]
                                         ELSE CliReads[i]])

-----------------------------------------------------------------------------
(* reconcileCrons *)

\* The first read and the comparison.  An empty plan ends the run at once.
\* `quiet` is history: the scheduler's copy is what the file says.
BeginReconcile(decl) ==
  /\ run.pc = "idle"
  /\ LET todo == Plan(decl, BoxCrons(jobs)) IN
       IF todo = <<>>
       THEN run' = Idle
       ELSE run' = [pc |-> "stop", decl |-> decl, todo |-> todo, alive |-> TRUE,
                    ok |-> TRUE, quiet |-> (gateway => sched = jobs.list)]
  /\ UNCHANGED <<boxVars, lost>>

GatewayStopped ==
  /\ run.pc = "stop" /\ run.alive
  /\ StopGateway
  /\ run' = [run EXCEPT !.pc = "apply"]
  /\ UNCHANGED <<jobs, lost>>

\* systemctl exits with an error or the session has died, whether or not the
\* gateway did stop.  This is outside the try block: nothing is started.
StopFails ==
  /\ run.pc = "stop"
  /\ UNCHANGED <<gateway, sched>> \/ StopGateway
  /\ run' = Ended(FALSE)
  /\ UNCHANGED <<jobs, lost>>

\* The next command of the plan.
Apply ==
  /\ run.pc = "apply" /\ run.alive
  /\ run.todo # <<>>
  /\ LET c == Head(run.todo) IN
       \/ c.kind = "remove" /\ CliRemove(c.id)
       \/ c.kind = "create" /\ CliCreate(c.job)
       \/ c.kind = "edit" /\ CliEdit(c.id, c.job)
       \/ c.kind = "same" /\ UNCHANGED jobs
  /\ run' = [run EXCEPT !.todo = Tail(@)]
  /\ UNCHANGED <<gateway, sched, lost>>

\* Mutant: there is no finally block.
CommandFailsThrowing ==
  /\ run.pc \in {"apply", "pause"}
  /\ run' = Ended(FALSE)
  /\ UNCHANGED <<boxVars, lost>>

\* A command exits with an error, whether or not it has done its work, and
\* the run goes to its finally block.
CommandFails ==
  /\ run.pc \in {"apply", "pause"}
  /\ run' = [run EXCEPT !.pc = "start", !.ok = FALSE, !.todo = <<>>]
  /\ UNCHANGED <<boxVars, lost>>

\* jobs.json is read again, for the ids of the jobs just made.
EndApply ==
  /\ run.pc = "apply" /\ run.alive
  /\ run.todo = <<>>
  /\ run' = [run EXCEPT !.pc = "pause", !.todo = Toggles(run.decl, BoxCrons(jobs))]
  /\ UNCHANGED <<boxVars, lost>>

\* hermes cron pause or resume.
SetEnabled ==
  /\ run.pc = "pause" /\ run.alive
  /\ run.todo # <<>>
  /\ CliEnable(Head(run.todo).id, Head(run.todo).job.enabled)
  /\ run' = [run EXCEPT !.todo = Tail(@)]
  /\ UNCHANGED <<gateway, sched, lost>>

EndPause ==
  /\ run.pc = "pause"
  /\ run.todo = <<>>
  /\ run' = [run EXCEPT !.pc = "start"]
  /\ UNCHANGED <<boxVars, lost>>

\* The run ends, with or without an error from its try block.
GatewayStarted ==
  /\ run.pc = "start" /\ run.alive
  /\ StartGateway
  /\ run' = Ended(run.ok)
  /\ UNCHANGED <<jobs, lost>>

\* The last command fails too, over a dead session or over a live one (the
\* service does not come up, or too late): the run throws from its finally block.
StartFails ==
  /\ run.pc = "start"
  /\ UNCHANGED <<gateway, sched>> \/ StartGateway
  /\ run' = Ended(FALSE)
  /\ UNCHANGED <<jobs, lost>>

\* The session dies, or the whole process does; every later command fails.
Disconnect ==
  /\ run.pc # "idle" /\ run.alive
  /\ lost < MaxLost
  /\ lost' = lost + 1
  /\ run' = [run EXCEPT !.alive = FALSE]
  /\ UNCHANGED boxVars

ReconcileStep ==
  \/ GatewayStopped \/ StopFails
  \/ Apply \/ CommandFails \/ EndApply
  \/ SetEnabled \/ EndPause
  \/ GatewayStarted \/ StartFails
  \/ Disconnect

ReconcileVars == <<boxVars, reconcileVars>>

-----------------------------------------------------------------------------
(* Properties *)

\* The box has the declared jobs and no others, each once.
Matches(decl, list) ==
  /\ \A i \in DOMAIN list : list[i].name \in NamesIn(decl)
  /\ \A d \in {decl[i] : i \in DOMAIN decl} :
       \E i \in DOMAIN list :
         /\ list[i].name = d.name /\ list[i].body = d.body
         /\ list[i].enabled = d.enabled
         /\ \A j \in DOMAIN list : list[j].name = d.name => i = j

Ends == run.pc = "start" /\ run'.pc = "idle"

\* A run that ends without an error has put on the box what is declared, and
\* the gateway has it in memory, so that its next save does not undo it; the
\* next run finds nothing to do.  (Where somebody else edited the file behind
\* the scheduler's back, before or during the run, this is not promised.)
ReconcileDelivers ==
  [][Ends /\ run'.ok /\ run.quiet =>
       /\ Matches(run.decl, BoxCrons(jobs'))
       /\ Plan(run.decl, BoxCrons(jobs')) = <<>>
       /\ gateway' /\ sched' = jobs'.list]_ReconcileVars

\* A run that leaves the gateway down has failed in systemctl's own stop or start,
\* and says so: no failing command of the cron CLI and no failing read in between
\* skips the start, and a run that reports success leaves the gateway up.
GatewayBroughtBack ==
  [][run.pc # "idle" /\ run'.pc = "idle" /\ ~gateway'
       => run.pc \in {"stop", "start"} /\ ~run'.ok]_ReconcileVars

\* What cron.ts says: "Always bring the gateway back up, even if an op failed
\* mid-way."  It is more than the code does: the start itself may fail.
GatewayBack ==
  [][run.pc \in {"apply", "pause", "start"} /\ run'.pc = "idle" => gateway']_ReconcileVars

=============================================================================
