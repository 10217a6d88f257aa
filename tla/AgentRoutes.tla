----------------------------- MODULE AgentRoutes -----------------------------
(***************************************************************************)
(* The dashboard's routes about one agent (src/server/routes/agent-data.ts *)
(* and org.ts): what each of them does on the box, through which helper    *)
(* calls, and the lock the routes that rewrite jobs.json take.             *)
(*                                                                         *)
(* A route checks that the agent is recorded and then makes its helper     *)
(* calls in rounds; the calls of a round run at the same time.  The lock   *)
(* is a chain of promises: a request waits for the one that was last in    *)
(* the table when it came, and its own promise replaces that one.          *)
(***************************************************************************)
EXTENDS AgentLink, BoxState

CONSTANTS
  Profiles,  \* the profiles of the agent
  NoReq      \* in place of a request where there is none

ASSUME RoutesAssumption == NoReq \notin Reqs

VARIABLES
  req,       \* the requests
  tail,      \* agentLocks: the request whose promise is in the table
  tmp,       \* what is in the .tmp sibling of jobs.json and of a skill file
  skill      \* the skill file: whose contents, whether they are all there and
             \* nothing else, and, as history, whether two requests have had it
             \* open for writing at once

routeVars == <<req, tail, tmp, skill>>

-----------------------------------------------------------------------------
(* The routes that only read: their helper calls, round by round *)

ProfilesCalls == <<<<"list">>>>
StatsCalls == <<<<"sqlite", "model">>>>
SessionsCalls == <<<<"sqlite", "model">>>>
MessagesCalls == <<<<"sqlite">>>>
SkillsCalls == <<<<"list">>, <<"list">>, <<"listRead", "listRead">>>>
SkillFileCalls == <<<<"read">>>>
CronCalls == <<<<"read">>>>
GatewayCalls == <<<<"read">>>>
WebhooksCalls == <<<<"cmd">>, <<"cmd">>, <<"read">>, <<"sqlite">>, <<"details">>>>
PluginsCalls == <<<<"cmd">>>>
CuratorCalls == <<<<"read">>, <<"read">>, <<"read">>, <<"read">>>>
ModelsCalls == <<<<"read">>, <<"sqlite">>, <<"model">>>>

\* One call of helper h for each profile, all at once.
PerProfile(h) == [i \in 1..Cardinality(Profiles) |-> h]

DiscoverCalls == <<"list">>
OrgStatsCalls == <<DiscoverCalls, PerProfile("sqlite")>>
OrgActivityCalls == <<DiscoverCalls, PerProfile("sqlite")>>
OrgCronsCalls == <<DiscoverCalls, PerProfile("read")>>
OrgSkillsCalls == <<DiscoverCalls, PerProfile("list"), PerProfile("list"),
                    PerProfile("listRead")>>

ReadRoutes ==
  [profiles |-> ProfilesCalls, stats |-> StatsCalls, sessions |-> SessionsCalls,
   messages |-> MessagesCalls, skills |-> SkillsCalls, skillFile |-> SkillFileCalls,
   crons |-> CronCalls, gatewayState |-> GatewayCalls, webhooks |-> WebhooksCalls,
   plugins |-> PluginsCalls, curator |-> CuratorCalls, models |-> ModelsCalls,
   orgStats |-> OrgStatsCalls, orgActivity |-> OrgActivityCalls,
   orgCrons |-> OrgCronsCalls, orgSkills |-> OrgSkillsCalls]

EditOps == {"create", "toggle", "put", "delete"}

Ops == DOMAIN ReadRoutes \cup EditOps \cup {"skillPut", "gateway"}

-----------------------------------------------------------------------------

\* What an edit is about: the job, and for a create or put its contents.
Args == [id : Ids, name : JobNames, body : Bodies, enabled : BOOLEAN]

\* Of a request: where it is, what it waits for, the round its route is in,
\* what it read from jobs.json, what it is going to write, and the file its
\* upload has open.
Request ==
  [op : Ops, pc : {"idle", "exists", "queue", "round", "read", "list", "write",
                   "command"},
   arg : Args, after : Reqs \cup {NoReq}, round : 0..5,
   saw : File, out : Seq(Job), at : {"none", "tmp", "file", "gone"}]

AnyArg == CHOOSE a \in Args : TRUE

NotPosted == [op |-> "stats", pc |-> "idle", arg |-> AnyArg, after |-> NoReq,
              round |-> 0, saw |-> NoFile, out |-> <<>>, at |-> "none"]

NoTmp == [there |-> FALSE, whole |-> FALSE, by |-> NoReq, list |-> <<>>, shared |-> FALSE]

Targets == {"jobs", "skill"}

RoutesTypeOK ==
  /\ BoxTypeOK
  /\ LinkTypeOK
  /\ req \in [Reqs -> Request]
  /\ tail \in Reqs \cup {NoReq}
  /\ tmp \in [Targets -> [there : BOOLEAN, whole : BOOLEAN,
                          by : Reqs \cup {NoReq}, list : Seq(Job), shared : BOOLEAN]]
  /\ skill \in [whole : BOOLEAN, by : Reqs \cup {NoReq}, shared : BOOLEAN]

RoutesInit ==
  /\ req = [r \in Reqs |-> NotPosted]
  /\ tail = NoReq
  /\ tmp = [f \in Targets |-> NoTmp]
  /\ skill = [whole |-> TRUE, by |-> NoReq, shared |-> FALSE]

-----------------------------------------------------------------------------
(* Helpers *)

\* Start the calls hs of request r.
StartCalls(r, hs) ==
  call' = [c \in Calls |->
             IF c[1] # r THEN call[c]
             ELSE IF c[2] \notin DOMAIN hs THEN NoCall
             ELSE Begun(hs[c[2]])]

\* The same, of which the optional ones may not be made.
StartRound(r, hs) ==
  \E skip \in SUBSET {i \in DOMAIN hs : hs[i] \in Optional} :
    call' = [c \in Calls |->
               IF c[1] # r THEN call[c]
               ELSE IF c[2] \notin DOMAIN hs THEN NoCall
               ELSE IF c[2] \in skip THEN Skipped(hs[c[2]])
               ELSE Begun(hs[c[2]])]

Returned(r) == \A i \in {1, 2} : call[<<r, i>>].pc \in {"none", "done"}

Succeeded(r) == call[<<r, 1>>].ok

LinkUnchanged == UNCHANGED <<cache, open, breaks, raced, cut>>

\* The answer to r is sent; its calls and its place in the queue are gone.
Done(r) ==
  /\ call' = [c \in Calls |-> IF c[1] = r THEN NoCall ELSE call[c]]
  /\ LinkUnchanged

-----------------------------------------------------------------------------
(* withAgentLock *)

\* Mutant: the request is answered and its promise never resolved.
ReleaseNothing(r) ==
  /\ req' = [req EXCEPT ![r] = NotPosted]
  /\ tail' = IF tail = r THEN NoReq ELSE tail

\* finally: the promise of r is resolved, and taken from the table if it is
\* still there.
Release(r) ==
  /\ req' = [q \in Reqs |-> IF q = r THEN NotPosted
                            ELSE IF req[q].after = r THEN [req[q] EXCEPT !.after = NoReq]
                            ELSE req[q]]
  /\ tail' = IF tail = r THEN NoReq ELSE tail

InLock(r) == req[r].pc \in {"read", "write"} /\ req[r].op \in EditOps

-----------------------------------------------------------------------------
(* Every route *)

Post(r, op, arg) ==
  /\ req[r].pc = "idle"
  /\ req' = [req EXCEPT ![r] = [NotPosted EXCEPT !.op = op, !.pc = "exists", !.arg = arg]]
  /\ UNCHANGED <<linkVars, boxVars, tail, tmp, skill>>

\* agentExists says no, or the parameters are refused: 404 or 400.
NotFound(r) ==
  /\ req[r].pc = "exists"
  /\ req' = [req EXCEPT ![r] = NotPosted]
  /\ UNCHANGED <<linkVars, boxVars, tail, tmp, skill>>

\* A route that reads begins its first round.
BeginReading(r) ==
  /\ req[r].pc = "exists"
  /\ req[r].op \in DOMAIN ReadRoutes
  /\ req' = [req EXCEPT ![r].pc = "round", ![r].round = 1]
  /\ StartRound(r, ReadRoutes[req[r].op][1])
  /\ LinkUnchanged
  /\ UNCHANGED <<boxVars, tail, tmp, skill>>

\* A failed call stands for an empty result.
NextRound(r) ==
  /\ req[r].pc = "round"
  /\ Returned(r)
  /\ req[r].round < Len(ReadRoutes[req[r].op])
  /\ req' = [req EXCEPT ![r].round = @ + 1]
  /\ StartRound(r, ReadRoutes[req[r].op][req[r].round + 1])
  /\ LinkUnchanged
  /\ UNCHANGED <<boxVars, tail, tmp, skill>>

EndReading(r) ==
  /\ req[r].pc = "round"
  /\ Returned(r)
  /\ req[r].round = Len(ReadRoutes[req[r].op])
  /\ req' = [req EXCEPT ![r] = NotPosted]
  /\ Done(r)
  /\ UNCHANGED <<boxVars, tail, tmp, skill>>

-----------------------------------------------------------------------------
(* Cron jobs *)

\* withAgentLock up to its await.
Enqueue(r) ==
  /\ req[r].pc = "exists"
  /\ req[r].op \in EditOps
  /\ req' = [req EXCEPT ![r].pc = "queue", ![r].after = tail]
  /\ tail' = r
  /\ UNCHANGED <<linkVars, boxVars, tmp, skill>>

\* Mutant: nobody waits.
EnterLockAnyway(r) ==
  /\ req[r].pc = "queue"
  /\ req' = [req EXCEPT ![r].pc = "read"]
  /\ StartCalls(r, <<"read">>)
  /\ LinkUnchanged
  /\ UNCHANGED <<boxVars, tail, tmp, skill>>

\* The promise waited for is resolved; jobs.json is asked for.
EnterLock(r) ==
  /\ req[r].pc = "queue"
  /\ req[r].after = NoReq
  /\ req' = [req EXCEPT ![r].pc = "read"]
  /\ StartCalls(r, <<"read">>)
  /\ LinkUnchanged
  /\ UNCHANGED <<boxVars, tail, tmp, skill>>

\* Mutant: a new job has no field `enabled`.
NewJobBare(arg) == [id |-> arg.id, name |-> arg.name, body |-> arg.body]

NewJob(arg) == [id |-> arg.id, name |-> arg.name, body |-> arg.body,
                enabled |-> arg.enabled]

\* Toggle and put change the first job that has the id.
FirstWithId(list, id) ==
  CHOOSE i \in DOMAIN list : list[i].id = id /\ \A j \in 1..(i - 1) : list[j].id # id

\* The list with the change op asks for.
Edited(list, op, arg) ==
  CASE op = "create" -> Append(list, NewJob(arg))
    [] op = "toggle" -> [list EXCEPT ![FirstWithId(list, arg.id)].enabled = ~@]
    [] op = "put" -> [list EXCEPT ![FirstWithId(list, arg.id)] =
                        [@ EXCEPT !.name = arg.name, !.body = arg.body,
                                  !.enabled = arg.enabled]]
    [] op = "delete" -> Picked(list, {i \in DOMAIN list : list[i].id # arg.id})

AsList(f) == IF f.shape = "list" THEN f.list ELSE <<>>

\* A new id is one nobody has or asks for.  Ids is a bound: where there is no
\* such id left, a create is answered like one whose write fails.
NewIds(f) ==
  Ids \ (IdsIn(AsList(f)) \cup IdsIn(jobs.list) \cup IdsIn(sched)
           \cup {req[q].arg.id : q \in {q \in Reqs : req[q].pc # "idle"}})

\* The argument of r once it has read f: a create makes up its id.
Made(r, f) ==
  IF req[r].op = "create"
  THEN [req[r].arg EXCEPT !.id = CHOOSE i \in NewIds(f) : TRUE]
  ELSE req[r].arg

\* A file that could not be read, or does not hold a list, counts as empty
\* for a create, and as 404 for the others.
Editable(f, op, id) ==
  \/ op = "create" /\ NewIds(f) # {}
  \/ f.shape = "list" /\ id \in IdsIn(f.list) /\ op # "create"

\* What readRemoteJson returned; NoFile stands for null.
Read(r) == IF Succeeded(r) THEN req[r].saw ELSE NoFile

\* Mutant: the lock is let go before the file is written.
EditReleasing(r) ==
  /\ req[r].pc = "read"
  /\ Returned(r)
  /\ LET f == Read(r) op == req[r].op arg == Made(r, f) IN
       /\ Editable(f, op, req[r].arg.id)
       /\ req' = [q \in Reqs |->
                    IF q = r THEN [req[r] EXCEPT !.pc = "write", !.arg = arg, !.saw = f,
                                     !.out = Edited(AsList(f), op, arg)]
                    ELSE IF req[q].after = r THEN [req[q] EXCEPT !.after = NoReq]
                    ELSE req[q]]
       /\ tail' = IF tail = r THEN NoReq ELSE tail
  /\ StartCalls(r, <<"write">>)
  /\ LinkUnchanged
  /\ UNCHANGED <<boxVars, tmp, skill>>

Edit(r) ==
  /\ req[r].pc = "read"
  /\ Returned(r)
  /\ LET f == Read(r) op == req[r].op arg == Made(r, f) IN
       /\ Editable(f, op, req[r].arg.id)
       /\ req' = [req EXCEPT ![r].pc = "write", ![r].arg = arg, ![r].saw = f,
                             ![r].out = Edited(AsList(f), op, arg)]
  /\ StartCalls(r, <<"write">>)
  /\ LinkUnchanged
  /\ UNCHANGED <<boxVars, tail, tmp, skill>>

EditRefused(r) ==
  /\ req[r].pc = "read"
  /\ Returned(r)
  /\ ~Editable(Read(r), req[r].op, req[r].arg.id)
  /\ Release(r)
  /\ Done(r)
  /\ UNCHANGED <<boxVars, tmp, skill>>

EndEdit(r) ==
  /\ req[r].pc = "write"
  /\ req[r].op \in EditOps
  /\ Returned(r)
  /\ Release(r)
  /\ Done(r)
  /\ UNCHANGED <<boxVars, tmp, skill>>

-----------------------------------------------------------------------------
(* A skill file, without the lock *)

BeginSkillPut(r) ==
  /\ req[r].pc = "exists"
  /\ req[r].op = "skillPut"
  /\ req' = [req EXCEPT ![r].pc = "list"]
  /\ StartCalls(r, <<"list">>)
  /\ LinkUnchanged
  /\ UNCHANGED <<boxVars, tail, tmp, skill>>

\* The file must be in the listing; a listing that failed is empty: 404.
WriteSkill(r) ==
  /\ req[r].pc = "list"
  /\ Returned(r) /\ Succeeded(r)
  /\ req' = [req EXCEPT ![r].pc = "write"]
  /\ StartCalls(r, <<"write">>)
  /\ LinkUnchanged
  /\ UNCHANGED <<boxVars, tail, tmp, skill>>

EndSkillPut(r) ==
  /\ req[r].op = "skillPut"
  /\ \/ req[r].pc = "list"
     \/ req[r].pc = "write"
  /\ Returned(r)
  /\ req[r].pc = "list" => ~Succeeded(r)
  /\ req' = [req EXCEPT ![r] = NotPosted]
  /\ Done(r)
  /\ UNCHANGED <<boxVars, tail, tmp, skill>>

-----------------------------------------------------------------------------
(* The gateway, without the lock *)

BeginGateway(r) ==
  /\ req[r].pc = "exists"
  /\ req[r].op = "gateway"
  /\ req' = [req EXCEPT ![r].pc = "command"]
  /\ StartCalls(r, <<"cmd">>)
  /\ LinkUnchanged
  /\ UNCHANGED <<boxVars, tail, tmp, skill>>

EndGateway(r) ==
  /\ req[r].pc = "command"
  /\ Returned(r)
  /\ req' = [req EXCEPT ![r] = NotPosted]
  /\ Done(r)
  /\ UNCHANGED <<boxVars, tail, tmp, skill>>

-----------------------------------------------------------------------------
(* The helper calls of a request *)

AskSession(r, i) ==
  /\ Acquire(<<r, i>>)
  /\ UNCHANGED <<boxVars, routeVars>>

SessionOpens(r, i) ==
  /\ Connect(<<r, i>>)
  /\ UNCHANGED <<boxVars, routeVars>>

\* What can go wrong with a call, and a call that needs no command.
CallCutShort(r, i) ==
  /\ \/ ConnectFails(<<r, i>>)
     \/ Refused(<<r, i>>)
     \/ SkipPython(<<r, i>>)
  /\ UNCHANGED <<boxVars, routeVars>>

\* cat jobs.json: what is there at this moment is what the edit starts from.
ReadJobs(r, i) ==
  /\ req[r].pc = "read"
  /\ Run(<<r, i>>)
  /\ req' = [req EXCEPT ![r].saw = jobs]
  /\ UNCHANGED <<boxVars, tail, tmp, skill>>

\* hermes gateway start | stop | restart; the agent may fail to do it.
RunGateway(r, i) ==
  /\ req[r].pc = "command"
  /\ Run(<<r, i>>)
  /\ \/ StartGateway
     \/ StopGateway
     \/ UNCHANGED <<gateway, sched>>
  /\ UNCHANGED <<jobs, routeVars>>

RunOther(r, i) ==
  /\ req[r].pc \in {"round", "list"}
  /\ Run(<<r, i>>)
  /\ UNCHANGED <<boxVars, routeVars>>

CallAnswered(r, i) ==
  /\ Answer(<<r, i>>)
  /\ UNCHANGED <<boxVars, routeVars>>

-----------------------------------------------------------------------------
(* writeRemoteFile: upload the .tmp sibling, then mv *)

Target(r) == IF req[r].op = "skillPut" THEN "skill" ELSE "jobs"

\* Mutant: the upload goes to the file itself.
OpenInPlace(r) ==
  LET c == <<r, 1>> IN
  /\ call[c].pc = "exec" /\ call[c].helper = "write"
  /\ call[c].ses \in open
  /\ call' = [call EXCEPT ![c].pc = "put"]
  /\ IF Target(r) = "jobs"
       THEN jobs' = [shape |-> "torn", list |-> <<>>] /\ UNCHANGED skill
       ELSE skill' = [whole |-> FALSE, by |-> r, shared |-> FALSE] /\ UNCHANGED jobs
  /\ req' = [req EXCEPT ![r].at = "file"]
  /\ LinkUnchanged
  /\ UNCHANGED <<gateway, sched, tail, tmp>>

\* Another request is still writing to the .tmp file of f.
TmpOpen(f, r) ==
  \E q \in Reqs \ {r} :
    call[<<q, 1>>].pc = "put" /\ req[q].at = "tmp" /\ Target(q) = f

\* The upload opens the .tmp file and cuts it to nothing, whoever else has
\* it open.
OpenTmp(r) ==
  LET c == <<r, 1>> f == Target(r) IN
  /\ call[c].pc = "exec" /\ call[c].helper = "write"
  /\ call[c].ses \in open
  /\ call' = [call EXCEPT ![c].pc = "put"]
  /\ tmp' = [tmp EXCEPT ![f] = [there |-> TRUE, whole |-> FALSE, by |-> r,
                                 list |-> <<>>, shared |-> TmpOpen(f, r)]]
  /\ req' = [req EXCEPT ![r].at = "tmp"]
  /\ LinkUnchanged
  /\ UNCHANGED <<boxVars, tail, skill>>

\* Two write streams have had the file that r has open.
SharesFile(r) ==
  \/ req[r].at = "tmp" /\ tmp[Target(r)].shared
  \/ req[r].at = "file" /\ (Target(r) = "skill" => skill.shared)

\* The contents go into the file that was opened, wherever it is by now.  A
\* stream writes at its own offsets: in a file that another one has cut or
\* written since, these may not be all there, or the end of a longer text
\* may follow them.
FillTmp(r) ==
  LET c == <<r, 1>> IN
  /\ call[c].pc = "put"
  /\ call[c].ses \in open
  /\ call' = [call EXCEPT ![c].pc = "mv"]
  /\ \E whole \in BOOLEAN :
       /\ ~SharesFile(r) => whole
       /\ IF req[r].at = "tmp"
            THEN tmp' = [tmp EXCEPT ![Target(r)] =
                           [there |-> TRUE, whole |-> whole, by |-> r, list |-> req[r].out,
                            shared |-> tmp[Target(r)].shared]]
            ELSE UNCHANGED tmp
       /\ IF req[r].at = "file" /\ Target(r) = "skill"
            THEN skill' = [whole |-> whole, by |-> r, shared |-> skill.shared]
            ELSE UNCHANGED skill
       /\ IF req[r].at = "file" /\ Target(r) = "jobs"
            THEN jobs' = [shape |-> IF whole THEN "list" ELSE "torn", list |-> req[r].out]
            ELSE UNCHANGED jobs
  /\ LinkUnchanged
  /\ UNCHANGED <<gateway, sched, req, tail>>

\* The files opened at f's .tmp and at f, after a mv of one over the other.
Moved(f) ==
  [q \in Reqs |->
     IF Target(q) # f THEN req[q]
     ELSE [req[q] EXCEPT !.at = CASE @ = "tmp" -> "file" [] @ = "file" -> "gone"
                                  [] OTHER -> @]]

\* mv exits with 0 and its effect is there, or the .tmp file is gone.
Mv(r) ==
  LET c == <<r, 1>> f == Target(r) IN
  /\ call[c].pc = "mv"
  /\ call[c].ses \in open
  /\ IF tmp[f].there
       THEN /\ call' = [call EXCEPT ![c].pc = "answer"]
            /\ tmp' = [tmp EXCEPT ![f] = NoTmp]
            /\ req' = Moved(f)
            /\ IF f = "jobs"
                 THEN /\ jobs' = [shape |-> IF tmp[f].whole THEN "list" ELSE "torn",
                                  list |-> tmp[f].list]
                      /\ UNCHANGED skill
                 ELSE /\ skill' = [whole |-> tmp[f].whole, by |-> tmp[f].by,
                                   shared |-> tmp[f].shared]
                      /\ UNCHANGED jobs
       ELSE /\ call' = [call EXCEPT ![c] = After(c, FALSE)]
            /\ UNCHANGED <<tmp, req, jobs, skill>>
  /\ LinkUnchanged
  /\ UNCHANGED <<gateway, sched, tail>>

-----------------------------------------------------------------------------

CallStep(r) ==
  \E i \in {1, 2} :
    \/ AskSession(r, i)
    \/ SessionOpens(r, i)
    \/ CallCutShort(r, i)
    \/ ReadJobs(r, i)
    \/ RunGateway(r, i)
    \/ RunOther(r, i)
    \/ CallAnswered(r, i)

\* What request r does once it is posted.
RequestStep(r) ==
  \/ NotFound(r)
  \/ BeginReading(r) \/ NextRound(r) \/ EndReading(r)
  \/ Enqueue(r) \/ EnterLock(r) \/ Edit(r) \/ EditRefused(r) \/ EndEdit(r)
  \/ BeginSkillPut(r) \/ WriteSkill(r) \/ EndSkillPut(r)
  \/ BeginGateway(r) \/ EndGateway(r)
  \/ CallStep(r)
  \/ OpenTmp(r) \/ FillTmp(r) \/ Mv(r)

\* A create makes a job, a put changes what is said of one, and the other edits
\* only name one.
Asked(op) ==
  CASE op = "create" -> {[AnyArg EXCEPT !.enabled = TRUE]}
    [] op = "put" -> {[AnyArg EXCEPT !.id = i, !.body = b, !.enabled = FALSE] :
                        i \in Ids, b \in Bodies}
    [] op \in {"toggle", "delete"} -> {[AnyArg EXCEPT !.id = i] : i \in Ids}
    [] OTHER -> {AnyArg}

PostAny(r, ops) == \E op \in ops : \E arg \in Asked(op) : Post(r, op, arg)

-----------------------------------------------------------------------------
(* Properties *)

RoutesVars == <<linkVars, boxVars, routeVars>>

\* At most one request is between taking the lock of the agent and letting it
\* go, and when nobody is in or waiting the table is empty.
OneEditor ==
  /\ \A q, r \in Reqs : InLock(q) /\ InLock(r) => q = r
  /\ tail = NoReq <=> \A r \in Reqs : req[r].op \in EditOps
                                      => req[r].pc \in {"idle", "exists"}

\* Where only the dashboard writes jobs.json, a change of it is one request's
\* edit of what is in the file at that moment, whatever the other requests do
\* meanwhile.  The exception is a create that could not read the file (its
\* connection broke or was closed under it): it starts from nothing.
EditStep ==
  jobs' # jobs =>
    \E r \in Reqs :
      /\ InLock(r) /\ req[r].pc = "write"
      /\ req[r].saw = jobs \/ (req[r].op = "create" /\ req[r].saw = NoFile)
      /\ jobs' = [shape |-> "list",
                  list |-> Edited(AsList(req[r].saw), req[r].op, req[r].arg)]

\* A job goes from the box only when somebody deletes it.
KeepStep ==
  \A id \in IdsIn(jobs.list) :
    \/ id \in IdsIn(jobs'.list)
    \/ \E r \in Reqs : InLock(r) /\ req[r].op = "delete" /\ req[r].arg.id = id

\* Readers of jobs.json never see part of it, nor two texts mixed.  A skill file,
\* which is uploaded without the lock and may be moved into place half written,
\* is whole again when everybody has ended, unless a session was gone under one
\* of them or two had the same file open for writing.
FilesWhole ==
  /\ jobs.shape # "torn"
  /\ ~cut /\ (\A r \in Reqs : req[r].pc = "idle") /\ ~skill.shared => skill.whole

\* What writeRemoteFile says, "readers never see a truncated file", of skill files
\* once nobody writes.  Two uploads at once leave a mix for ever.
SkillWhole == ~cut /\ (\A r \in Reqs : req[r].pc = "idle") => skill.whole

=============================================================================
