--------------------------- MODULE AgentRoutesProofs ---------------------------
(***************************************************************************)
(* Proofs about AgentRoutes and AgentLink, for any number of requests and  *)
(* ssh sessions: the lock of the cron routes, the uploads, and the cache   *)
(* of sessions.  A step is one of the dashboard's; what the others who     *)
(* work on the box do to jobs.json is added in BoxProofs.                  *)
(***************************************************************************)
EXTENDS AgentRoutes, FiniteSetTheorems, SequenceTheorems, TLAPS

\* What the dashboard does: a request is posted or goes on, a cached session
\* expires, a connection breaks.
DashboardNext ==
  \/ \E r \in Reqs, op \in Ops : \E arg \in Args : Post(r, op, arg)
  \/ \E r \in Reqs : RequestStep(r)
  \/ (Expire \/ Break) /\ UNCHANGED <<boxVars, routeVars>>

-------------------------------------------------------------------------------
(* Control *)

CallPcs == {"none", "start", "connect", "exec", "put", "mv", "answer", "done"}

CallRecord ==
  [pc : CallPcs, helper : Helpers, left : {0, 1}, ses : Sessions \cup {NoSes},
   ok : BOOLEAN]

Fields == {"op", "pc", "arg", "after", "round", "saw", "out", "at"}

\* x has the fields of a request.
IsRequest(x) == x = [f \in Fields |-> x[f]]

\* A request and its calls are records; what a request has read and is going to
\* write is left open.
Records ==
  /\ req = [r \in Reqs |-> req[r]]
  /\ \A r \in Reqs : IsRequest(req[r])
  /\ call \in [Calls -> CallRecord]

PcsOf(op) ==
  {"idle", "exists"} \cup
  CASE op \in EditOps -> {"queue", "read", "write"}
    [] op = "skillPut" -> {"list", "write"}
    [] op = "gateway" -> {"command"}
    [] OTHER -> {"round"}

\* Where the helper is known, it runs one command.
HelperAt(pc, x) ==
  CASE pc = "read" -> x.helper = "read" /\ x.left = 0
    [] pc = "write" -> x.helper = "write" /\ x.left = 0
    [] pc = "list" -> x.helper = "list" /\ x.left = 0
    [] pc = "command" -> x.helper = "cmd" /\ x.left = 0
    [] pc = "round" -> x.helper # "write"
    [] OTHER -> FALSE

\* x is a call of a request that is at pc.
CallAt(pc, x) ==
  /\ x.pc # "none" => HelperAt(pc, x)
  /\ x.pc = "none" => ~x.ok
  /\ x.pc \in {"put", "mv"} => x.helper = "write"

\* A request takes the steps of its own route, with the helper calls of each
\* step: before the first step none, and in the rewriting routes one.
Control(r) ==
  /\ req[r].op \in Ops
  /\ req[r].pc \in PcsOf(req[r].op)
  /\ req[r].pc = "idle" => req[r].op = "stats"
  /\ req[r].pc = "round" => req[r].round \in Nat \ {0}
  /\ req[r].pc # "round" => call[<<r, 2>>].pc = "none"
  /\ \A i \in {1, 2} : CallAt(req[r].pc, call[<<r, i>>])

RouteInv == Records /\ \A r \in Reqs : Control(r)

-------------------------------------------------------------------------------
(* Read routes *)

\* One call for each profile is of the helper it is made with.
LEMMA PerProfileIs ==
  ASSUME NEW h
  PROVE  \A i \in DOMAIN PerProfile(h) : PerProfile(h)[i] = h
BY DEF PerProfile

\* No route that reads makes a call that writes.
LEMMA ReadOnly ==
  ASSUME NEW op \in DOMAIN ReadRoutes, NEW k \in 1..Len(ReadRoutes[op])
  PROVE  \A i \in DOMAIN ReadRoutes[op][k] :
           ReadRoutes[op][k][i] \in Helpers \ {"write"}
<1> USE DEF ReadRoutes, Helpers, Commands
<1>1. CASE op = "profiles"
  BY <1>1 DEF ProfilesCalls
<1>2. CASE op = "stats"
  BY <1>2 DEF StatsCalls
<1>3. CASE op = "sessions"
  BY <1>3 DEF SessionsCalls
<1>4. CASE op = "messages"
  BY <1>4 DEF MessagesCalls
<1>5. CASE op = "skills"
  BY <1>5 DEF SkillsCalls
<1>6. CASE op = "skillFile"
  BY <1>6 DEF SkillFileCalls
<1>7. CASE op = "crons"
  BY <1>7 DEF CronCalls
<1>8. CASE op = "gatewayState"
  BY <1>8 DEF GatewayCalls
<1>9. CASE op = "webhooks"
  BY <1>9 DEF WebhooksCalls
<1>10. CASE op = "plugins"
  BY <1>10 DEF PluginsCalls
<1>11. CASE op = "curator"
  BY <1>11 DEF CuratorCalls
<1>12. CASE op = "models"
  BY <1>12 DEF ModelsCalls
<1>13. CASE op = "orgStats"
  <2>1. /\ ReadRoutes[op][1] = <<"list">> /\ ReadRoutes[op][2] = PerProfile("sqlite")
        /\ k \in 1..2
    BY <1>13 DEF OrgStatsCalls, DiscoverCalls
  <2>. QED
    BY <2>1, PerProfileIs
<1>14. CASE op = "orgActivity"
  <2>1. /\ ReadRoutes[op][1] = <<"list">> /\ ReadRoutes[op][2] = PerProfile("sqlite")
        /\ k \in 1..2
    BY <1>14 DEF OrgActivityCalls, DiscoverCalls
  <2>. QED
    BY <2>1, PerProfileIs
<1>15. CASE op = "orgCrons"
  <2>1. /\ ReadRoutes[op][1] = <<"list">> /\ ReadRoutes[op][2] = PerProfile("read")
        /\ k \in 1..2
    BY <1>15 DEF OrgCronsCalls, DiscoverCalls
  <2>. QED
    BY <2>1, PerProfileIs
<1>16. CASE op = "orgSkills"
  <2>1. /\ ReadRoutes[op][1] = <<"list">> /\ ReadRoutes[op][2] = PerProfile("list")
        /\ ReadRoutes[op][3] = PerProfile("list")
        /\ ReadRoutes[op][4] = PerProfile("listRead")
        /\ k \in 1..4
    BY <1>16 DEF OrgSkillsCalls, DiscoverCalls
  <2>. QED
    BY <2>1, PerProfileIs
<1>. QED
  BY <1>1, <1>2, <1>3, <1>4, <1>5, <1>6, <1>7, <1>8,
     <1>9, <1>10, <1>11, <1>12, <1>13, <1>14, <1>15, <1>16

\* A route that reads is not one of the others.
LEMMA ReadersOnly ==
  ASSUME NEW op \in DOMAIN ReadRoutes
  PROVE  op \notin EditOps \cup {"skillPut", "gateway"} /\ Len(ReadRoutes[op]) \in Nat \ {0}
BY DEF ReadRoutes, EditOps, ProfilesCalls, StatsCalls, SessionsCalls, MessagesCalls,
   SkillsCalls, SkillFileCalls, CronCalls, GatewayCalls, WebhooksCalls, PluginsCalls,
   CuratorCalls, ModelsCalls, OrgStatsCalls, OrgActivityCalls, OrgCronsCalls,
   OrgSkillsCalls


-------------------------------------------------------------------------------
(* Requests and calls as records *)

\* What a step of another request leaves alone of request q.
Keeps(q) ==
  /\ req'[q].op = req[q].op /\ req'[q].pc = req[q].pc
  /\ req'[q].arg = req[q].arg /\ req'[q].round = req[q].round
  /\ req'[q].saw = req[q].saw /\ req'[q].out = req[q].out
  /\ \A i \in {1, 2} : call'[<<q, i>>] = call[<<q, i>>]

\* The answer to a request, or its end: it is not posted any more.
LEMMA NotPostedIs == IsRequest(NotPosted)
BY DEF NotPosted, IsRequest, Fields

\* The records calls are made of.
LEMMA CallRecords ==
  /\ NoCall \in CallRecord
  /\ \A h \in Helpers : Begun(h) \in CallRecord /\ Skipped(h) \in CallRecord
<1>1. \A h \in Helpers : Commands[h] - 1 \in {0, 1}
  BY DEF Helpers, Commands
<1>2. "read" \in Helpers
  BY DEF Helpers, Commands
<1>3. NoCall \in CallRecord
  BY <1>2 DEF NoCall, CallRecord, CallPcs
<1>4. ASSUME NEW h \in Helpers
      PROVE  Begun(h) \in CallRecord
  BY <1>1 DEF Begun, CallRecord, CallPcs
<1>5. ASSUME NEW h \in Helpers
      PROVE  Skipped(h) \in CallRecord
  <2>1. Begun(h) \in CallRecord /\ "done" \in CallPcs /\ TRUE \in BOOLEAN
    BY <1>4 DEF CallPcs
  <2>. QED
    BY <2>1 DEF Skipped, CallRecord
<1>. QED
  BY <1>3, <1>4, <1>5

\* A call is still one after a command.
LEMMA AfterIs ==
  ASSUME NEW c \in Calls, NEW ok \in BOOLEAN, call \in [Calls -> CallRecord]
  PROVE  /\ After(c, ok) \in CallRecord
         /\ After(c, ok).pc \in {"start", "done"}
         /\ After(c, ok).helper = call[c].helper
         /\ call[c].left = 0 => After(c, ok).left = 0 /\ After(c, ok).pc = "done"
         /\ After(c, ok).pc = "done" => After(c, ok).ok = ok
<1>1. call[c] \in CallRecord
  OBVIOUS
<1>2. CASE call[c].left > 0 /\ (ok \/ call[c].helper = "listRead")
  <2>1. PICK n \in {0, 1} : n = call[c].left - 1 /\ call[c].left # 0
    BY <1>1, <1>2 DEF CallRecord
  <2>2. After(c, ok) = [call[c] EXCEPT !.pc = "start", !.left = n, !.ses = NoSes]
    BY <1>2, <2>1 DEF After
  <2>3. After(c, ok) \in CallRecord
    BY <1>1, <2>2 DEF CallRecord, CallPcs
  <2>4. After(c, ok).pc = "start" /\ After(c, ok).helper = call[c].helper
    BY <1>1, <2>2 DEF CallRecord, CallPcs
  <2>. QED
    BY <2>1, <2>3, <2>4
<1>3. CASE ~(call[c].left > 0 /\ (ok \/ call[c].helper = "listRead"))
  <2>1. After(c, ok) = [call[c] EXCEPT !.pc = "done", !.ses = NoSes, !.ok = ok]
    BY <1>3 DEF After
  <2>2. /\ After(c, ok) \in CallRecord
        /\ After(c, ok).pc = "done" /\ After(c, ok).helper = call[c].helper
        /\ After(c, ok).left = call[c].left
    BY <1>1, <2>1 DEF CallRecord, CallPcs
  <2>3. After(c, ok).ok = ok
    BY <1>1, <2>1 DEF CallRecord
  <2>. QED
    BY <2>2, <2>3
<1>. QED
  BY <1>2, <1>3

\* Calls are started for one request.
LEMMA CallsStarted ==
  ASSUME NEW r \in Reqs, NEW h \in Helpers, call \in [Calls -> CallRecord],
         StartCalls(r, <<h>>)
  PROVE  /\ call' \in [Calls -> CallRecord]
         /\ \A q \in Reqs \ {r}, i \in {1, 2} : call'[<<q, i>>] = call[<<q, i>>]
         /\ call'[<<r, 1>>] = Begun(h) /\ call'[<<r, 2>>] = NoCall
BY CallRecords DEF StartCalls, Calls

\* The calls of a round are started, of helpers that do not write.
LEMMA RoundStarted ==
  ASSUME NEW r \in Reqs, NEW hs, call \in [Calls -> CallRecord], StartRound(r, hs),
         \A i \in DOMAIN hs : hs[i] \in Helpers \ {"write"}
  PROVE  /\ call' \in [Calls -> CallRecord]
         /\ \A q \in Reqs \ {r}, i \in {1, 2} : call'[<<q, i>>] = call[<<q, i>>]
         /\ \A i \in {1, 2} :
              \/ call'[<<r, i>>] = NoCall
              \/ \E h \in Helpers \ {"write"} :
                   call'[<<r, i>>] \in {Begun(h), Skipped(h)}
<1>1. PICK skip \in SUBSET {i \in DOMAIN hs : hs[i] \in Optional} :
        call' = [c \in Calls |->
                   IF c[1] # r THEN call[c]
                   ELSE IF c[2] \notin DOMAIN hs THEN NoCall
                   ELSE IF c[2] \in skip THEN Skipped(hs[c[2]])
                   ELSE Begun(hs[c[2]])]
  BY DEF StartRound
<1>. QED
  BY <1>1, CallRecords DEF Calls

\* The calls of one request are gone.
LEMMA CallsGone ==
  ASSUME NEW r \in Reqs, call \in [Calls -> CallRecord], Done(r)
  PROVE  /\ call' \in [Calls -> CallRecord]
         /\ \A q \in Reqs \ {r}, i \in {1, 2} : call'[<<q, i>>] = call[<<q, i>>]
         /\ \A i \in {1, 2} : call'[<<r, i>>] = NoCall
BY CallRecords DEF Done, Calls

-------------------------------------------------------------------------------
(* Every step is one request's *)

\* At first nothing is posted.
LEMMA RouteInvInit == LinkInit /\ RoutesInit => RouteInv
<1>. SUFFICES ASSUME LinkInit, RoutesInit
              PROVE  RouteInv
  OBVIOUS
<1>1. Records
  BY CallRecords, NotPostedIs DEF LinkInit, RoutesInit, Records
<1>2. \A r \in Reqs : req[r] = NotPosted /\ \A i \in {1, 2} : call[<<r, i>>] = NoCall
  BY DEF LinkInit, RoutesInit, Calls
<1>3. "stats" \in Ops
  BY DEF Ops, ReadRoutes
<1>. QED
  BY <1>1, <1>2, <1>3 DEF RouteInv, Control, CallAt, NotPosted, NoCall, PcsOf

\* A request that is answered is as before it was posted.
LEMMA EndsControlled ==
  ASSUME NEW r \in Reqs, req'[r] = NotPosted, \A i \in {1, 2} : call'[<<r, i>>] = NoCall
  PROVE  Control(r)'
<1>1. "stats" \in Ops
  BY DEF Ops, ReadRoutes
<1>. QED
  BY <1>1 DEF Control, CallAt, NotPosted, NoCall, PcsOf

\* A request that makes one call of the helper its step needs.
LEMMA CallControlled ==
  ASSUME NEW r \in Reqs, NEW h \in {"read", "write", "list", "cmd"},
         req'[r].op \in Ops, req'[r].pc \in PcsOf(req'[r].op) \ {"idle", "round"},
         call'[<<r, 1>>] = Begun(h), call'[<<r, 2>>] = NoCall,
         HelperAt(req'[r].pc, [helper |-> h, left |-> 0])
  PROVE  Control(r)'
<1>1. Begun(h).helper = h /\ Begun(h).left = 0 /\ Begun(h).pc = "start"
  BY DEF Begun, Commands
<1>2. HelperAt(req'[r].pc, Begun(h))
  BY <1>1 DEF HelperAt
<1>3. CallAt(req'[r].pc, Begun(h)) /\ CallAt(req'[r].pc, NoCall)
  BY <1>1, <1>2 DEF CallAt, NoCall
<1>. QED
  BY <1>3 DEF Control, NoCall

\* A request of which one call goes on: the helper stays the same.
LEMMA CallGoesOn ==
  ASSUME NEW r \in Reqs, NEW i \in {1, 2}, Control(r), call \in [Calls -> CallRecord],
         NEW x, call' = [call EXCEPT ![<<r, i>>] = x], x \in CallRecord,
         x.helper = call[<<r, i>>].helper, call[<<r, i>>].pc # "none",
         call[<<r, i>>].left = 0 => x.left = 0, x.pc # "none",
         x.pc \in {"put", "mv"} => x.helper = "write",
         req'[r].op = req[r].op, req'[r].pc = req[r].pc, req'[r].round = req[r].round
  PROVE  /\ Control(r)'
         /\ call' \in [Calls -> CallRecord]
         /\ \A q \in Reqs \ {r}, j \in {1, 2} : call'[<<q, j>>] = call[<<q, j>>]
<1>1. <<r, i>> \in Calls
  BY DEF Calls
<1>2. call' \in [Calls -> CallRecord]
  BY <1>1
<1>3. \A q \in Reqs, j \in {1, 2} :
        call'[<<q, j>>] = IF q = r /\ j = i THEN x ELSE call[<<q, j>>]
  BY <1>1 DEF Calls
<1>4. HelperAt(req[r].pc, call[<<r, i>>])
  BY DEF Control, CallAt
<1>5. HelperAt(req[r].pc, x)
  BY <1>4 DEF HelperAt
<1>6. CallAt(req[r].pc, x)
  BY <1>5 DEF CallAt
<1>7. \A j \in {1, 2} : CallAt(req[r].pc, call'[<<r, j>>])
  BY <1>3, <1>6 DEF Control
<1>8. req[r].pc # "round" => call'[<<r, 2>>].pc = "none"
  BY <1>3 DEF Control
<1>. QED
  BY <1>2, <1>3, <1>7, <1>8 DEF Control

\* A step of request r, to the others.
StepOf(r) == Records' /\ Control(r)' /\ \A q \in Reqs \ {r} : Keeps(q)

\* Request r alone changes, and where it is.
LEMMA OneChanges ==
  ASSUME RouteInv, NEW r \in Reqs, NEW x,
         IsRequest(x),
         req' = [req EXCEPT ![r] = x], Control(r)',
         call' \in [Calls -> CallRecord],
         \A q \in Reqs \ {r}, i \in {1, 2} : call'[<<q, i>>] = call[<<q, i>>]
  PROVE  StepOf(r)
<1>1. \A q \in Reqs : req'[q] = IF q = r THEN x ELSE req[q]
  BY DEF RouteInv, Records
<1>2. Records'
  BY <1>1 DEF RouteInv, Records
<1>. QED
  BY <1>1, <1>2 DEF StepOf, Keeps

\* The requests do not change, and of the calls one of r.
LEMMA NoneChanges ==
  ASSUME RouteInv, NEW r \in Reqs, req' = req, Control(r)',
         call' \in [Calls -> CallRecord],
         \A q \in Reqs \ {r}, i \in {1, 2} : call'[<<q, i>>] = call[<<q, i>>]
  PROVE  StepOf(r)
BY DEF RouteInv, Records, StepOf, Keeps

\* A request is posted, or turned down.
LEMMA PostSteps ==
  ASSUME RouteInv, NEW r \in Reqs,
         \/ \E op \in Ops : \E arg : Post(r, op, arg)
         \/ NotFound(r)
         \/ Enqueue(r)
  PROVE  StepOf(r)
<1>1. call' = call /\ \A i \in {1, 2} : CallAt(req[r].pc, call[<<r, i>>])
  BY DEF RouteInv, Control, Post, NotFound, Enqueue, linkVars
<1>2. /\ call' \in [Calls -> CallRecord]
      /\ \A q \in Reqs \ {r}, i \in {1, 2} : call'[<<q, i>>] = call[<<q, i>>]
  BY <1>1 DEF RouteInv, Records
<1>3. req[r].pc \in {"idle", "exists"} /\ req[r].op \in Ops
  BY DEF RouteInv, Control, Post, NotFound, Enqueue
<1>4. \A i \in {1, 2} : call[<<r, i>>].pc = "none" /\ ~call[<<r, i>>].ok
  BY <1>1, <1>3 DEF CallAt, HelperAt
<1>5. CASE \E op \in Ops : \E arg : Post(r, op, arg)
  <2>1. PICK op \in Ops : \E arg : Post(r, op, arg)
    BY <1>5
  <2>10. PICK arg : Post(r, op, arg)
    BY <2>1
  <2>. DEFINE x == [NotPosted EXCEPT !.op = op, !.pc = "exists", !.arg = arg]
  <2>2. req' = [req EXCEPT ![r] = x]
    BY <2>10 DEF Post
  <2>3. /\ IsRequest(x)
        /\ x.op = op /\ x.pc = "exists"
    BY NotPostedIs DEF IsRequest, Fields
  <2>. HIDE DEF x
  <2>4. req'[r] = x
    BY <2>2 DEF RouteInv, Records
  <2>5. Control(r)'
    BY <1>1, <1>4, <2>3, <2>4 DEF Control, CallAt, PcsOf
  <2>. QED
    BY <1>2, <2>2, <2>3, <2>5, OneChanges
<1>6. CASE NotFound(r)
  <2>1. req' = [req EXCEPT ![r] = NotPosted]
    BY <1>6 DEF NotFound
  <2>2. req'[r] = NotPosted
    BY <2>1 DEF RouteInv, Records
  <2>3. "stats" \in Ops
    BY DEF Ops, ReadRoutes
  <2>4. Control(r)'
    BY <1>1, <1>4, <2>2, <2>3 DEF Control, CallAt, PcsOf, NotPosted
  <2>. QED
    BY <1>2, <2>1, <2>4, OneChanges, NotPostedIs
<1>7. CASE Enqueue(r)
  <2>. DEFINE x == [req[r] EXCEPT !.pc = "queue", !.after = tail]
  <2>1. req' = [req EXCEPT ![r] = x]
    BY <1>7 DEF Enqueue
  <2>2. /\ IsRequest(x)
        /\ x.op = req[r].op /\ x.pc = "queue"
    BY DEF RouteInv, Records, IsRequest, Fields
  <2>. HIDE DEF x
  <2>3. req'[r] = x
    BY <2>1 DEF RouteInv, Records
  <2>4. "queue" \in PcsOf(req[r].op)
    BY <1>7 DEF PcsOf, Enqueue, EditOps
  <2>5. Control(r)'
    BY <1>1, <1>3, <1>4, <2>2, <2>3, <2>4 DEF Control, CallAt
  <2>. QED
    BY <1>2, <2>1, <2>2, <2>5, OneChanges
<1>. QED
  BY <1>5, <1>6, <1>7

\* A request that makes the call of its next step.
LEMMA CallSteps ==
  ASSUME RouteInv, NEW r \in Reqs,
         \/ EnterLock(r) \/ Edit(r) \/ BeginSkillPut(r) \/ WriteSkill(r)
         \/ BeginGateway(r)
  PROVE  StepOf(r)
<1>1. req[r].op \in Ops /\ req[r].pc \in PcsOf(req[r].op)
  BY DEF RouteInv, Control
<1>2. \A pc : /\ IsRequest([req[r] EXCEPT !.pc = pc])
              /\ [req[r] EXCEPT !.pc = pc].op = req[r].op
              /\ [req[r] EXCEPT !.pc = pc].pc = pc
  BY DEF RouteInv, Records, IsRequest, Fields
<1>3. ASSUME NEW h \in {"read", "write", "list", "cmd"}, NEW x,
             StartCalls(r, <<h>>), req' = [req EXCEPT ![r] = x],
             IsRequest(x),
             x.op = req[r].op, x.pc \in PcsOf(req[r].op) \ {"idle", "round"},
             HelperAt(x.pc, [helper |-> h, left |-> 0])
      PROVE  StepOf(r)
  <2>1. h \in Helpers
    BY <1>3 DEF Helpers, Commands
  <2>2. /\ call' \in [Calls -> CallRecord]
        /\ \A q \in Reqs \ {r}, i \in {1, 2} : call'[<<q, i>>] = call[<<q, i>>]
        /\ call'[<<r, 1>>] = Begun(h) /\ call'[<<r, 2>>] = NoCall
    BY <1>3, <2>1, CallsStarted DEF RouteInv, Records
  <2>3. req'[r] = x
    BY <1>3 DEF RouteInv, Records
  <2>4. Control(r)'
    BY <1>1, <1>3, <2>2, <2>3, CallControlled
  <2>. QED
    BY <1>3, <2>2, <2>4, OneChanges

<1>4. CASE EnterLock(r)
  <2>1. /\ req' = [req EXCEPT ![r] = [req[r] EXCEPT !.pc = "read"]]
        /\ StartCalls(r, <<"read">>)
    BY <1>4 DEF EnterLock
  <2>2. "read" \in PcsOf(req[r].op)
    BY <1>1, <1>4 DEF EnterLock, PcsOf, EditOps
  <2>3. HelperAt("read", [helper |-> "read", left |-> 0])
    BY DEF HelperAt
  <2>. QED
    BY <1>2, <1>3, <2>1, <2>2, <2>3
<1>5. CASE BeginSkillPut(r)
  <2>1. /\ req' = [req EXCEPT ![r] = [req[r] EXCEPT !.pc = "list"]]
        /\ StartCalls(r, <<"list">>)
    BY <1>5 DEF BeginSkillPut
  <2>2. "list" \in PcsOf(req[r].op)
    BY <1>1, <1>5 DEF BeginSkillPut, PcsOf, EditOps
  <2>3. HelperAt("list", [helper |-> "list", left |-> 0])
    BY DEF HelperAt
  <2>. QED
    BY <1>2, <1>3, <2>1, <2>2, <2>3
<1>6. CASE WriteSkill(r)
  <2>1. /\ req' = [req EXCEPT ![r] = [req[r] EXCEPT !.pc = "write"]]
        /\ StartCalls(r, <<"write">>)
    BY <1>6 DEF WriteSkill
  <2>2. "write" \in PcsOf(req[r].op)
    BY <1>1, <1>6 DEF WriteSkill, PcsOf, EditOps
  <2>3. HelperAt("write", [helper |-> "write", left |-> 0])
    BY DEF HelperAt
  <2>. QED
    BY <1>2, <1>3, <2>1, <2>2, <2>3
<1>7. CASE BeginGateway(r)
  <2>1. /\ req' = [req EXCEPT ![r] = [req[r] EXCEPT !.pc = "command"]]
        /\ StartCalls(r, <<"cmd">>)
    BY <1>7 DEF BeginGateway
  <2>2. "command" \in PcsOf(req[r].op)
    BY <1>1, <1>7 DEF BeginGateway, PcsOf, EditOps
  <2>3. HelperAt("command", [helper |-> "cmd", left |-> 0])
    BY DEF HelperAt
  <2>. QED
    BY <1>2, <1>3, <2>1, <2>2, <2>3
<1>8. CASE Edit(r)
  <2>. DEFINE g == Made(r, Read(r))
              o == Edited(AsList(Read(r)), req[r].op, g)
              x == [req[r] EXCEPT !.pc = "write", !.arg = g, !.saw = Read(r), !.out = o]
  <2>1. /\ req' = [req EXCEPT ![r] = x]
        /\ StartCalls(r, <<"write">>)
    BY <1>8 DEF Edit
  <2>2. "write" \in PcsOf(req[r].op)
    BY <1>1, <1>8 DEF Edit, PcsOf, EditOps
  <2>3. HelperAt("write", [helper |-> "write", left |-> 0])
    BY DEF HelperAt
  <2>. HIDE DEF o, g
  <2>4. /\ IsRequest(x)
        /\ x.op = req[r].op /\ x.pc = "write"
    BY DEF RouteInv, Records, IsRequest, Fields
  <2>. HIDE DEF x
  <2>. QED
    BY <1>3, <2>1, <2>2, <2>3, <2>4
<1>. QED
  BY <1>4, <1>5, <1>6, <1>7, <1>8

\* Request r alone changes, but for what the others wait for and which file
\* they have open.
LEMMA LittleChanges ==
  ASSUME RouteInv, NEW r \in Reqs, Control(r)', NEW f,
         req' = [q \in Reqs |-> f[q]], \A q \in Reqs : IsRequest(f[q]),
         \A q \in Reqs \ {r} : \A k \in Fields \ {"after", "at"} : f[q][k] = req[q][k],
         call' \in [Calls -> CallRecord],
         \A q \in Reqs \ {r}, i \in {1, 2} : call'[<<q, i>>] = call[<<q, i>>]
  PROVE  StepOf(r)
<1>1. \A q \in Reqs : req'[q] = f[q]
  OBVIOUS
<1>2. Records'
  BY <1>1 DEF Records
<1>. QED
  BY <1>1, <1>2 DEF StepOf, Keeps, Fields

\* A route that reads goes on to a round.
LEMMA ReadSteps ==
  ASSUME RouteInv, NEW r \in Reqs, BeginReading(r) \/ NextRound(r)
  PROVE  StepOf(r)
<1>1. req[r].op \in Ops /\ req[r].pc \in PcsOf(req[r].op) /\ IsRequest(req[r])
  BY DEF RouteInv, Control, Records
<1>2. ASSUME NEW k \in 1..Len(ReadRoutes[req[r].op]), req[r].op \in DOMAIN ReadRoutes,
             StartRound(r, ReadRoutes[req[r].op][k]), NEW x, IsRequest(x),
             x.op = req[r].op, x.pc = "round", x.round = k,
             req' = [req EXCEPT ![r] = x]
      PROVE  StepOf(r)
  <2>1. /\ call' \in [Calls -> CallRecord]
        /\ \A q \in Reqs \ {r}, i \in {1, 2} : call'[<<q, i>>] = call[<<q, i>>]
        /\ \A i \in {1, 2} :
             \/ call'[<<r, i>>] = NoCall
             \/ \E h \in Helpers \ {"write"} :
                  call'[<<r, i>>] \in {Begun(h), Skipped(h)}
    BY <1>2, ReadOnly, RoundStarted DEF RouteInv, Records
  <2>2. \A h \in Helpers \ {"write"} : CallAt("round", Begun(h)) /\ CallAt("round", Skipped(h))
    BY DEF CallAt, HelperAt, Begun, Skipped
  <2>3. CallAt("round", NoCall)
    BY DEF CallAt, NoCall
  <2>4. \A i \in {1, 2} : CallAt("round", call'[<<r, i>>])
    BY <2>1, <2>2, <2>3
  <2>5. "round" \in PcsOf(req[r].op)
    BY <1>2, ReadersOnly DEF PcsOf
  <2>6. k \in Nat \ {0}
    OBVIOUS
  <2>7. req'[r] = x
    BY <1>2 DEF RouteInv, Records
  <2>8. Control(r)'
    BY <1>1, <1>2, <2>4, <2>5, <2>6, <2>7 DEF Control
  <2>. QED
    BY <1>2, <2>1, <2>8, OneChanges
<1>3. CASE BeginReading(r)
  <2>. DEFINE x == [req[r] EXCEPT !.pc = "round", !.round = 1]
  <2>1. /\ req' = [req EXCEPT ![r] = x]
        /\ req[r].op \in DOMAIN ReadRoutes
        /\ StartRound(r, ReadRoutes[req[r].op][1])
    BY <1>3 DEF BeginReading
  <2>2. 1 \in 1..Len(ReadRoutes[req[r].op])
    BY <2>1, ReadersOnly
  <2>3. IsRequest(x) /\ x.op = req[r].op /\ x.pc = "round" /\ x.round = 1
    BY <1>1 DEF IsRequest, Fields
  <2>. HIDE DEF x
  <2>. QED
    BY <1>2, <2>1, <2>2, <2>3
<1>4. CASE NextRound(r)
  <2>. DEFINE k == req[r].round + 1
              x == [req[r] EXCEPT !.round = k]
  <2>1. /\ req' = [req EXCEPT ![r] = x]
        /\ req[r].pc = "round"
        /\ req[r].round < Len(ReadRoutes[req[r].op])
        /\ StartRound(r, ReadRoutes[req[r].op][k])
    BY <1>4 DEF NextRound
  <2>2. req[r].op \in DOMAIN ReadRoutes
    BY <1>1, <2>1 DEF PcsOf, Ops, EditOps
  <2>3. Len(ReadRoutes[req[r].op]) \in Nat
    BY <2>2, ReadersOnly
  <2>4. req[r].round \in Nat \ {0}
    BY <2>1 DEF RouteInv, Control
  <2>5. k \in 1..Len(ReadRoutes[req[r].op])
    BY <2>1, <2>3, <2>4
  <2>. HIDE DEF k
  <2>6. IsRequest(x) /\ x.op = req[r].op /\ x.pc = "round" /\ x.round = k
    BY <1>1, <2>1 DEF IsRequest, Fields
  <2>. HIDE DEF x
  <2>. QED
    BY <1>2, <2>1, <2>2, <2>5, <2>6
<1>. QED
  BY <1>3, <1>4

\* A request is answered.
LEMMA EndSteps ==
  ASSUME RouteInv, NEW r \in Reqs,
         \/ EndReading(r) \/ EndSkillPut(r) \/ EndGateway(r)
         \/ EditRefused(r) \/ EndEdit(r)
  PROVE  StepOf(r)
<1>1. Done(r)
  BY DEF EndReading, EndSkillPut, EndGateway, EditRefused, EndEdit
<1>2. /\ call' \in [Calls -> CallRecord]
      /\ \A q \in Reqs \ {r}, i \in {1, 2} : call'[<<q, i>>] = call[<<q, i>>]
      /\ \A i \in {1, 2} : call'[<<r, i>>] = NoCall
  BY <1>1, CallsGone DEF RouteInv, Records
<1>3. CASE EndReading(r) \/ EndSkillPut(r) \/ EndGateway(r)
  <2>1. req' = [req EXCEPT ![r] = NotPosted]
    BY <1>3 DEF EndReading, EndSkillPut, EndGateway
  <2>2. req'[r] = NotPosted
    BY <2>1 DEF RouteInv, Records
  <2>3. Control(r)'
    BY <1>2, <2>2, EndsControlled
  <2>. QED
    BY <1>2, <2>1, <2>3, OneChanges, NotPostedIs
<1>4. CASE EditRefused(r) \/ EndEdit(r)
  <2>. DEFINE f == [q \in Reqs |->
                     IF q = r THEN NotPosted
                     ELSE IF req[q].after = r THEN [req[q] EXCEPT !.after = NoReq]
                     ELSE req[q]]
  <2>1. req' = [q \in Reqs |-> f[q]]
    BY <1>4 DEF EditRefused, EndEdit, Release
  <2>2. \A q \in Reqs : IsRequest([req[q] EXCEPT !.after = NoReq])
    BY DEF RouteInv, Records, IsRequest, Fields
  <2>3. \A q \in Reqs : IsRequest(f[q])
    BY <2>2, NotPostedIs DEF RouteInv, Records
  <2>4. \A q \in Reqs \ {r} : \A k \in Fields \ {"after", "at"} : f[q][k] = req[q][k]
    BY DEF RouteInv, Records, IsRequest, Fields
  <2>5. req'[r] = NotPosted
    BY <2>1
  <2>6. Control(r)'
    BY <1>2, <2>5, EndsControlled
  <2>. HIDE DEF f
  <2>. QED
    BY <1>2, <2>1, <2>3, <2>4, <2>6, LittleChanges
<1>. QED
  BY <1>3, <1>4

\* The cache holds a session or none, and what is open are sessions.
CacheInv ==
  /\ cache \in [ses : Sessions \cup {NoSes}, fresh : BOOLEAN]
  /\ open \subseteq Sessions

\* One helper call of r goes on, and may change what r has read, its after and
\* which file is open.
LEMMA LinkSteps ==
  ASSUME RouteInv, CacheInv, NEW r \in Reqs, CallStep(r)
  PROVE  StepOf(r)
<1>1. PICK i \in {1, 2} :
        \/ AskSession(r, i) \/ SessionOpens(r, i) \/ CallCutShort(r, i)
        \/ ReadJobs(r, i) \/ RunGateway(r, i) \/ RunOther(r, i)
        \/ CallAnswered(r, i)
  BY DEF CallStep
<1>. DEFINE c == <<r, i>>
<1>2. c \in Calls /\ call[c] \in CallRecord /\ call \in [Calls -> CallRecord]
  BY DEF RouteInv, Records, Calls
<1>3. Control(r) /\ CallAt(req[r].pc, call[c])
  BY DEF RouteInv, Control
<1>. HIDE DEF c
<1>4. ASSUME NEW x \in CallRecord, call' = [call EXCEPT ![c] = x],
             x.helper = call[c].helper, call[c].pc # "none",
             call[c].left = 0 => x.left = 0, x.pc # "none",
             x.pc \notin {"put", "mv"}, req' = req
      PROVE  StepOf(r)
  <2>1. Control(r)' /\ call' \in [Calls -> CallRecord]
        /\ \A q \in Reqs \ {r}, j \in {1, 2} : call'[<<q, j>>] = call[<<q, j>>]
    <3>1. /\ call' = [call EXCEPT ![<<r, i>>] = x]
          /\ x.helper = call[<<r, i>>].helper /\ call[<<r, i>>].pc # "none"
          /\ call[<<r, i>>].left = 0 => x.left = 0
      BY <1>4 DEF c
    <3>2. /\ req'[r].op = req[r].op /\ req'[r].pc = req[r].pc
          /\ req'[r].round = req[r].round
      BY <1>4
    <3>3. x.pc # "none" /\ (x.pc \in {"put", "mv"} => x.helper = "write")
      BY <1>4
    <3>4. Control(r) /\ call \in [Calls -> CallRecord] /\ x \in CallRecord
      BY <1>2, <1>3, <1>4
    <3>5. CASE i = 1
      BY <3>1, <3>2, <3>3, <3>4, <3>5, CallGoesOn
    <3>6. CASE i = 2
      BY <3>1, <3>2, <3>3, <3>4, <3>6, CallGoesOn
    <3>. QED
      BY <3>5, <3>6
  <2>. QED
    BY <1>4, <2>1, NoneChanges
<1>5. ASSUME NEW p \in {"exec", "answer", "connect"}, NEW s \in Sessions \cup {NoSes}
      PROVE  LET x == [call[c] EXCEPT !.pc = p, !.ses = s] IN
               /\ x \in CallRecord /\ x.helper = call[c].helper
               /\ x.left = call[c].left /\ x.pc = p
  BY <1>2 DEF CallRecord, CallPcs
<1>6. ASSUME NEW p \in {"exec", "answer", "connect"}
      PROVE  LET x == [call[c] EXCEPT !.pc = p] IN
               /\ x \in CallRecord /\ x.helper = call[c].helper
               /\ x.left = call[c].left /\ x.pc = p
  BY <1>2 DEF CallRecord, CallPcs
<1>7. ASSUME NEW ok \in BOOLEAN, call' = [call EXCEPT ![c] = After(c, ok)],
             call[c].pc # "none", req' = req
      PROVE  StepOf(r)
  BY <1>2, <1>4, <1>7, AfterIs
<1>8. CASE AskSession(r, i)
  <2>1. Acquire(c) /\ req' = req
    BY <1>8 DEF AskSession, routeVars, c
  <2>2. CASE cache.fresh
    <3>1. call' = [call EXCEPT ![c] = [call[c] EXCEPT !.pc = "exec", !.ses = cache.ses]]
      BY <2>1, <2>2, <1>2 DEF Acquire
    <3>2. cache.ses \in Sessions \cup {NoSes} /\ call[c].pc = "start"
      BY <2>1 DEF CacheInv, Acquire
    <3>. DEFINE x == [call[c] EXCEPT !.pc = "exec", !.ses = cache.ses]
    <3>3. /\ x \in CallRecord /\ x.helper = call[c].helper
          /\ x.left = call[c].left /\ x.pc = "exec"
      BY <1>5, <3>2
    <3>4. call' = [call EXCEPT ![c] = x]
      BY <3>1
    <3>. HIDE DEF x
    <3>. QED
      BY <1>4, <2>1, <3>2, <3>3, <3>4
  <2>3. CASE ~cache.fresh
    <3>1. /\ call' = [call EXCEPT ![c] = [call[c] EXCEPT !.pc = "connect"]]
          /\ call[c].pc = "start"
      BY <2>1, <2>3, <1>2 DEF Acquire
    <3>. QED
      BY <1>4, <1>6, <2>1, <3>1
  <2>. QED
    BY <2>2, <2>3
<1>9. CASE SessionOpens(r, i)
  <2>1. Connect(c) /\ req' = req
    BY <1>9 DEF SessionOpens, routeVars, c
  <2>2. PICK s \in Sessions : call' = [call EXCEPT ![c].pc = "exec", ![c].ses = s]
    BY <2>1 DEF Connect, Unused
  <2>3. /\ call' = [call EXCEPT ![c] = [call[c] EXCEPT !.pc = "exec", !.ses = s]]
        /\ call[c].pc = "connect"
    BY <2>1, <2>2, <1>2 DEF Connect
  <2>. DEFINE x == [call[c] EXCEPT !.pc = "exec", !.ses = s]
  <2>4. /\ x \in CallRecord /\ x.helper = call[c].helper
        /\ x.left = call[c].left /\ x.pc = "exec"
    BY <1>5
  <2>5. call' = [call EXCEPT ![c] = x] /\ call[c].pc # "none"
    BY <2>3
  <2>. HIDE DEF x
  <2>. QED
    BY <1>4, <2>1, <2>4, <2>5
<1>10. CASE CallCutShort(r, i)
  <2>1. /\ call' = [call EXCEPT ![c] = After(c, FALSE)]
           \/ call' = [call EXCEPT ![c] = After(c, TRUE)]
        /\ call[c].pc # "none" /\ req' = req
    BY <1>10 DEF CallCutShort, ConnectFails, Refused, SkipPython, routeVars, c
  <2>. QED
    BY <1>7, <2>1
<1>11. CASE CallAnswered(r, i)
  <2>. DEFINE ok == call[c].ses \in open
  <2>1. /\ call' = [call EXCEPT ![c] = After(c, ok)]
        /\ call[c].pc # "none" /\ req' = req
    BY <1>11 DEF CallAnswered, Answer, routeVars, c
  <2>2. ok \in BOOLEAN
    OBVIOUS
  <2>. HIDE DEF ok
  <2>. QED
    BY <1>7, <2>1, <2>2
<1>12. ASSUME Run(c)
       PROVE  /\ call' = [call EXCEPT ![c] = [call[c] EXCEPT !.pc = "answer"]]
              /\ call[c].pc # "none"
  BY <1>2, <1>12 DEF Run
<1>13. CASE RunGateway(r, i) \/ RunOther(r, i)
  <2>1. Run(c) /\ req' = req
    BY <1>13 DEF RunGateway, RunOther, routeVars, c
  <2>. QED
    BY <1>4, <1>6, <1>12, <2>1
<1>14. CASE ReadJobs(r, i)
  <2>. DEFINE x == [call[c] EXCEPT !.pc = "answer"]
              y == [req[r] EXCEPT !.saw = jobs]
  <2>1. Run(c) /\ req' = [req EXCEPT ![r] = y]
    BY <1>14 DEF ReadJobs, c
  <2>2. /\ IsRequest(y) /\ y.op = req[r].op /\ y.pc = req[r].pc
        /\ y.round = req[r].round
    BY DEF RouteInv, Records, IsRequest, Fields
  <2>. HIDE DEF y
  <2>3. req'[r] = y
    BY <2>1 DEF RouteInv, Records
  <2>4. /\ x \in CallRecord /\ x.helper = call[c].helper
        /\ x.left = call[c].left /\ x.pc = "answer"
    BY <1>6
  <2>5. call' = [call EXCEPT ![c] = x] /\ call[c].pc # "none"
    BY <1>12, <2>1
  <2>. HIDE DEF x
  <2>6. Control(r)' /\ call' \in [Calls -> CallRecord]
        /\ \A q \in Reqs \ {r}, j \in {1, 2} : call'[<<q, j>>] = call[<<q, j>>]
    BY <1>2, <1>3, <2>2, <2>3, <2>4, <2>5, CallGoesOn DEF c
  <2>. QED
    BY <2>1, <2>2, <2>6, OneChanges
<1>. QED
  BY <1>1, <1>8, <1>9, <1>10, <1>11, <1>13, <1>14

\* The requests are as before but for what they wait for and which file they
\* have open.
OnlyMoves ==
  /\ req' = [q \in Reqs |-> req'[q]]
  /\ \A q \in Reqs : IsRequest(req'[q])
  /\ \A q \in Reqs : \A k \in Fields \ {"after", "at"} : req'[q][k] = req[q][k]

\* An upload of r, and the mv after it, goes on.
LEMMA UploadSteps ==
  ASSUME RouteInv, NEW r \in Reqs, OpenTmp(r) \/ FillTmp(r) \/ Mv(r)
  PROVE  StepOf(r)
<1>. DEFINE c == <<r, 1>>
<1>1. c \in Calls /\ call[c] \in CallRecord /\ call \in [Calls -> CallRecord]
  BY DEF RouteInv, Records, Calls
<1>2. Control(r) /\ CallAt(req[r].pc, call[c])
  BY DEF RouteInv, Control
<1>. HIDE DEF c
<1>3. call[c].pc \in {"exec", "put", "mv"} /\ call[c].helper = "write"
  BY <1>2 DEF OpenTmp, FillTmp, Mv, CallAt, c
<1>4. ASSUME NEW p \in {"put", "mv", "answer"}
      PROVE  LET x == [call[c] EXCEPT !.pc = p] IN
               /\ x \in CallRecord /\ x.helper = call[c].helper
               /\ x.left = call[c].left /\ x.pc = p
  BY <1>1 DEF CallRecord, CallPcs
<1>5. ASSUME NEW x \in CallRecord, call' = [call EXCEPT ![c] = x],
              x.helper = call[c].helper, call[c].left = 0 => x.left = 0, x.pc # "none",
              req'[r].op = req[r].op, req'[r].pc = req[r].pc,
              req'[r].round = req[r].round
       PROVE  /\ Control(r)' /\ call' \in [Calls -> CallRecord]
              /\ \A q \in Reqs \ {r}, j \in {1, 2} : call'[<<q, j>>] = call[<<q, j>>]
  <2>1. /\ call' = [call EXCEPT ![<<r, 1>>] = x]
        /\ x.helper = call[<<r, 1>>].helper /\ call[<<r, 1>>].pc # "none"
        /\ call[<<r, 1>>].left = 0 => x.left = 0
    BY <1>3, <1>5 DEF c
  <2>2. x.pc # "none" /\ (x.pc \in {"put", "mv"} => x.helper = "write")
    BY <1>3, <1>5
  <2>3. Control(r) /\ call \in [Calls -> CallRecord] /\ x \in CallRecord
    BY <1>1, <1>2, <1>5
  <2>4. /\ req'[r].op = req[r].op /\ req'[r].pc = req[r].pc
        /\ req'[r].round = req[r].round
    BY <1>5
  <2>. QED
    BY <2>1, <2>2, <2>3, <2>4, CallGoesOn
<1>6. ASSUME NEW x \in CallRecord, call' = [call EXCEPT ![c] = x],
             x.helper = call[c].helper, call[c].left = 0 => x.left = 0, x.pc # "none",
             OnlyMoves
      PROVE  StepOf(r)
  <2>1. /\ req'[r].op = req[r].op /\ req'[r].pc = req[r].pc
        /\ req'[r].round = req[r].round
    BY <1>6 DEF OnlyMoves, Fields
  <2>2. Control(r)' /\ call' \in [Calls -> CallRecord]
        /\ \A q \in Reqs \ {r}, j \in {1, 2} : call'[<<q, j>>] = call[<<q, j>>]
    BY <1>6, <1>5, <2>1
  <2>. QED
    BY <1>6, <2>2, LittleChanges DEF OnlyMoves
<1>7. /\ req = [q \in Reqs |-> req[q]]
      /\ \A q \in Reqs : IsRequest(req[q])
  BY DEF RouteInv, Records
<1>8. ASSUME NEW p \in {"put", "mv", "answer"}, call' = [call EXCEPT ![c].pc = p],
             OnlyMoves
      PROVE  StepOf(r)
  <2>. DEFINE x == [call[c] EXCEPT !.pc = p]
  <2>1. /\ x \in CallRecord /\ x.helper = call[c].helper
        /\ x.left = call[c].left /\ x.pc = p
    BY <1>4
  <2>2. call' = [call EXCEPT ![c] = x]
    BY <1>1, <1>8
  <2>. HIDE DEF x
  <2>3. call[c].left = 0 => x.left = 0
    BY <2>1
  <2>4. x.pc # "none"
    BY <2>1
  <2>. QED
    BY <1>6, <1>8, <2>1, <2>2, <2>3, <2>4
<1>9. \A q \in Reqs : \A a : /\ IsRequest([req[q] EXCEPT !.at = a])
                            /\ \A k \in Fields \ {"after", "at"} :
                                 [req[q] EXCEPT !.at = a][k] = req[q][k]
  BY <1>7 DEF IsRequest, Fields
<1>10. req' = req => OnlyMoves
  BY <1>7 DEF OnlyMoves
<1>11. ASSUME \A q \in Reqs : req'[q] = req[q] \/ \E a : req'[q] = [req[q] EXCEPT !.at = a],
              req' = [q \in Reqs |-> req'[q]]
       PROVE  OnlyMoves
  <2>1. ASSUME NEW q \in Reqs
        PROVE  IsRequest(req'[q])
    <3>1. CASE req'[q] = req[q]
      BY <1>7, <3>1
    <3>2. CASE \E a : req'[q] = [req[q] EXCEPT !.at = a]
      <4>1. PICK a : req'[q] = [req[q] EXCEPT !.at = a]
        BY <3>2
      <4>2. IsRequest([req[q] EXCEPT !.at = a])
        BY <1>9
      <4>. QED
        BY <4>1, <4>2
    <3>. QED
      BY <1>11, <3>1, <3>2
  <2>2. ASSUME NEW q \in Reqs, NEW k \in Fields \ {"after", "at"}
        PROVE  req'[q][k] = req[q][k]
    <3>1. CASE req'[q] = req[q]
      BY <3>1
    <3>2. CASE \E a : req'[q] = [req[q] EXCEPT !.at = a]
      BY <1>9, <3>2
    <3>. QED
      BY <1>11, <3>1, <3>2
  <2>. QED
    BY <1>11, <2>1, <2>2 DEF OnlyMoves
<1>12. CASE OpenTmp(r)
  <2>1. call' = [call EXCEPT ![c].pc = "put"] /\ req' = [req EXCEPT ![r].at = "tmp"]
    BY <1>12 DEF OpenTmp, c
  <2>2. req' = [req EXCEPT ![r] = [req[r] EXCEPT !.at = "tmp"]]
    BY <2>1
  <2>3. /\ req' = [q \in Reqs |-> req'[q]]
        /\ \A q \in Reqs : req'[q] = IF q = r THEN [req[r] EXCEPT !.at = "tmp"] ELSE req[q]
    BY <1>7, <2>2
  <2>4. OnlyMoves
    BY <1>11, <2>3
  <2>. QED
    BY <1>8, <2>1, <2>4
<1>13. CASE FillTmp(r)
  <2>1. call' = [call EXCEPT ![c].pc = "mv"] /\ req' = req
    BY <1>13 DEF FillTmp, c
  <2>. QED
    BY <1>8, <1>10, <2>1
<1>14. CASE Mv(r)
  <2>1. CASE tmp[Target(r)].there
    <3>1. call' = [call EXCEPT ![c].pc = "answer"] /\ req' = Moved(Target(r))
      BY <1>14, <2>1 DEF Mv, c
    <3>2. /\ req' = [q \in Reqs |-> req'[q]]
          /\ \A q \in Reqs : req'[q] = req[q] \/ \E a : req'[q] = [req[q] EXCEPT !.at = a]
      BY <3>1 DEF Moved
    <3>3. OnlyMoves
      BY <1>11, <3>2
    <3>. QED
      BY <1>8, <3>1, <3>3
  <2>2. CASE ~tmp[Target(r)].there
    <3>1. call' = [call EXCEPT ![c] = After(c, FALSE)] /\ req' = req
      BY <1>14, <2>2 DEF Mv, c
    <3>2. /\ After(c, FALSE) \in CallRecord /\ After(c, FALSE).helper = call[c].helper
          /\ After(c, FALSE).pc # "none"
          /\ call[c].left = 0 => After(c, FALSE).left = 0
      BY <1>1, AfterIs
    <3>. QED
      BY <1>6, <1>10, <3>1, <3>2
  <2>. QED
    BY <2>1, <2>2
<1>. QED
  BY <1>12, <1>13, <1>14

\* Every step of the dashboard is one request's, or changes neither requests nor
\* calls.
LEMMA OneSteps ==
  ASSUME RouteInv, CacheInv, NEW r \in Reqs,
         (\E op \in Ops : \E arg : Post(r, op, arg)) \/ RequestStep(r)
  PROVE  StepOf(r)
BY PostSteps, ReadSteps, EndSteps, CallSteps, LinkSteps, UploadSteps DEF RequestStep

\* Sessions come from the sessions there are.
LEMMA CacheInvStep == CacheInv /\ [DashboardNext]_RoutesVars => CacheInv'
<1>. SUFFICES ASSUME CacheInv, [DashboardNext]_RoutesVars
              PROVE  CacheInv'
  OBVIOUS
<1>1. Empty \in [ses : Sessions \cup {NoSes}, fresh : BOOLEAN]
  BY DEF Empty
<1>2. CASE \E r \in Reqs, op \in Ops : \E arg : Post(r, op, arg)
  BY <1>2 DEF CacheInv, Post, linkVars
<1>3. CASE \E r \in Reqs : RequestStep(r)
  <2>1. PICK r \in Reqs : RequestStep(r)
    BY <1>3
  <2>2. CASE CallStep(r)
    <3>1. PICK i \in {1, 2} :
            \/ AskSession(r, i) \/ SessionOpens(r, i) \/ CallCutShort(r, i)
            \/ ReadJobs(r, i) \/ RunGateway(r, i) \/ RunOther(r, i)
            \/ CallAnswered(r, i)
      BY <2>2 DEF CallStep
    <3>2. CASE AskSession(r, i)
      BY <1>1, <3>2 DEF CacheInv, AskSession, Acquire
    <3>3. CASE SessionOpens(r, i)
      <4>1. PICK s \in Sessions : open' = open \cup {s} /\ cache' = [ses |-> s, fresh |-> TRUE]
        BY <3>3 DEF SessionOpens, Connect, Unused
      <4>. QED
        BY <4>1 DEF CacheInv
    <3>4. CASE CallCutShort(r, i) \/ ReadJobs(r, i) \/ RunGateway(r, i) \/ RunOther(r, i)
               \/ CallAnswered(r, i)
      <4>1. UNCHANGED <<cache, open>>
        BY <3>4 DEF CallCutShort, ConnectFails, Refused, SkipPython, ReadJobs, RunGateway,
          RunOther, Run, CallAnswered, Answer
      <4>. QED
        BY <4>1 DEF CacheInv
    <3>. QED
      BY <3>1, <3>2, <3>3, <3>4
  <2>3. CASE ~CallStep(r)
    <3>1. UNCHANGED <<cache, open>>
      BY <2>1, <2>3 DEF RequestStep, NotFound, BeginReading, NextRound, EndReading, Enqueue,
        EnterLock, Edit, EditRefused, EndEdit, BeginSkillPut, WriteSkill, EndSkillPut,
        BeginGateway, EndGateway, OpenTmp, FillTmp, Mv, Done, LinkUnchanged, linkVars
    <3>. QED
      BY <3>1 DEF CacheInv
  <2>. QED
    BY <2>2, <2>3
<1>4. CASE (Expire \/ Break) /\ UNCHANGED <<boxVars, routeVars>>
  BY <1>4 DEF CacheInv, Expire, Break
<1>5. CASE UNCHANGED RoutesVars
  BY <1>5 DEF CacheInv, RoutesVars, linkVars
<1>. QED
  BY <1>2, <1>3, <1>4, <1>5 DEF DashboardNext

\* A request stays on its route, with the calls of where it is.
LEMMA RouteInvStep ==
  RouteInv /\ CacheInv /\ [DashboardNext]_RoutesVars => RouteInv'
<1>. SUFFICES ASSUME RouteInv, CacheInv, [DashboardNext]_RoutesVars
              PROVE  RouteInv'
  OBVIOUS
<1>1. ASSUME NEW r \in Reqs, StepOf(r)
      PROVE  RouteInv'
  <2>1. ASSUME NEW q \in Reqs \ {r}
        PROVE  Control(q)'
    BY <1>1, <2>1 DEF StepOf, Keeps, Control, RouteInv
  <2>. QED
    BY <1>1, <2>1 DEF StepOf, RouteInv
<1>2. CASE \E r \in Reqs, op \in Ops : \E arg : Post(r, op, arg)
  BY <1>1, <1>2, OneSteps
<1>3. CASE \E r \in Reqs : RequestStep(r)
  BY <1>1, <1>3, OneSteps
<1>4. CASE \/ (Expire \/ Break) /\ UNCHANGED <<boxVars, routeVars>>
           \/ UNCHANGED RoutesVars
  <2>1. UNCHANGED <<req, call>>
    BY <1>4 DEF Expire, Break, RoutesVars, linkVars, routeVars
  <2>. QED
    BY <2>1 DEF RouteInv, Records, Control
<1>. QED
  BY <1>2, <1>3, <1>4 DEF DashboardNext

-------------------------------------------------------------------------------
(* The invariants *)

\* Nothing is open but the cached session, nothing at all while a call connects,
\* and one call connects at a time, until two have missed at once.
LinkInv ==
  ~raced =>
    /\ open \subseteq {cache.ses}
    /\ \A c \in Calls : call[c].pc = "connect" => open = {}
    /\ \A c, d \in Calls : call[c].pc = "connect" /\ call[d].pc = "connect" => c = d

\* The requests between Enqueue and Release.
InLine(r) == req[r].op \in EditOps /\ req[r].pc \in {"queue", "read", "write"}

\* The first n places of q are the requests in line, each once; each waits for
\* the one before it, only the first can be in the lock, and the last is in the
\* table.
LineUp(q, n) ==
  /\ \A i \in 1..n : q[i] \in Reqs /\ InLine(q[i])
  /\ \A r \in Reqs : InLine(r) => \E i \in 1..n : q[i] = r
  /\ \A i, j \in 1..n : q[i] = q[j] => i = j
  /\ \A i \in 1..n : req[q[i]].after = IF i = 1 THEN NoReq ELSE q[i - 1]
  /\ \A i \in 1..n : InLock(q[i]) => i = 1
  /\ tail = IF n = 0 THEN NoReq ELSE q[n]

LineInv ==
  /\ \E n \in Nat : \E q \in [1..n -> Reqs] : LineUp(q, n)
  /\ \A r \in Reqs : ~InLine(r) => req[r].after = NoReq

\* A .tmp file that r uploads.
Upload(r, whole, list, shared) ==
  [there |-> TRUE, whole |-> whole, by |-> r, list |-> list, shared |-> shared]

\* The uploads of jobs.json: the one who is in the lock is the only one to write its
\* .tmp file, and finds it where it left it, whole before the mv.
UploadInv ==
  /\ tmp = [f \in Targets |-> tmp[f]]
  /\ \A r \in Reqs :
       req[r].op \in EditOps =>
         /\ call[<<r, 1>>].pc = "put" => req[r].at = "tmp" /\ tmp["jobs"].shared = FALSE
         /\ call[<<r, 1>>].pc = "mv" => tmp["jobs"] = Upload(r, TRUE, req[r].out, FALSE)

\* While only the dashboard writes jobs.json: what an edit has read is what is
\* there until its own mv, and what it writes is the edit of that.
EditInv ==
  \A r \in Reqs :
    /\ /\ req[r].pc = "read"
       /\ call[<<r, 1>>].pc = "answer" \/ (call[<<r, 1>>].pc = "done" /\ call[<<r, 1>>].ok)
       => req[r].saw = jobs
    /\ req[r].pc = "write" /\ req[r].op \in EditOps =>
         /\ req[r].out = Edited(AsList(req[r].saw), req[r].op, req[r].arg)
         /\ call[<<r, 1>>].pc \in {"start", "connect", "exec", "put", "mv"} =>
              req[r].saw = jobs \/ (req[r].op = "create" /\ req[r].saw = NoFile)

\* The requests that have a skill file open at f.
SkillOpen(r, f) ==
  req[r].op = "skillPut" /\ call[<<r, 1>>].pc = "put" /\ req[r].at = f

\* A skill file that is not whole, and a .tmp file of it, is still being filled,
\* unless a session was gone under the upload or two had the file open.
SkillInv ==
  ~cut =>
    /\ ~skill.whole /\ ~skill.shared => \E r \in Reqs : SkillOpen(r, "file")
    /\ tmp["skill"].there /\ ~tmp["skill"].whole /\ ~tmp["skill"].shared
         => \E r \in Reqs : SkillOpen(r, "tmp")

-------------------------------------------------------------------------------
(* The cached session *)

\* At first nothing is open and nobody connects.
LEMMA LinkInvInit == LinkInit => LinkInv
BY DEF LinkInit, LinkInv, NoCall

\* Calls that are started, skipped or gone do not connect.
LEMMA NotConnecting ==
  ASSUME NEW r \in Reqs,
         \/ Done(r)
         \/ \E h : StartCalls(r, <<h>>)
         \/ \E hs : StartRound(r, hs)
  PROVE  \A c \in Calls : call'[c].pc = "connect" => call'[c] = call[c]
<1>1. NoCall.pc # "connect" /\ \A h : Begun(h).pc # "connect" /\ Skipped(h).pc # "connect"
  BY DEF NoCall, Begun, Skipped
<1>2. CASE Done(r)
  BY <1>1, <1>2 DEF Done
<1>3. CASE \E h : StartCalls(r, <<h>>)
  BY <1>1, <1>3 DEF StartCalls
<1>4. CASE \E hs : StartRound(r, hs)
  BY <1>1, <1>4 DEF StartRound
<1>. QED
  BY <1>2, <1>3, <1>4

\* As long as no two calls missed at once, the cached session is the only one
\* open, whatever the requests do, expires or breaks.
LEMMA LinkInvStep ==
  RouteInv /\ CacheInv /\ LinkInv /\ [DashboardNext]_RoutesVars => LinkInv'
<1>. SUFFICES ASSUME RouteInv, CacheInv, LinkInv, [DashboardNext]_RoutesVars
              PROVE  LinkInv'
  OBVIOUS
<1>1. ASSUME raced' = raced, open' \subseteq open, cache'.ses = cache.ses,
             \A c \in Calls : call'[c].pc = "connect" => call[c].pc = "connect"
      PROVE  LinkInv'
  BY <1>1 DEF LinkInv
<1>2. CASE \E r \in Reqs, op \in Ops : \E arg : Post(r, op, arg)
  BY <1>1, <1>2 DEF Post, linkVars
<1>3. ASSUME NEW r \in Reqs, RequestStep(r)
      PROVE  LinkInv'
  <2>1. CASE CallStep(r)
    <3>1. PICK i \in {1, 2} :
            \/ AskSession(r, i) \/ SessionOpens(r, i) \/ CallCutShort(r, i)
            \/ ReadJobs(r, i) \/ RunGateway(r, i) \/ RunOther(r, i)
            \/ CallAnswered(r, i)
      BY <2>1 DEF CallStep
    <3>. DEFINE c == <<r, i>>
    <3>2. c \in Calls /\ call \in [Calls -> CallRecord]
      BY DEF RouteInv, Records, Calls
    <3>. HIDE DEF c
    <3>3. \A d \in Calls : call[d] \in CallRecord
      BY <3>2
    <3>4. CASE AskSession(r, i)
      <4>1. Acquire(c)
        BY <3>4 DEF AskSession, c
      <4>2. CASE cache.fresh
        <5>1. call'[c].pc = "exec" /\ \A d \in Calls \ {c} : call'[d] = call[d]
          BY <4>1, <4>2, <3>2, <3>3 DEF Acquire, CallRecord
        <5>2. (~raced' => ~raced) /\ open' = open /\ cache' = cache
          BY <4>1, <4>2 DEF Acquire
        <5>. QED
          BY <5>1, <5>2 DEF LinkInv
      <4>3. CASE ~cache.fresh
        <5>1. call'[c].pc = "connect" /\ \A d \in Calls \ {c} : call'[d] = call[d]
          BY <4>1, <4>3, <3>2, <3>3 DEF Acquire, CallRecord
        <5>2. /\ open' = open \ {cache.ses}
              /\ ~raced' => ~raced /\ \A d \in Calls : call[d].pc # "connect"
          BY <4>1, <4>3 DEF Acquire
        <5>. QED
          BY <5>1, <5>2 DEF LinkInv
      <4>. QED
        BY <4>2, <4>3
    <3>5. CASE SessionOpens(r, i)
      <4>1. Connect(c)
        BY <3>5 DEF SessionOpens, c
      <4>2. PICK s : /\ open' = open \cup {s} /\ cache' = [ses |-> s, fresh |-> TRUE]
                     /\ call' = [call EXCEPT ![c].pc = "exec", ![c].ses = s]
                     /\ raced' = raced
        BY <4>1 DEF Connect
      <4>3. call'[c].pc = "exec" /\ \A d \in Calls \ {c} : call'[d] = call[d]
        BY <4>2, <3>2, <3>3 DEF CallRecord
      <4>4. call[c].pc = "connect" /\ cache'.ses = s
        BY <4>1, <4>2 DEF Connect
      <4>. QED
        BY <3>2, <4>2, <4>3, <4>4 DEF LinkInv
    <3>6. CASE \/ CallCutShort(r, i) \/ ReadJobs(r, i) \/ RunGateway(r, i)
               \/ RunOther(r, i) \/ CallAnswered(r, i)
      <4>1. UNCHANGED <<cache, open, raced>>
        BY <3>6 DEF CallCutShort, ConnectFails, Refused, SkipPython, ReadJobs, RunGateway,
           RunOther, Run, CallAnswered, Answer
      <4>2. \/ call' = [call EXCEPT ![c] = After(c, FALSE)]
            \/ call' = [call EXCEPT ![c] = After(c, TRUE)]
            \/ call' = [call EXCEPT ![c] = After(c, call[c].ses \in open)]
            \/ call' = [call EXCEPT ![c].pc = "answer"]
        BY <3>6 DEF CallCutShort, ConnectFails, Refused, SkipPython, ReadJobs, RunGateway,
           RunOther, Run, CallAnswered, Answer, c
      <4>3. /\ After(c, FALSE).pc # "connect" /\ After(c, TRUE).pc # "connect"
            /\ After(c, call[c].ses \in open).pc # "connect"
        BY <3>3, <3>2 DEF After, CallRecord
      <4>4. call'[c].pc # "connect" /\ \A d \in Calls \ {c} : call'[d] = call[d]
        BY <4>2, <4>3, <3>2, <3>3 DEF CallRecord
      <4>. QED
        BY <1>1, <4>1, <4>4
    <3>. QED
      BY <3>1, <3>4, <3>5, <3>6
  <2>2. CASE OpenTmp(r) \/ FillTmp(r) \/ Mv(r)
    <3>. DEFINE c == <<r, 1>>
    <3>1. c \in Calls /\ call \in [Calls -> CallRecord]
      BY DEF RouteInv, Records, Calls
    <3>. HIDE DEF c
    <3>2. call[c] \in CallRecord
      BY <3>1
    <3>3. UNCHANGED <<cache, open, raced>>
      BY <2>2 DEF OpenTmp, FillTmp, Mv, LinkUnchanged
    <3>4. \/ call' = [call EXCEPT ![c] = After(c, FALSE)]
          \/ \E p \in {"put", "mv", "answer"} : call' = [call EXCEPT ![c].pc = p]
      BY <2>2 DEF OpenTmp, FillTmp, Mv, c
    <3>5. After(c, FALSE).pc # "connect"
      BY <3>2 DEF After, CallRecord
    <3>6. call'[c].pc # "connect" /\ \A d \in Calls \ {c} : call'[d] = call[d]
      BY <3>1, <3>2, <3>4, <3>5 DEF CallRecord
    <3>. QED
      BY <1>1, <3>3, <3>6
  <2>3. CASE NotFound(r) \/ Enqueue(r)
    BY <1>1, <2>3 DEF NotFound, Enqueue, linkVars
  <2>4. CASE \/ BeginReading(r) \/ NextRound(r) \/ EndReading(r) \/ EnterLock(r)
             \/ Edit(r) \/ EditRefused(r) \/ EndEdit(r) \/ BeginSkillPut(r)
             \/ WriteSkill(r) \/ EndSkillPut(r) \/ BeginGateway(r) \/ EndGateway(r)
    <3>1. \/ Done(r)
          \/ \E h : StartCalls(r, <<h>>)
          \/ \E hs : StartRound(r, hs)
      BY <2>4 DEF BeginReading, NextRound, EndReading, EnterLock, Edit, EditRefused,
         EndEdit, BeginSkillPut, WriteSkill, EndSkillPut, BeginGateway, EndGateway
    <3>2. UNCHANGED <<cache, open, raced>>
      BY <2>4 DEF BeginReading, NextRound, EndReading, EnterLock, Edit, EditRefused,
         EndEdit, BeginSkillPut, WriteSkill, EndSkillPut, BeginGateway, EndGateway,
         Done, LinkUnchanged
    <3>. QED
      BY <1>1, <3>1, <3>2, NotConnecting
  <2>. QED
    BY <1>3, <2>1, <2>2, <2>3, <2>4 DEF RequestStep
<1>4. CASE (Expire \/ Break) /\ UNCHANGED <<boxVars, routeVars>>
  <2>1. cache'.ses = cache.ses
    BY <1>4 DEF CacheInv, Expire, Break
  <2>. QED
    BY <1>1, <1>4, <2>1 DEF Expire, Break
<1>5. CASE UNCHANGED RoutesVars
  BY <1>1, <1>5 DEF RoutesVars, linkVars
<1>. QED
  BY <1>2, <1>3, <1>4, <1>5 DEF DashboardNext

-------------------------------------------------------------------------------
(* The lock *)

\* At first nobody is in line.
LEMMA LineInvInit == RoutesInit => LineInv
<1>. SUFFICES ASSUME RoutesInit
              PROVE  LineInv
  OBVIOUS
<1>1. \A r \in Reqs : ~InLine(r) /\ req[r].after = NoReq
  BY DEF RoutesInit, NotPosted, InLine
<1>. DEFINE q == [i \in 1..0 |-> CHOOSE r \in Reqs : TRUE]
<1>2. q \in [1..0 -> Reqs] /\ LineUp(q, 0)
  BY <1>1 DEF LineUp, RoutesInit
<1>. QED
  BY <1>1, <1>2 DEF LineInv

\* The line stays as it is when the same requests are in it, waiting for the same,
\* and only who waits for nobody gets into the lock.
LEMMA LineKept ==
  ASSUME LineInv, tail' = tail,
         \A p \in Reqs : /\ InLine(p)' <=> InLine(p)
                         /\ req'[p].after = req[p].after
                         /\ InLock(p)' => InLock(p) \/ (InLine(p) /\ req[p].after = NoReq)
  PROVE  LineInv'
<1>1. PICK n \in Nat : \E q \in [1..n -> Reqs] : LineUp(q, n)
  BY DEF LineInv
<1>2. PICK q \in [1..n -> Reqs] : LineUp(q, n)
  BY <1>1
<1>3. \A i \in 1..n : req[q[i]].after = NoReq => i = 1
  BY <1>2, RoutesAssumption DEF LineUp
<1>4. \A i \in 1..n : InLock(q[i])' => i = 1
  BY <1>2, <1>3 DEF LineUp
<1>5. LineUp(q, n)'
  BY <1>2, <1>4 DEF LineUp
<1>. QED
  BY <1>5 DEF LineInv

\* Who waits stands behind the last of the line.
LEMMA LineGrows ==
  ASSUME LineInv, NEW r \in Reqs, ~InLine(r), InLine(r)', ~InLock(r)',
         tail' = r, req'[r].after = tail,
         \A p \in Reqs \ {r} : /\ InLine(p)' <=> InLine(p)
                               /\ req'[p].after = req[p].after
                               /\ InLock(p)' <=> InLock(p)
  PROVE  LineInv'
<1>1. PICK n \in Nat : \E q \in [1..n -> Reqs] : LineUp(q, n)
  BY DEF LineInv
<1>2. PICK q \in [1..n -> Reqs] : LineUp(q, n)
  BY <1>1
<1>. DEFINE m == n + 1
            s == [i \in 1..m |-> IF i = m THEN r ELSE q[i]]
<1>3. m \in Nat /\ s \in [1..m -> Reqs] /\ 1..n \subseteq 1..m /\ m # 0
  BY <1>2
<1>4. s[m] = r /\ \A i \in 1..n : s[i] = q[i] /\ q[i] \in Reqs \ {r} /\ i # m
  BY <1>2 DEF LineUp
<1>5. \A i \in 1..m : i = m \/ i \in 1..n
  BY <1>1
<1>. HIDE DEF s
<1>6. \A i \in 1..m : s[i] \in Reqs /\ InLine(s[i])'
  BY <1>2, <1>4, <1>5 DEF LineUp
<1>7. \A p \in Reqs : InLine(p)' => \E i \in 1..m : s[i] = p
  BY <1>2, <1>3, <1>4 DEF LineUp
<1>8. ASSUME NEW i \in 1..m, NEW j \in 1..m, s[i] = s[j]
      PROVE  i = j
  <2>1. i = m <=> j = m
    BY <1>4, <1>5, <1>8
  <2>2. ASSUME i \in 1..n, j \in 1..n
        PROVE  i = j
    BY <1>2, <1>4, <1>8, <2>2 DEF LineUp
  <2>. QED
    BY <1>5, <2>1, <2>2
<1>9. ASSUME NEW i \in 1..m
      PROVE  req'[s[i]].after = IF i = 1 THEN NoReq ELSE s[i - 1]
  <2>1. CASE i = m
    BY <1>2, <1>4, <2>1 DEF LineUp
  <2>2. CASE i \in 1..n
    <3>1. req'[s[i]].after = IF i = 1 THEN NoReq ELSE q[i - 1]
      BY <1>2, <1>4, <2>2 DEF LineUp
    <3>. QED
      BY <1>4, <2>2, <3>1
  <2>. QED
    BY <1>5, <2>1, <2>2
<1>10. \A i \in 1..m : InLock(s[i])' => i = 1
  BY <1>2, <1>4, <1>5 DEF LineUp
<1>11. LineUp(s, m)'
  BY <1>3, <1>4, <1>6, <1>7, <1>8, <1>9, <1>10 DEF LineUp
<1>. QED
  BY <1>3, <1>11 DEF LineInv

\* Who has had the lock leaves the head of the line, and who waited for it waits
\* for nobody.
LEMMA LineShrinks ==
  ASSUME LineInv, NEW r \in Reqs, InLock(r), InLine(r), ~InLine(r)', ~InLock(r)',
         req'[r].after = NoReq, tail' = IF tail = r THEN NoReq ELSE tail,
         \A p \in Reqs \ {r} :
           /\ InLine(p)' <=> InLine(p)
           /\ req'[p].after = IF req[p].after = r THEN NoReq ELSE req[p].after
           /\ InLock(p)' <=> InLock(p)
  PROVE  LineInv'
<1>1. PICK n \in Nat : \E q \in [1..n -> Reqs] : LineUp(q, n)
  BY DEF LineInv
<1>2. PICK q \in [1..n -> Reqs] : LineUp(q, n)
  BY <1>1
<1>3. n >= 1 /\ q[1] = r /\ 1 \in 1..n
  BY <1>2 DEF LineUp
<1>. DEFINE m == n - 1
            s == [i \in 1..m |-> q[i + 1]]
<1>4. m \in Nat /\ s \in [1..m -> Reqs]
  BY <1>2, <1>3
<1>5. \A i \in 1..m : s[i] = q[i + 1] /\ i + 1 \in 1..n /\ i + 1 # 1
  BY <1>3
<1>. HIDE DEF s
<1>6. \A i \in 1..m : s[i] \in Reqs \ {r}
  BY <1>2, <1>3, <1>5 DEF LineUp
<1>7. \A i \in 1..m : InLine(s[i])'
  BY <1>2, <1>5, <1>6 DEF LineUp
<1>8. ASSUME NEW p \in Reqs, InLine(p)'
      PROVE  \E i \in 1..m : s[i] = p
  <2>1. p # r /\ InLine(p)
    BY <1>8
  <2>2. PICK i \in 1..n : q[i] = p
    BY <1>2, <2>1 DEF LineUp
  <2>3. i # 1 /\ i - 1 \in 1..m /\ (i - 1) + 1 = i
    BY <1>3, <2>1, <2>2
  <2>. QED
    BY <1>5, <2>2, <2>3
<1>9. \A i, j \in 1..m : s[i] = s[j] => i = j
  <2>1. \A i, j \in 1..m : i + 1 = j + 1 => i = j
    OBVIOUS
  <2>. QED
    BY <1>2, <1>5, <2>1 DEF LineUp
<1>10. ASSUME NEW i \in 1..m
       PROVE  req'[s[i]].after = IF i = 1 THEN NoReq ELSE s[i - 1]
  <2>1. req[s[i]].after = q[i]
    BY <1>2, <1>5 DEF LineUp
  <2>2. CASE i = 1
    BY <1>3, <1>6, <2>1, <2>2
  <2>3. CASE i # 1
    <3>1. i - 1 \in 1..m /\ (i - 1) + 1 = i /\ i \in 1..n
      BY <2>3, <1>3
    <3>2. q[i] = s[i - 1] /\ q[i] # r
      BY <1>5, <1>6, <3>1
    <3>. QED
      BY <1>6, <2>1, <2>3, <3>2
  <2>. QED
    BY <2>2, <2>3
<1>11. \A i \in 1..m : ~InLock(s[i])'
  BY <1>2, <1>5, <1>6 DEF LineUp
<1>12. tail' = IF m = 0 THEN NoReq ELSE s[m]
  <2>1. CASE n = 1
    BY <1>2, <1>3, <2>1 DEF LineUp
  <2>2. CASE n # 1
    <3>1. m \in 1..m /\ m # 0 /\ m + 1 = n /\ n \in 1..n
      BY <1>3, <2>2
    <3>2. s[m] = q[n] /\ tail = q[n]
      BY <1>2, <1>5, <3>1 DEF LineUp
    <3>3. s[m] # r
      BY <1>6, <3>1
    <3>. QED
      BY <3>1, <3>2, <3>3
  <2>. QED
    BY <2>1, <2>2
<1>13. LineUp(s, m)'
  BY <1>4, <1>6, <1>7, <1>8, <1>9, <1>10, <1>11, <1>12 DEF LineUp
<1>14. \A p \in Reqs : ~InLine(p)' => req'[p].after = NoReq
  BY DEF LineInv
<1>. QED
  BY <1>4, <1>13, <1>14 DEF LineInv

\* The others stay in line, and in the lock.
LEMMA OthersStay ==
  ASSUME NEW r \in Reqs, StepOf(r)
  PROVE  \A p \in Reqs \ {r} : /\ InLine(p)' <=> InLine(p)
                               /\ InLock(p)' <=> InLock(p)
BY DEF StepOf, Keeps, InLine, InLock

\* A request that sets one or two fields of its own, none of them what it waits
\* for, and does not leave or join the line.
LEMMA AfterStays ==
  ASSUME RouteInv, NEW r \in Reqs,
         \/ \E pc : req' = [req EXCEPT ![r].pc = pc]
         \/ \E pc, n : req' = [req EXCEPT ![r].pc = pc, ![r].round = n]
         \/ \E n : req' = [req EXCEPT ![r].round = n]
         \/ \E pc, g, f, o : req' = [req EXCEPT ![r].pc = pc, ![r].arg = g, ![r].saw = f,
                                            ![r].out = o]
         \/ \E f : req' = [req EXCEPT ![r].saw = f]
         \/ \E a : req' = [req EXCEPT ![r].at = a]
         \/ \E f : req' = Moved(f)
         \/ req' = req
  PROVE  \A p \in Reqs : req'[p].after = req[p].after
<1>1. req = [p \in Reqs |-> req[p]] /\ \A p \in Reqs : IsRequest(req[p])
  BY DEF RouteInv, Records
<1>2. CASE \E f : req' = Moved(f)
  <2>1. PICK f : req' = Moved(f)
    BY <1>2
  <2>2. \A p \in Reqs : req'[p] = req[p] \/ \E a : req'[p] = [req[p] EXCEPT !.at = a]
    BY <2>1 DEF Moved
  <2>3. \A p \in Reqs : \A a : [req[p] EXCEPT !.at = a].after = req[p].after
    BY <1>1 DEF IsRequest, Fields
  <2>4. ASSUME NEW p \in Reqs
        PROVE  req'[p].after = req[p].after
    <3>1. CASE req'[p] = req[p]
      BY <3>1
    <3>2. CASE \E a : req'[p] = [req[p] EXCEPT !.at = a]
      <4>1. PICK a : req'[p] = [req[p] EXCEPT !.at = a]
        BY <3>2
      <4>. QED
        BY <2>3, <4>1
    <3>. QED
      BY <2>2, <3>1, <3>2
  <2>. QED
    BY <2>4
<1>3. CASE req' = req
  BY <1>3
<1>4. IsRequest(req[r])
  BY <1>1
<1>5. CASE \E pc : req' = [req EXCEPT ![r].pc = pc]
  <2>1. PICK pc : req' = [req EXCEPT ![r].pc = pc]
    BY <1>5
  <2>. QED
    BY <1>1, <1>4, <2>1 DEF IsRequest, Fields
<1>6. CASE \E pc, n : req' = [req EXCEPT ![r].pc = pc, ![r].round = n]
  <2>1. PICK pc, n : req' = [req EXCEPT ![r].pc = pc, ![r].round = n]
    BY <1>6
  <2>. QED
    BY <1>1, <1>4, <2>1 DEF IsRequest, Fields
<1>7. CASE \E n : req' = [req EXCEPT ![r].round = n]
  <2>1. PICK n : req' = [req EXCEPT ![r].round = n]
    BY <1>7
  <2>. QED
    BY <1>1, <1>4, <2>1 DEF IsRequest, Fields
<1>8. CASE \E pc, g, f, o : req' = [req EXCEPT ![r].pc = pc, ![r].arg = g, ![r].saw = f,
                                               ![r].out = o]
  <2>1. PICK pc, g, f, o : req' = [req EXCEPT ![r].pc = pc, ![r].arg = g, ![r].saw = f,
                                             ![r].out = o]
    BY <1>8
  <2>. QED
    BY <1>1, <1>4, <2>1 DEF IsRequest, Fields
<1>9. CASE \E f : req' = [req EXCEPT ![r].saw = f]
  <2>1. PICK f : req' = [req EXCEPT ![r].saw = f]
    BY <1>9
  <2>. QED
    BY <1>1, <1>4, <2>1 DEF IsRequest, Fields
<1>10. CASE \E a : req' = [req EXCEPT ![r].at = a]
  <2>1. PICK a : req' = [req EXCEPT ![r].at = a]
    BY <1>10
  <2>. QED
    BY <1>1, <1>4, <2>1 DEF IsRequest, Fields
<1>. QED
  BY <1>2, <1>3, <1>5, <1>6, <1>7, <1>8, <1>9, <1>10

\* The line is served from the head, and nobody else is in the lock.
LEMMA LineInvStep ==
  RouteInv /\ CacheInv /\ LineInv /\ [DashboardNext]_RoutesVars => LineInv'
<1>. SUFFICES ASSUME RouteInv, CacheInv, LineInv, [DashboardNext]_RoutesVars
              PROVE  LineInv'
  OBVIOUS
<1>1. ASSUME NEW r \in Reqs, StepOf(r), tail' = tail, ~InLine(r), ~InLine(r)',
             \A p \in Reqs : req'[p].after = req[p].after
      PROVE  LineInv'
  <2>1. ~InLock(r)'
    BY <1>1 DEF InLine, InLock
  <2>. QED
    BY <1>1, <2>1, OthersStay, LineKept
<1>2. ASSUME NEW r \in Reqs, StepOf(r), tail' = tail, req' = [req EXCEPT ![r] = NotPosted],
             ~InLine(r)
      PROVE  LineInv'
  <2>1. req'[r] = NotPosted /\ \A p \in Reqs \ {r} : req'[p] = req[p]
    BY <1>2 DEF RouteInv, Records
  <2>2. ~InLine(r)' /\ req'[r].after = NoReq /\ req[r].after = NoReq
    BY <1>2, <2>1 DEF InLine, NotPosted, LineInv
  <2>. QED
    BY <1>1, <1>2, <2>1, <2>2
<1>3. CASE \E r \in Reqs, op \in Ops : \E arg : Post(r, op, arg)
  <2>0. PICK r \in Reqs, op \in Ops : \E arg : Post(r, op, arg)
    BY <1>3
  <2>1. PICK arg : Post(r, op, arg)
    BY <2>0
  <2>2. StepOf(r)
    BY <2>0, OneSteps
  <2>. DEFINE x == [NotPosted EXCEPT !.op = op, !.pc = "exists", !.arg = arg]
  <2>3. req' = [req EXCEPT ![r] = x] /\ tail' = tail
    BY <2>1 DEF Post
  <2>4. x.pc = "exists" /\ x.after = NoReq
    BY DEF NotPosted
  <2>. HIDE DEF x
  <2>5. req'[r] = x /\ \A p \in Reqs \ {r} : req'[p] = req[p]
    BY <2>3 DEF RouteInv, Records
  <2>6. ~InLine(r) /\ ~InLine(r)' /\ req[r].after = NoReq
    BY <2>1, <2>4, <2>5 DEF Post, InLine, LineInv
  <2>. QED
    BY <1>1, <2>2, <2>3, <2>4, <2>5, <2>6
<1>4. ASSUME NEW r \in Reqs, RequestStep(r)
      PROVE  LineInv'
  <2>1. StepOf(r)
    BY <1>4, OneSteps
  <2>2. req = [p \in Reqs |-> req[p]] /\ \A p \in Reqs : IsRequest(req[p])
    BY DEF RouteInv, Records
  <2>3. req[r].pc \in PcsOf(req[r].op) /\ req[r].op \in Ops
    BY DEF RouteInv, Control
  <2>4. InLine(r) => req[r].pc \notin {"exists", "round", "list", "command"}
    BY DEF InLine
  <2>5. CASE NotFound(r)
    BY <1>2, <2>1, <2>4, <2>5 DEF NotFound
  <2>6. CASE BeginReading(r) \/ NextRound(r)
    <3>1. /\ ~InLine(r) /\ tail' = tail
          /\ \/ \E pc, n : req' = [req EXCEPT ![r].pc = pc, ![r].round = n]
             \/ \E n : req' = [req EXCEPT ![r].round = n]
      BY <2>4, <2>6 DEF BeginReading, NextRound
    <3>2. req'[r].pc = "round"
      BY <2>2, <2>6 DEF BeginReading, NextRound, IsRequest, Fields
    <3>3. ~InLine(r)'
      BY <3>2 DEF InLine
    <3>4. \A p \in Reqs : req'[p].after = req[p].after
      BY <3>1, AfterStays
    <3>. QED
      BY <1>1, <2>1, <3>1, <3>3, <3>4
  <2>7. CASE BeginSkillPut(r) \/ WriteSkill(r) \/ BeginGateway(r)
    <3>1. req[r].op \in {"skillPut", "gateway"}
      BY <2>3, <2>7 DEF BeginSkillPut, WriteSkill, BeginGateway, PcsOf, EditOps
    <3>2. req'[r].op = req[r].op
      BY <2>2, <2>7 DEF BeginSkillPut, WriteSkill, BeginGateway, IsRequest, Fields
    <3>3. ~InLine(r) /\ ~InLine(r)'
      BY <3>1, <3>2 DEF InLine, EditOps
    <3>4. tail' = tail /\ \E pc : req' = [req EXCEPT ![r].pc = pc]
      BY <2>7 DEF BeginSkillPut, WriteSkill, BeginGateway
    <3>5. \A p \in Reqs : req'[p].after = req[p].after
      BY <3>4, AfterStays
    <3>. QED
      BY <1>1, <2>1, <3>3, <3>4, <3>5
  <2>8. CASE EndReading(r) \/ EndSkillPut(r) \/ EndGateway(r)
    <3>1. ~InLine(r)
      BY <2>8 DEF EndReading, EndSkillPut, EndGateway, InLine, EditOps
    <3>. QED
      BY <1>2, <2>1, <2>8, <3>1 DEF EndReading, EndSkillPut, EndGateway
  <2>9. CASE Enqueue(r)
    <3>1. tail' = r /\ req' = [req EXCEPT ![r].pc = "queue", ![r].after = tail]
      BY <2>9 DEF Enqueue
    <3>2. /\ req'[r].pc = "queue" /\ req'[r].op = req[r].op /\ req'[r].after = tail
          /\ \A p \in Reqs \ {r} : req'[p] = req[p]
      BY <2>2, <3>1 DEF IsRequest, Fields
    <3>3. ~InLine(r) /\ InLine(r)' /\ ~InLock(r)'
      BY <2>9, <3>2 DEF Enqueue, InLine, InLock
    <3>. QED
      BY <2>1, <3>1, <3>2, <3>3, OthersStay, LineGrows
  <2>10. CASE EnterLock(r)
    <3>1. tail' = tail /\ \E pc : req' = [req EXCEPT ![r].pc = pc]
      BY <2>10 DEF EnterLock
    <3>2. req'[r].pc = "read" /\ req'[r].op = req[r].op
      BY <2>2, <2>10 DEF EnterLock, IsRequest, Fields
    <3>3. InLine(r) /\ InLine(r)' /\ req[r].after = NoReq
      BY <2>3, <2>10, <3>2 DEF EnterLock, InLine, PcsOf
    <3>4. \A p \in Reqs : req'[p].after = req[p].after
      BY <3>1, AfterStays
    <3>. QED
      BY <2>1, <3>1, <3>3, <3>4, OthersStay, LineKept
  <2>11. CASE Edit(r)
    <3>1. /\ tail' = tail
          /\ \E pc, g, f, o : req' = [req EXCEPT ![r].pc = pc, ![r].arg = g, ![r].saw = f,
                                              ![r].out = o]
      BY <2>11 DEF Edit
    <3>2. req'[r].pc = "write" /\ req'[r].op = req[r].op
      BY <2>2, <2>11 DEF Edit, IsRequest, Fields
    <3>3. InLine(r) /\ InLine(r)' /\ InLock(r)
      BY <2>3, <2>11, <3>2 DEF Edit, InLine, InLock, PcsOf
    <3>4. \A p \in Reqs : req'[p].after = req[p].after
      BY <3>1, AfterStays
    <3>. QED
      BY <2>1, <3>1, <3>3, <3>4, OthersStay, LineKept
  <2>12. CASE EditRefused(r) \/ EndEdit(r)
    <3>1. Release(r) /\ InLock(r) /\ InLine(r)
      BY <2>3, <2>12 DEF EditRefused, EndEdit, InLock, InLine, PcsOf
    <3>2. req'[r] = NotPosted
      BY <3>1 DEF Release
    <3>3. ~InLine(r)' /\ ~InLock(r)' /\ req'[r].after = NoReq
      BY <3>2 DEF InLine, InLock, NotPosted
    <3>4. \A p \in Reqs \ {r} :
            req'[p].after = IF req[p].after = r THEN NoReq ELSE req[p].after
      BY <2>2, <3>1 DEF Release, IsRequest, Fields
    <3>5. tail' = IF tail = r THEN NoReq ELSE tail
      BY <3>1 DEF Release
    <3>. QED
      BY <2>1, <3>1, <3>3, <3>4, <3>5, OthersStay, LineShrinks
  <2>13. CASE CallStep(r) \/ OpenTmp(r) \/ FillTmp(r) \/ Mv(r)
    <3>1. /\ tail' = tail
          /\ \/ \E f : req' = [req EXCEPT ![r].saw = f]
             \/ \E a : req' = [req EXCEPT ![r].at = a]
             \/ \E f : req' = Moved(f)
             \/ req' = req
      BY <2>13 DEF CallStep, AskSession, SessionOpens, CallCutShort, ReadJobs, RunGateway,
         RunOther, CallAnswered, OpenTmp, FillTmp, Mv, routeVars
    <3>2. \A p \in Reqs : req'[p].after = req[p].after
      BY <3>1, AfterStays
    <3>3. req'[r].op = req[r].op /\ req'[r].pc = req[r].pc
      BY <2>2, <3>1 DEF Moved, IsRequest, Fields
    <3>4. (InLine(r)' <=> InLine(r)) /\ (InLock(r)' <=> InLock(r))
      BY <3>3 DEF InLine, InLock
    <3>. QED
      BY <2>1, <3>1, <3>2, <3>4, OthersStay, LineKept
  <2>. QED
    BY <1>4, <2>5, <2>6, <2>7, <2>8, <2>9, <2>10, <2>11, <2>12, <2>13 DEF RequestStep
<1>5. CASE \/ (Expire \/ Break) /\ UNCHANGED <<boxVars, routeVars>>
           \/ UNCHANGED RoutesVars
  <2>1. UNCHANGED <<req, tail>>
    BY <1>5 DEF Expire, Break, RoutesVars, routeVars
  <2>. QED
    BY <2>1, LineKept DEF InLine, InLock
<1>. QED
  BY <1>3, <1>4, <1>5 DEF DashboardNext

\* At most one request is in the lock, and the table is empty when nobody is in
\* line.
LEMMA LineInvOneEditor == RouteInv /\ LineInv => OneEditor
<1>. SUFFICES ASSUME RouteInv, LineInv
              PROVE  OneEditor
  OBVIOUS
<1>1. PICK n \in Nat : \E q \in [1..n -> Reqs] : LineUp(q, n)
  BY DEF LineInv
<1>2. PICK q \in [1..n -> Reqs] : LineUp(q, n)
  BY <1>1
<1>3. \A r \in Reqs : InLock(r) => InLine(r) /\ r = q[1]
  BY <1>2 DEF LineUp, InLock, InLine
<1>4. \A r \in Reqs : req[r].op \in EditOps =>
        (InLine(r) <=> req[r].pc \notin {"idle", "exists"})
  BY DEF RouteInv, Control, PcsOf, InLine, EditOps
<1>5. tail = NoReq <=> \A r \in Reqs : ~InLine(r)
  <2>1. CASE n = 0
    BY <1>2, <2>1 DEF LineUp
  <2>2. CASE n # 0
    <3>1. n \in 1..n /\ q[n] \in Reqs /\ InLine(q[n]) /\ tail = q[n]
      BY <1>2, <2>2 DEF LineUp
    <3>. QED
      BY <3>1, RoutesAssumption
  <2>. QED
    BY <2>1, <2>2
<1>6. \A r \in Reqs : InLine(r) => req[r].op \in EditOps
  BY DEF InLine
<1>. QED
  BY <1>3, <1>4, <1>5, <1>6 DEF OneEditor

-------------------------------------------------------------------------------
(* The files *)

\* Request r has begun to upload, and has not moved the file.
Uploading(r) == call[<<r, 1>>].pc \in {"put", "mv"}

\* A request about to upload, uploading or moving is at its write.
LEMMA UploadAt ==
  ASSUME RouteInv, NEW r \in Reqs,
         \/ Uploading(r)
         \/ call[<<r, 1>>].pc = "exec" /\ call[<<r, 1>>].helper = "write"
  PROVE  req[r].pc = "write" /\ (req[r].op \in EditOps <=> req[r].op # "skillPut")
<1>1. CallAt(req[r].pc, call[<<r, 1>>]) /\ req[r].pc \in PcsOf(req[r].op)
  BY DEF RouteInv, Control
<1>2. call[<<r, 1>>].helper = "write" /\ call[<<r, 1>>].pc # "none"
  BY <1>1 DEF CallAt, Uploading
<1>3. req[r].pc = "write"
  BY <1>1, <1>2 DEF CallAt, HelperAt
<1>. QED
  BY <1>1, <1>3 DEF PcsOf, EditOps

\* Steps that do not upload leave the files alone, and who was uploading has lost
\* its session.
LEMMA NoUpload ==
  ASSUME RouteInv, CacheInv, NEW r \in Reqs,
         \/ \E op \in Ops : \E arg : Post(r, op, arg)
         \/ RequestStep(r) /\ ~(OpenTmp(r) \/ FillTmp(r) \/ Mv(r))
  PROVE  /\ UNCHANGED <<jobs, tmp, skill>>
         /\ \A q \in Reqs \ {r} : req'[q].at = req[q].at
         /\ ~Uploading(r)'
         /\ Uploading(r) => cut'
         /\ cut => cut'
<1>1. req = [q \in Reqs |-> req[q]] /\ \A q \in Reqs : IsRequest(req[q])
  BY DEF RouteInv, Records
<1>2. Uploading(r) => req[r].pc = "write"
  BY UploadAt
<1>3. CASE CallStep(r)
  <2>1. PICK i \in {1, 2} :
          \/ AskSession(r, i) \/ SessionOpens(r, i) \/ CallCutShort(r, i)
          \/ ReadJobs(r, i) \/ RunGateway(r, i) \/ RunOther(r, i)
          \/ CallAnswered(r, i)
    BY <1>3 DEF CallStep
  <2>. DEFINE c == <<r, i>>
  <2>2. c \in Calls /\ call \in [Calls -> CallRecord]
    BY DEF RouteInv, Records, Calls
  <2>3. (i = 2 => <<r, 1>> # c) /\ <<r, 1>> \in Calls
    BY DEF Calls
  <2>4. i = 1 => c = <<r, 1>>
    OBVIOUS
  <2>5. CallAt(req[r].pc, call[c])
    BY DEF RouteInv, Control
  <2>. HIDE DEF c
  <2>6. call[c] \in CallRecord
    BY <2>2
  <2>7. UNCHANGED <<jobs, tmp, skill>>
    BY <2>1 DEF AskSession, SessionOpens, CallCutShort, ReadJobs, RunGateway, RunOther,
       CallAnswered, routeVars, boxVars
  <2>8. req' = req \/ \E f : req' = [req EXCEPT ![r].saw = f]
    BY <2>1 DEF AskSession, SessionOpens, CallCutShort, ReadJobs, RunGateway, RunOther,
       CallAnswered, routeVars
  <2>9. \A q \in Reqs \ {r} : req'[q].at = req[q].at
    BY <1>1, <2>8
  <2>10. \/ Acquire(c) \/ Connect(c)
         \/ ConnectFails(c) \/ Refused(c) \/ SkipPython(c)
         \/ Run(c) \/ Answer(c)
    BY <2>1 DEF AskSession, SessionOpens, CallCutShort, ReadJobs, RunGateway, RunOther,
       CallAnswered, c
  <2>11. call[c].pc # "none" /\ (cut => cut')
    <3>1. call[c].pc # "none"
      BY <2>10 DEF Acquire, Connect, ConnectFails, Refused, SkipPython, Run, Answer
    <3>2. CASE Refused(c)
      BY <3>1, <3>2 DEF Refused
    <3>3. CASE ~Refused(c)
      <4>1. cut' = cut
        BY <2>10, <3>3 DEF Acquire, Connect, ConnectFails, SkipPython, Run, Answer
      <4>. QED
        BY <3>1, <4>1
    <3>. QED
      BY <3>2, <3>3
  <2>12. /\ call'[c].pc \notin {"put", "mv"}
         /\ \A d \in Calls \ {c} : call'[d] = call[d]
    <3>1. /\ After(c, FALSE).pc \in {"start", "done"} /\ After(c, TRUE).pc \in {"start", "done"}
          /\ After(c, call[c].ses \in open).pc \in {"start", "done"}
      BY <2>6 DEF After, CallRecord
    <3>2. \/ \E p \in {"exec", "connect", "answer"} : call' = [call EXCEPT ![c].pc = p]
          \/ \E s : call' = [call EXCEPT ![c].pc = "exec", ![c].ses = s]
          \/ call' = [call EXCEPT ![c] = After(c, FALSE)]
          \/ call' = [call EXCEPT ![c] = After(c, TRUE)]
          \/ call' = [call EXCEPT ![c] = After(c, call[c].ses \in open)]
      BY <2>10 DEF Acquire, Connect, ConnectFails, Refused, SkipPython, Run, Answer
    <3>. QED
      BY <2>2, <2>6, <3>1, <3>2 DEF CallRecord
  <2>13. CASE i = 1
    <3>1. ~Uploading(r)'
      BY <2>4, <2>12, <2>13 DEF Uploading
    <3>2. ASSUME Uploading(r)
          PROVE  cut'
      <4>1. Refused(c)
        BY <2>4, <2>10, <2>13, <3>2 DEF Uploading, Acquire, Connect, ConnectFails,
           SkipPython, Run, Answer
      <4>2. call[c].helper = "write"
        BY <2>4, <2>5, <2>13, <3>2 DEF Uploading, CallAt
      <4>. QED
        BY <4>1, <4>2 DEF Refused
    <3>. QED
      BY <2>7, <2>9, <2>11, <3>1, <3>2
  <2>14. CASE i = 2
    <3>1. req[r].pc = "round"
      BY <2>11, <2>14 DEF RouteInv, Control, c
    <3>2. call'[<<r, 1>>] = call[<<r, 1>>]
      BY <2>3, <2>12, <2>14
    <3>3. ~Uploading(r)
      BY <1>2, <3>1
    <3>. QED
      BY <2>7, <2>9, <2>11, <3>2, <3>3 DEF Uploading
  <2>. QED
    BY <2>13, <2>14
<1>4. CASE \/ \E op \in Ops : \E arg : Post(r, op, arg)
           \/ NotFound(r) \/ Enqueue(r)
  <2>1. UNCHANGED <<jobs, tmp, skill, call, cut>> /\ req[r].pc \in {"idle", "exists"}
    BY <1>4 DEF Post, NotFound, Enqueue, boxVars, linkVars
  <2>2. \E x : req' = [req EXCEPT ![r] = x]
    BY <1>4 DEF Post, NotFound, Enqueue
  <2>3. \A q \in Reqs \ {r} : req'[q] = req[q]
    BY <1>1, <2>2
  <2>. QED
    BY <1>2, <2>1, <2>3 DEF Uploading
<1>5. CASE \/ BeginReading(r) \/ NextRound(r) \/ EndReading(r) \/ EnterLock(r)
           \/ Edit(r) \/ EditRefused(r) \/ EndEdit(r) \/ BeginSkillPut(r)
           \/ WriteSkill(r) \/ EndSkillPut(r) \/ BeginGateway(r) \/ EndGateway(r)
  <2>1. UNCHANGED <<jobs, tmp, skill>>
    BY <1>5 DEF BeginReading, NextRound, EndReading, EnterLock, Edit, EditRefused,
       EndEdit, BeginSkillPut, WriteSkill, EndSkillPut, BeginGateway, EndGateway, boxVars
  <2>2. cut' = cut
    BY <1>5 DEF BeginReading, NextRound, EndReading, EnterLock, Edit, EditRefused,
       EndEdit, BeginSkillPut, WriteSkill, EndSkillPut, BeginGateway, EndGateway,
       LinkUnchanged, Done
  <2>3. \/ Done(r)
        \/ \E h : StartCalls(r, <<h>>)
        \/ \E hs : StartRound(r, hs)
    BY <1>5 DEF BeginReading, NextRound, EndReading, EnterLock, Edit, EditRefused,
       EndEdit, BeginSkillPut, WriteSkill, EndSkillPut, BeginGateway, EndGateway
  <2>4. call'[<<r, 1>>].pc \in {"none", "start", "done"}
    <3>1. NoCall.pc = "none" /\ \A h : Begun(h).pc = "start" /\ Skipped(h).pc = "done"
      BY DEF NoCall, Begun, Skipped
    <3>2. <<r, 1>> \in Calls
      BY DEF Calls
    <3>3. ASSUME Done(r)
          PROVE  call'[<<r, 1>>].pc = "none"
      BY <3>1, <3>2, <3>3 DEF Done
    <3>4. ASSUME NEW h, StartCalls(r, <<h>>)
          PROVE  call'[<<r, 1>>].pc \in {"none", "start", "done"}
      BY <3>1, <3>2, <3>4 DEF StartCalls
    <3>5. ASSUME NEW hs, StartRound(r, hs)
          PROVE  call'[<<r, 1>>].pc \in {"none", "start", "done"}
      BY <3>1, <3>2, <3>5 DEF StartRound
    <3>. QED
      BY <2>3, <3>3, <3>4, <3>5
  <2>5. ~Uploading(r)
    <3>1. Returned(r) \/ req[r].pc # "write"
      BY <1>5 DEF BeginReading, NextRound, EndReading, EnterLock, Edit, EditRefused,
         EndEdit, BeginSkillPut, WriteSkill, EndSkillPut, BeginGateway, EndGateway
    <3>2. Returned(r) => ~Uploading(r)
      BY DEF Returned, Uploading
    <3>. QED
      BY <1>2, <3>1, <3>2
  <2>6. \A q \in Reqs \ {r} : req'[q].at = req[q].at
    <3>1. CASE EditRefused(r) \/ EndEdit(r)
      BY <1>1, <3>1 DEF EditRefused, EndEdit, Release, IsRequest, Fields
    <3>2. CASE ~(EditRefused(r) \/ EndEdit(r))
      <4>1. req' = [q \in Reqs |-> IF q = r THEN req'[r] ELSE req[q]]
        BY <1>1, <1>5, <3>2 DEF BeginReading, NextRound, EndReading, EnterLock, Edit,
           BeginSkillPut, WriteSkill, EndSkillPut, BeginGateway, EndGateway
      <4>. QED
        BY <4>1
    <3>. QED
      BY <3>1, <3>2
  <2>. QED
    BY <2>1, <2>2, <2>4, <2>5, <2>6 DEF Uploading
<1>. QED
  BY <1>3, <1>4, <1>5 DEF RequestStep

\* The upload opens the .tmp file and nothing else changes but the call.
LEMMA OpenTmpDoes ==
  ASSUME RouteInv, UploadInv, NEW r \in Reqs, OpenTmp(r)
  PROVE  /\ req[r].pc = "write" /\ (req[r].op \in EditOps <=> req[r].op # "skillPut")
         /\ UNCHANGED <<jobs, skill, cut>>
         /\ call'[<<r, 1>>].pc = "put"
         /\ tmp' = [f \in Targets |-> tmp'[f]]
         /\ tmp'[Target(r)] = Upload(r, FALSE, <<>>, TmpOpen(Target(r), r))
         /\ \A f \in Targets \ {Target(r)} : tmp'[f] = tmp[f]
         /\ req'[r].at = "tmp"
         /\ \A q \in Reqs \ {r} : req'[q].at = req[q].at
         /\ \A k \in Fields \ {"after", "at"} : req'[r][k] = req[r][k]
<1>1. req[r].pc = "write" /\ (req[r].op \in EditOps <=> req[r].op # "skillPut")
  BY UploadAt DEF OpenTmp
<1>2. <<r, 1>> \in Calls /\ call \in [Calls -> CallRecord]
  BY DEF RouteInv, Records, Calls
<1>3. call'[<<r, 1>>].pc = "put"
  BY <1>2 DEF OpenTmp, CallRecord
<1>4. /\ UNCHANGED <<jobs, skill, cut>>
      /\ tmp' = [tmp EXCEPT ![Target(r)] =
                   Upload(r, FALSE, <<>>, TmpOpen(Target(r), r))]
      /\ req' = [req EXCEPT ![r].at = "tmp"]
  BY DEF OpenTmp, LinkUnchanged, boxVars, Upload
<1>5. Target(r) \in Targets
  BY DEF Target, Targets
<1>6. /\ req'[r].at = "tmp"
      /\ \A q \in Reqs \ {r} : req'[q].at = req[q].at
      /\ \A k \in Fields \ {"after", "at"} : req'[r][k] = req[r][k]
  BY <1>4 DEF RouteInv, Records, IsRequest, Fields
<1>. QED
  BY <1>1, <1>3, <1>4, <1>5, <1>6 DEF UploadInv

\* The contents go to where the file is that was opened: whole where nobody else
\* had it open.
LEMMA FillTmpDoes ==
  ASSUME RouteInv, UploadInv, NEW r \in Reqs, FillTmp(r)
  PROVE  /\ req[r].pc = "write" /\ (req[r].op \in EditOps <=> req[r].op # "skillPut")
         /\ call[<<r, 1>>].pc = "put" /\ call'[<<r, 1>>].pc = "mv"
         /\ req' = req /\ cut' = cut
         /\ tmp' = [f \in Targets |-> tmp'[f]]
         /\ \E whole \in BOOLEAN :
              /\ ~SharesFile(r) => whole
              /\ IF req[r].at = "tmp"
                   THEN tmp'[Target(r)] =
                          Upload(r, whole, req[r].out, tmp[Target(r)].shared)
                   ELSE tmp' = tmp
              /\ IF req[r].op = "skillPut" /\ req[r].at = "file"
                   THEN skill' = [whole |-> whole, by |-> r, shared |-> skill.shared]
                   ELSE UNCHANGED skill
         /\ \A f \in Targets \ {Target(r)} : tmp'[f] = tmp[f]
         /\ UNCHANGED jobs
         /\ req[r].op \in EditOps => UNCHANGED skill
<1>1. req[r].pc = "write" /\ (req[r].op \in EditOps <=> req[r].op # "skillPut")
  BY UploadAt DEF FillTmp, Uploading
<1>2. <<r, 1>> \in Calls /\ call \in [Calls -> CallRecord]
  BY DEF RouteInv, Records, Calls
<1>3. call[<<r, 1>>].pc = "put" /\ call'[<<r, 1>>].pc = "mv"
  BY <1>2 DEF FillTmp, CallRecord
<1>4. Target(r) \in Targets /\ (Target(r) = "skill" <=> req[r].op = "skillPut")
  BY DEF Target, Targets
<1>5. req[r].op \in EditOps => req[r].at = "tmp"
  BY <1>3 DEF UploadInv
<1>6. req' = req /\ cut' = cut
  BY DEF FillTmp, LinkUnchanged
<1>7. PICK whole \in BOOLEAN :
        /\ ~SharesFile(r) => whole
        /\ IF req[r].at = "tmp"
             THEN tmp' = [tmp EXCEPT ![Target(r)] =
                            Upload(r, whole, req[r].out, tmp[Target(r)].shared)]
             ELSE tmp' = tmp
        /\ IF req[r].at = "file" /\ Target(r) = "skill"
             THEN skill' = [whole |-> whole, by |-> r, shared |-> skill.shared]
             ELSE UNCHANGED skill
        /\ ~(req[r].at = "file" /\ Target(r) = "jobs") => UNCHANGED jobs
  BY DEF FillTmp, Upload
<1>8. /\ tmp' = [f \in Targets |-> tmp'[f]]
      /\ req[r].at = "tmp" =>
           tmp'[Target(r)] = Upload(r, whole, req[r].out, tmp[Target(r)].shared)
      /\ \A f \in Targets \ {Target(r)} : tmp'[f] = tmp[f]
  BY <1>4, <1>7 DEF UploadInv
<1>9. UNCHANGED jobs /\ (req[r].op \in EditOps => UNCHANGED skill)
  BY <1>1, <1>4, <1>5, <1>7 DEF Targets
<1>. QED
  BY <1>1, <1>3, <1>4, <1>6, <1>7, <1>8, <1>9

\* The mv replaces the file by what is in the .tmp file, and takes with it those
\* who have it open; or the .tmp file is gone.
LEMMA MvDoes ==
  ASSUME RouteInv, UploadInv, NEW r \in Reqs, Mv(r)
  PROVE  /\ req[r].pc = "write" /\ (req[r].op \in EditOps <=> req[r].op # "skillPut")
         /\ call[<<r, 1>>].pc = "mv" /\ call'[<<r, 1>>].pc \in {"answer", "done"}
         /\ cut' = cut
         /\ tmp' = [f \in Targets |-> tmp'[f]]
         /\ \A q \in Reqs : \A k \in Fields \ {"after", "at"} : req'[q][k] = req[q][k]
         /\ \/ /\ req' = req /\ UNCHANGED <<tmp, jobs, skill>>
               /\ ~tmp[Target(r)].there
            \/ /\ req' = Moved(Target(r)) /\ tmp[Target(r)].there
               /\ tmp'[Target(r)] = NoTmp
               /\ \A f \in Targets \ {Target(r)} : tmp'[f] = tmp[f]
               /\ req[r].op \in EditOps =>
                    jobs' = [shape |-> "list", list |-> req[r].out] /\ skill' = skill
               /\ req[r].op = "skillPut" =>
                    skill' = [whole |-> tmp["skill"].whole, by |-> tmp["skill"].by,
                              shared |-> tmp["skill"].shared]
                      /\ jobs' = jobs
<1>1. req[r].pc = "write" /\ (req[r].op \in EditOps <=> req[r].op # "skillPut")
  BY UploadAt DEF Mv, Uploading
<1>. DEFINE c == <<r, 1>>
<1>2. c \in Calls /\ call \in [Calls -> CallRecord] /\ call[c].left = 0
  <2>1. call[c].pc = "mv" /\ CallAt(req[r].pc, call[c])
    BY DEF Mv, RouteInv, Control
  <2>2. call[c].left = 0
    BY <1>1, <2>1 DEF CallAt, HelperAt
  <2>. QED
    BY <2>2 DEF RouteInv, Records, Calls
<1>3. call[c].pc = "mv" /\ cut' = cut
  BY DEF Mv, LinkUnchanged
<1>4. Target(r) \in Targets
  BY DEF Target, Targets
<1>5. After(c, FALSE).pc = "done"
  BY <1>2, AfterIs
<1>6. CASE tmp[Target(r)].there
  <2>1. /\ req' = Moved(Target(r))
        /\ call' = [call EXCEPT ![c].pc = "answer"]
        /\ tmp' = [tmp EXCEPT ![Target(r)] = NoTmp]
    BY <1>6 DEF Mv
  <2>2. call'[c].pc = "answer"
    BY <1>2, <2>1 DEF CallRecord
  <2>3. \A q \in Reqs : \A k \in Fields \ {"after", "at"} : req'[q][k] = req[q][k]
    <3>1. \A q \in Reqs : req'[q] = req[q] \/ \E a : req'[q] = [req[q] EXCEPT !.at = a]
      BY <2>1 DEF Moved
    <3>2. \A q \in Reqs : \A a : \A k \in Fields \ {"after", "at"} :
            [req[q] EXCEPT !.at = a][k] = req[q][k]
      BY DEF RouteInv, Records, IsRequest, Fields
    <3>3. ASSUME NEW q \in Reqs, NEW k \in Fields \ {"after", "at"}
          PROVE  req'[q][k] = req[q][k]
      <4>1. CASE req'[q] = req[q]
        BY <4>1
      <4>2. CASE \E a : req'[q] = [req[q] EXCEPT !.at = a]
        <5>1. PICK a : req'[q] = [req[q] EXCEPT !.at = a]
          BY <4>2
        <5>. QED
          BY <3>2, <5>1
      <4>. QED
        BY <3>1, <4>1, <4>2
    <3>. QED
      BY <3>3
  <2>4. /\ tmp' = [f \in Targets |-> tmp'[f]]
        /\ tmp'[Target(r)] = NoTmp
        /\ \A f \in Targets \ {Target(r)} : tmp'[f] = tmp[f]
    BY <1>4, <2>1 DEF UploadInv
  <2>5. ASSUME req[r].op \in EditOps
        PROVE  jobs' = [shape |-> "list", list |-> req[r].out] /\ skill' = skill
    <3>1. Target(r) = "jobs"
      BY <1>1, <2>5 DEF Target
    <3>2. tmp["jobs"] = Upload(r, TRUE, req[r].out, FALSE)
      BY <1>3, <2>5 DEF UploadInv
    <3>3. tmp["jobs"].whole /\ tmp["jobs"].list = req[r].out
      BY <3>2 DEF Upload
    <3>. QED
      BY <1>6, <3>1, <3>3 DEF Mv
  <2>6. ASSUME req[r].op = "skillPut"
        PROVE  skill' = [whole |-> tmp["skill"].whole, by |-> tmp["skill"].by,
                         shared |-> tmp["skill"].shared]
                 /\ jobs' = jobs
    BY <1>6, <2>6 DEF Mv, Target
  <2>. QED
    BY <1>1, <1>3, <1>6, <2>1, <2>2, <2>3, <2>4, <2>5, <2>6
<1>7. CASE ~tmp[Target(r)].there
  <2>1. /\ req' = req /\ UNCHANGED <<tmp, jobs, skill>>
        /\ call' = [call EXCEPT ![c] = After(c, FALSE)]
    BY <1>7 DEF Mv
  <2>2. call'[c].pc = "done"
    BY <1>2, <1>5, <2>1
  <2>. QED
    BY <1>1, <1>3, <1>7, <2>1, <2>2 DEF UploadInv
<1>. QED
  BY <1>6, <1>7

\* At first no file is uploaded.
LEMMA UploadInvInit == LinkInit /\ RoutesInit => UploadInv
<1>. SUFFICES ASSUME LinkInit, RoutesInit
              PROVE  UploadInv
  OBVIOUS
<1>1. \A r \in Reqs : req[r].op \notin EditOps
  BY DEF RoutesInit, NotPosted, EditOps
<1>2. tmp = [f \in Targets |-> tmp[f]]
  BY DEF RoutesInit
<1>. QED
  BY <1>1, <1>2 DEF UploadInv

\* The one in the lock finds its own .tmp file where it left it.
LEMMA UploadInvStep ==
  RouteInv /\ CacheInv /\ LineInv /\ UploadInv /\ [DashboardNext]_RoutesVars => UploadInv'
<1>. SUFFICES ASSUME RouteInv, CacheInv, LineInv, UploadInv, [DashboardNext]_RoutesVars
              PROVE  UploadInv'
  OBVIOUS
<1>1. \A p, q \in Reqs : InLock(p) /\ InLock(q) => p = q
  BY LineInvOneEditor DEF OneEditor
<1>2. \A q \in Reqs : Uploading(q) /\ req[q].op \in EditOps => InLock(q)
  BY UploadAt DEF InLock
<1>. DEFINE Own(q) ==
       req[q].op \in EditOps =>
         /\ call[<<q, 1>>].pc = "put" => req[q].at = "tmp" /\ tmp["jobs"].shared = FALSE
         /\ call[<<q, 1>>].pc = "mv" => tmp["jobs"] = Upload(q, TRUE, req[q].out, FALSE)
<1>3. ASSUME NEW r \in Reqs,
             \/ \E op \in Ops : \E arg : Post(r, op, arg)
             \/ RequestStep(r) /\ ~(OpenTmp(r) \/ FillTmp(r) \/ Mv(r))
      PROVE  UploadInv'
  <2>1. StepOf(r)
    BY <1>3, OneSteps
  <2>2. /\ tmp' = tmp /\ ~Uploading(r)'
        /\ \A q \in Reqs \ {r} : req'[q].at = req[q].at
    BY <1>3, NoUpload
  <2>3. Own(r)'
    BY <2>2 DEF Uploading
  <2>4. ASSUME NEW q \in Reqs \ {r}
        PROVE  Own(q)'
    <3>1. /\ req'[q].op = req[q].op /\ req'[q].out = req[q].out
          /\ call'[<<q, 1>>] = call[<<q, 1>>]
      BY <2>1 DEF StepOf, Keeps
    <3>2. req'[q].at = req[q].at /\ tmp' = tmp
      BY <2>2
    <3>3. Own(q)
      BY DEF UploadInv
    <3>. QED
      BY <3>1, <3>2, <3>3
  <2>. QED
    BY <2>2, <2>3, <2>4 DEF UploadInv
<1>4. ASSUME NEW r \in Reqs, OpenTmp(r) \/ FillTmp(r) \/ Mv(r)
      PROVE  UploadInv'
  <2>1. StepOf(r)
    BY <1>4, OneSteps DEF RequestStep
  <2>2. /\ tmp' = [f \in Targets |-> tmp'[f]]
        /\ req[r].pc = "write" /\ (req[r].op \in EditOps <=> req[r].op # "skillPut")
        /\ \A k \in Fields \ {"after", "at"} : req'[r][k] = req[r][k]
        /\ \A f \in Targets \ {Target(r)} : tmp'[f] = tmp[f]
    BY <1>4, OpenTmpDoes, FillTmpDoes, MvDoes
  <2>3. req'[r].op = req[r].op /\ req'[r].out = req[r].out
    BY <2>2 DEF Fields
  <2>4. Own(r)'
    <3>1. CASE req[r].op \notin EditOps
      BY <2>3, <3>1
    <3>2. CASE req[r].op \in EditOps
      <4>1. Target(r) = "jobs"
        BY <2>2, <3>2 DEF Target
      <4>2. CASE OpenTmp(r)
        <5>1. ~TmpOpen("jobs", r)
          <6>1. InLock(r)
            BY <2>2, <3>2 DEF InLock
          <6>2. ASSUME NEW q \in Reqs \ {r}, call[<<q, 1>>].pc = "put", Target(q) = "jobs"
                PROVE  FALSE
            <7>1. Uploading(q) /\ req[q].op \in EditOps
              BY <6>2, UploadAt DEF Uploading, Target
            <7>. QED
              BY <1>1, <1>2, <6>1, <7>1
          <6>. QED
            BY <6>2 DEF TmpOpen
        <5>2. tmp'["jobs"] = Upload(r, FALSE, <<>>, TmpOpen("jobs", r))
          BY <4>1, <4>2, OpenTmpDoes
        <5>3. tmp'["jobs"].shared = FALSE
          <6>1. TmpOpen("jobs", r) = FALSE
            BY <5>1, Zenon DEF TmpOpen
          <6>2. tmp'["jobs"] = Upload(r, FALSE, <<>>, FALSE)
            BY <5>2, <6>1
          <6>. QED
            BY <6>2 DEF Upload
        <5>4. call'[<<r, 1>>].pc = "put" /\ req'[r].at = "tmp"
          BY <4>2, OpenTmpDoes
        <5>. QED
          BY <5>3, <5>4, Zenon
      <4>3. CASE FillTmp(r)
        <5>1. req[r].at = "tmp" /\ tmp["jobs"].shared = FALSE /\ call'[<<r, 1>>].pc = "mv"
          BY <3>2, <4>3, FillTmpDoes DEF UploadInv
        <5>2. ~SharesFile(r)
          BY <4>1, <5>1 DEF SharesFile
        <5>3. tmp'["jobs"] = Upload(r, TRUE, req[r].out, FALSE)
          BY <4>1, <4>3, <5>1, <5>2, FillTmpDoes
        <5>. QED
          BY <2>3, <5>1, <5>3
      <4>4. CASE Mv(r)
        BY <4>4, MvDoes
      <4>. QED
        BY <1>4, <4>2, <4>3, <4>4
    <3>. QED
      BY <3>1, <3>2
  <2>5. ASSUME NEW q \in Reqs \ {r}
        PROVE  Own(q)'
    <3>1. /\ req'[q].op = req[q].op /\ req'[q].out = req[q].out
          /\ call'[<<q, 1>>] = call[<<q, 1>>]
      BY <2>1 DEF StepOf, Keeps
    <3>2. CASE req[r].op \in EditOps
      <4>1. ~(Uploading(q) /\ req[q].op \in EditOps)
        BY <1>1, <1>2, <2>2, <2>5, <3>2 DEF InLock
      <4>. QED
        BY <3>1, <4>1 DEF Uploading
    <3>3. CASE req[r].op \notin EditOps /\ req[q].op \in EditOps
      <4>1. Target(r) = "skill" /\ Target(q) = "jobs"
        BY <2>2, <3>3 DEF Target, EditOps
      <4>2. tmp'["jobs"] = tmp["jobs"]
        BY <2>2, <4>1 DEF Targets
      <4>3. req'[q].at = req[q].at
        <5>1. CASE OpenTmp(r)
          BY <5>1, OpenTmpDoes
        <5>2. CASE FillTmp(r)
          BY <5>2, FillTmpDoes
        <5>3. CASE Mv(r)
          <6>1. req' = req \/ req' = Moved(Target(r))
            BY <5>3, MvDoes
          <6>2. Moved(Target(r))[q] = req[q]
            BY <4>1 DEF Moved
          <6>. QED
            BY <6>1, <6>2
        <5>. QED
          BY <1>4, <5>1, <5>2, <5>3
      <4>. QED
        BY <3>1, <4>2, <4>3 DEF UploadInv
    <3>. QED
      BY <3>1, <3>2, <3>3
  <2>. QED
    BY <2>2, <2>4, <2>5 DEF UploadInv
<1>5. CASE \/ (Expire \/ Break) /\ UNCHANGED <<boxVars, routeVars>>
           \/ UNCHANGED RoutesVars
  <2>1. UNCHANGED <<req, call, tmp>>
    BY <1>5 DEF Expire, Break, RoutesVars, routeVars, linkVars
  <2>. QED
    BY <2>1 DEF UploadInv
<1>. QED
  BY <1>3, <1>4, <1>5 DEF DashboardNext, RequestStep

\* Request r moves its upload over jobs.json.
Moves(r) ==
  /\ Mv(r) /\ InLock(r) /\ req[r].pc = "write"
  /\ jobs' = [shape |-> "list", list |-> req[r].out]

\* jobs.json changes only as a whole, by the request in the lock.
LEMMA JobsStep ==
  ASSUME RouteInv, CacheInv, UploadInv, [DashboardNext]_RoutesVars
  PROVE  jobs' = jobs \/ \E r \in Reqs : Moves(r)
<1>1. ASSUME NEW r \in Reqs,
             \/ \E op \in Ops : \E arg : Post(r, op, arg)
             \/ RequestStep(r) /\ ~(OpenTmp(r) \/ FillTmp(r) \/ Mv(r))
      PROVE  jobs' = jobs
  BY <1>1, NoUpload
<1>2. ASSUME NEW r \in Reqs, OpenTmp(r) \/ FillTmp(r)
      PROVE  jobs' = jobs
  BY <1>2, OpenTmpDoes, FillTmpDoes
<1>3. ASSUME NEW r \in Reqs, Mv(r)
      PROVE  jobs' = jobs \/ Moves(r)
  BY <1>3, MvDoes DEF Moves, InLock
<1>4. CASE \/ (Expire \/ Break) /\ UNCHANGED <<boxVars, routeVars>>
           \/ UNCHANGED RoutesVars
  BY <1>4 DEF RoutesVars, boxVars
<1>. QED
  BY <1>1, <1>2, <1>3, <1>4 DEF DashboardNext, RequestStep

\* At first nobody edits.
LEMMA EditInvInit == RoutesInit => EditInv
BY DEF RoutesInit, EditInv, NotPosted

\* While only the dashboard writes jobs.json, an edit starts from what is in the
\* file and stays the edit of that until it is moved there.
LEMMA EditInvStep ==
  /\ RouteInv /\ CacheInv /\ LineInv /\ UploadInv /\ EditInv
  /\ [DashboardNext]_RoutesVars
  => EditInv'
<1>. SUFFICES ASSUME RouteInv, CacheInv, LineInv, UploadInv, EditInv,
                     [DashboardNext]_RoutesVars
              PROVE  EditInv'
  OBVIOUS
<1>. DEFINE HasRead(q) ==
              /\ req[q].pc = "read"
              /\ \/ call[<<q, 1>>].pc = "answer"
                 \/ call[<<q, 1>>].pc = "done" /\ call[<<q, 1>>].ok
            Before == {"start", "connect", "exec", "put", "mv"}
            Own(q) ==
              /\ HasRead(q) => req[q].saw = jobs
              /\ req[q].pc = "write" /\ req[q].op \in EditOps =>
                   /\ req[q].out = Edited(AsList(req[q].saw), req[q].op, req[q].arg)
                   /\ call[<<q, 1>>].pc \in Before =>
                        req[q].saw = jobs \/ (req[q].op = "create" /\ req[q].saw = NoFile)
<1>1. EditInv <=> \A q \in Reqs : Own(q)
  BY DEF EditInv
<1>2. EditInv' <=> \A q \in Reqs : Own(q)'
  BY DEF EditInv
<1>3. \A p, q \in Reqs : InLock(p) /\ InLock(q) => p = q
  BY LineInvOneEditor DEF OneEditor
<1>4. \A q \in Reqs : /\ req[q].pc = "read" => InLock(q)
                      /\ req[q].pc = "write" /\ req[q].op \in EditOps => InLock(q)
  BY DEF RouteInv, Control, PcsOf, InLock, EditOps
<1>5. req = [q \in Reqs |-> req[q]] /\ \A q \in Reqs : IsRequest(req[q])
  BY DEF RouteInv, Records
<1>6. ASSUME NEW r \in Reqs, StepOf(r), NEW q \in Reqs \ {r},
             jobs' = jobs \/ Moves(r)
      PROVE  Own(q)'
  <2>1. /\ req'[q].op = req[q].op /\ req'[q].pc = req[q].pc /\ req'[q].arg = req[q].arg
        /\ req'[q].saw = req[q].saw /\ req'[q].out = req[q].out
        /\ call'[<<q, 1>>] = call[<<q, 1>>]
    BY <1>6 DEF StepOf, Keeps
  <2>2. CASE jobs' = jobs
    BY <1>1, <2>1, <2>2
  <2>3. CASE Moves(r)
    <3>1. ~InLock(q)
      BY <1>3, <1>6, <2>3 DEF Moves
    <3>2. req[q].pc # "read" /\ ~(req[q].pc = "write" /\ req[q].op \in EditOps)
      BY <1>4, <3>1
    <3>. QED
      BY <2>1, <3>2
  <2>. QED
    BY <1>6, <2>2, <2>3
<1>7. ASSUME NEW r \in Reqs,
             \/ \E op \in Ops : \E arg : Post(r, op, arg)
             \/ RequestStep(r) /\ ~(OpenTmp(r) \/ FillTmp(r) \/ Mv(r))
      PROVE  EditInv'
  <2>1. StepOf(r) /\ jobs' = jobs
    BY <1>7, OneSteps, NoUpload
  <2>2. \A q \in Reqs \ {r} : Own(q)'
    BY <1>6, <2>1
  <2>3. CASE CallStep(r)
    <3>1. PICK i \in {1, 2} :
            \/ AskSession(r, i) \/ SessionOpens(r, i) \/ CallCutShort(r, i)
            \/ ReadJobs(r, i) \/ RunGateway(r, i) \/ RunOther(r, i)
            \/ CallAnswered(r, i)
      BY <2>3 DEF CallStep
    <3>. DEFINE c == <<r, 1>>
    <3>2. c \in Calls /\ call \in [Calls -> CallRecord] /\ call[c] \in CallRecord
      BY DEF RouteInv, Records, Calls
    <3>3. CallAt(req[r].pc, call[c])
      BY DEF RouteInv, Control
    <3>4. /\ req'[r].op = req[r].op /\ req'[r].pc = req[r].pc /\ req'[r].arg = req[r].arg
          /\ req'[r].out = req[r].out
          /\ req'[r].saw = req[r].saw \/ (ReadJobs(r, i) /\ req'[r].saw = jobs)
      <4>1. CASE ReadJobs(r, i)
        BY <1>5, <4>1 DEF ReadJobs, IsRequest, Fields
      <4>2. CASE ~ReadJobs(r, i)
        <5>1. req' = req
          BY <3>1, <4>2 DEF AskSession, SessionOpens, CallCutShort, RunGateway, RunOther,
             CallAnswered, routeVars
        <5>. QED
          BY <5>1
      <4>. QED
        BY <4>1, <4>2
    <3>5. CASE req[r].pc \notin {"read", "write"}
      BY <1>2, <2>2, <3>4, <3>5
    <3>6. CASE req[r].pc \in {"read", "write"}
      <4>1. i = 1
        <5>1. call[<<r, 2>>].pc = "none"
          BY <3>6 DEF RouteInv, Control
        <5>2. call[<<r, i>>].pc # "none"
          BY <3>1 DEF AskSession, SessionOpens, CallCutShort, RunGateway, RunOther,
             CallAnswered, ReadJobs, Acquire, Connect, ConnectFails, Refused, SkipPython,
             Run, Answer
        <5>. QED
          BY <5>1, <5>2
      <4>2. (call[c].left = 0 /\ call[c].helper = req[r].pc) \/ call[c].pc = "none"
        BY <3>3, <3>6 DEF CallAt, HelperAt
      <4>3. /\ After(c, FALSE).pc = "done" \/ call[c].pc = "none"
            /\ ~After(c, FALSE).ok \/ call[c].pc = "none"
        BY <3>2, <4>2, AfterIs
      <4>4. After(c, call[c].ses \in open).pc = "done" \/ call[c].pc = "none"
        <5>. DEFINE ok == call[c].ses \in open
        <5>1. ok \in BOOLEAN
          OBVIOUS
        <5>. HIDE DEF ok
        <5>2. After(c, ok).pc = "done" \/ call[c].pc = "none"
          BY <3>2, <4>2, <5>1, AfterIs
        <5>. QED
          BY <5>2 DEF ok
      <4>5. \/ Acquire(c) \/ Connect(c)
            \/ ConnectFails(c) \/ Refused(c)
            \/ (Run(c) /\ ReadJobs(r, i))
            \/ Answer(c)
        <5>1. c = <<r, i>>
          BY <4>1
        <5>. HIDE DEF c
        <5>2. ~SkipPython(c)
          BY <3>6, <4>2 DEF SkipPython
        <5>3. ~RunGateway(r, i) /\ ~RunOther(r, i)
          BY <3>6 DEF RunGateway, RunOther
        <5>. QED
          BY <3>1, <5>1, <5>2, <5>3 DEF AskSession, SessionOpens, CallCutShort, ReadJobs,
             CallAnswered
      <4>. HIDE DEF c
      <4>6. HasRead(r)' => HasRead(r) \/ ReadJobs(r, i)
        <5>1. CASE Acquire(c) \/ Connect(c)
          <6>1. call'[c].pc \in {"exec", "connect"}
            BY <3>2, <5>1 DEF Acquire, Connect, CallRecord
          <6>. QED
            BY <6>1 DEF c
        <5>2. CASE ConnectFails(c) \/ Refused(c)
          <6>1. call'[c] = After(c, FALSE) /\ call[c].pc # "none"
            BY <3>2, <5>2 DEF ConnectFails, Refused
          <6>. QED
            BY <4>3, <6>1 DEF c
        <5>3. CASE Answer(c)
          BY <3>4, <5>3 DEF Answer, c
        <5>. QED
          BY <4>5, <5>1, <5>2, <5>3
      <4>7. req[r].pc = "write" => (call'[c].pc \in Before => call[c].pc \in Before)
        <5>1. CASE Acquire(c) \/ Connect(c)
          BY <5>1 DEF Acquire, Connect
        <5>2. CASE ConnectFails(c) \/ Refused(c)
          <6>1. call'[c] = After(c, FALSE) /\ call[c].pc # "none"
            BY <3>2, <5>2 DEF ConnectFails, Refused
          <6>. QED
            BY <4>3, <6>1
        <5>3. CASE Answer(c)
          <6>1. call'[c] = After(c, call[c].ses \in open) /\ call[c].pc = "answer"
            BY <3>2, <5>3 DEF Answer
          <6>. QED
            BY <4>4, <6>1
        <5>4. CASE ReadJobs(r, i)
          BY <5>4 DEF ReadJobs
        <5>. QED
          BY <4>5, <5>1, <5>2, <5>3, <5>4
      <4>8. ReadJobs(r, i) => req'[r].saw = jobs /\ req[r].pc = "read"
        BY <1>5 DEF ReadJobs, IsRequest, Fields
      <4>9. Own(r)'
        BY <1>1, <2>1, <3>4, <4>6, <4>7, <4>8 DEF c
      <4>. QED
        BY <1>2, <2>2, <4>9
    <3>. QED
      BY <3>5, <3>6
  <2>4. CASE Edit(r)
    <3>. DEFINE g == Made(r, Read(r))
    <3>1. /\ req[r].pc = "read" /\ Returned(r)
          /\ Editable(Read(r), req[r].op, req[r].arg.id)
          /\ req' = [req EXCEPT ![r].pc = "write", ![r].arg = g, ![r].saw = Read(r),
                       ![r].out = Edited(AsList(Read(r)), req[r].op, g)]
      BY <2>4 DEF Edit
    <3>. HIDE DEF g
    <3>2. /\ req'[r].op = req[r].op /\ req'[r].pc = "write" /\ req'[r].arg = g
          /\ req'[r].saw = Read(r)
          /\ req'[r].out = Edited(AsList(Read(r)), req[r].op, g)
      BY <1>5, <3>1 DEF IsRequest, Fields
    <3>3. CallAt(req[r].pc, call[<<r, 1>>])
      BY DEF RouteInv, Control
    <3>4. CASE Succeeded(r)
      <4>1. Read(r) = req[r].saw
        BY <3>4 DEF Read
      <4>2. call[<<r, 1>>].pc = "done" /\ call[<<r, 1>>].ok
        BY <3>1, <3>3, <3>4 DEF Returned, Succeeded, CallAt
      <4>3. HasRead(r)
        BY <3>1, <4>2
      <4>. QED
        BY <1>1, <1>2, <2>1, <2>2, <3>2, <4>1, <4>3
    <3>5. CASE ~Succeeded(r)
      <4>1. Read(r) = NoFile
        BY <3>5 DEF Read
      <4>2. req[r].op = "create"
        BY <3>1, <4>1 DEF Editable, NoFile
      <4>. QED
        BY <1>2, <2>2, <3>2, <4>1, <4>2
    <3>. QED
      BY <3>4, <3>5
  <2>5. CASE EnterLock(r)
    <3>1. "read" \in Helpers
      BY DEF Helpers, Commands
    <3>2. call'[<<r, 1>>] = Begun("read")
      BY <2>5, <3>1, CallsStarted DEF EnterLock, RouteInv, Records
    <3>3. req'[r].pc = "read"
      BY <1>5, <2>5 DEF EnterLock, IsRequest, Fields
    <3>. QED
      BY <1>2, <2>2, <3>2, <3>3 DEF Begun
  <2>6. CASE WriteSkill(r)
    <3>1. /\ req'[r].op = req[r].op /\ req'[r].pc = "write"
          /\ req[r].op \notin EditOps
      BY <1>5, <2>6 DEF WriteSkill, IsRequest, Fields, RouteInv, Control, PcsOf, EditOps
    <3>. QED
      BY <1>2, <2>2, <3>1
  <2>7. CASE BeginReading(r) \/ NextRound(r) \/ BeginSkillPut(r) \/ BeginGateway(r)
             \/ Enqueue(r)
    <3>1. req'[r].pc \in {"round", "list", "command", "queue"}
      BY <1>5, <2>7 DEF BeginReading, NextRound, BeginSkillPut, BeginGateway, Enqueue,
         IsRequest, Fields
    <3>. QED
      BY <1>2, <2>2, <3>1
  <2>8. CASE \/ NotFound(r) \/ EndReading(r) \/ EditRefused(r) \/ EndEdit(r)
             \/ EndSkillPut(r) \/ EndGateway(r)
    <3>1. req'[r] = NotPosted
      BY <1>5, <2>8 DEF NotFound, EndReading, EditRefused, EndEdit, EndSkillPut,
         EndGateway, Release
    <3>. QED
      BY <1>2, <2>2, <3>1 DEF NotPosted
  <2>9. CASE \E op \in Ops : \E arg : Post(r, op, arg)
    <3>1. req'[r].pc = "exists"
      BY <1>5, <2>9 DEF Post, NotPosted
    <3>. QED
      BY <1>2, <2>2, <3>1
  <2>. QED
    BY <1>7, <2>3, <2>4, <2>5, <2>6, <2>7, <2>8, <2>9 DEF RequestStep
<1>8. ASSUME NEW r \in Reqs, OpenTmp(r) \/ FillTmp(r) \/ Mv(r)
      PROVE  EditInv'
  <2>1. StepOf(r)
    BY <1>8, OneSteps DEF RequestStep
  <2>2. /\ req[r].pc = "write" /\ (req[r].op \in EditOps <=> req[r].op # "skillPut")
        /\ \A k \in Fields \ {"after", "at"} : req'[r][k] = req[r][k]
    BY <1>8, OpenTmpDoes, FillTmpDoes, MvDoes
  <2>3. /\ req'[r].op = req[r].op /\ req'[r].pc = req[r].pc /\ req'[r].arg = req[r].arg
        /\ req'[r].saw = req[r].saw /\ req'[r].out = req[r].out
    BY <2>2 DEF Fields
  <2>4. CASE OpenTmp(r) \/ FillTmp(r)
    <3>1. jobs' = jobs /\ call[<<r, 1>>].pc \in {"exec", "put"}
      BY <2>4, OpenTmpDoes, FillTmpDoes DEF OpenTmp
    <3>2. Own(r)'
      BY <1>1, <2>2, <2>3, <3>1
    <3>. QED
      BY <1>2, <1>6, <2>1, <3>1, <3>2
  <2>5. CASE Mv(r)
    <3>1. (jobs' = jobs \/ Moves(r)) /\ call'[<<r, 1>>].pc \in {"answer", "done"}
      BY <2>5, MvDoes DEF Moves, InLock
    <3>2. Own(r)'
      BY <1>1, <2>2, <2>3, <3>1
    <3>. QED
      BY <1>2, <1>6, <2>1, <3>1, <3>2
  <2>. QED
    BY <1>8, <2>4, <2>5
<1>9. CASE \/ (Expire \/ Break) /\ UNCHANGED <<boxVars, routeVars>>
           \/ UNCHANGED RoutesVars
  <2>1. UNCHANGED <<req, call, jobs>>
    BY <1>9 DEF Expire, Break, RoutesVars, routeVars, linkVars, boxVars
  <2>. QED
    BY <2>1 DEF EditInv
<1>. QED
  BY <1>7, <1>8, <1>9 DEF DashboardNext, RequestStep

\* So a change of jobs.json is one request's edit of what is there.
LEMMA EditInvEditStep ==
  ASSUME RouteInv, CacheInv, UploadInv, EditInv, [DashboardNext]_RoutesVars
  PROVE  EditStep
<1>1. ASSUME NEW r \in Reqs, Moves(r)
      PROVE  /\ req[r].saw = jobs \/ (req[r].op = "create" /\ req[r].saw = NoFile)
             /\ req[r].out = Edited(AsList(req[r].saw), req[r].op, req[r].arg)
  <2>1. /\ req[r].op \in EditOps /\ req[r].pc = "write"
        /\ call[<<r, 1>>].pc = "mv"
    BY <1>1, MvDoes DEF Moves, InLock
  <2>. QED
    BY <2>1 DEF EditInv
<1>. QED
  BY <1>1, JobsStep DEF EditStep, Moves

\* At first the skill file is whole and has no .tmp file.
LEMMA SkillInvInit == LinkInit /\ RoutesInit => SkillInv
BY DEF LinkInit, RoutesInit, SkillInv, NoTmp, Targets

\* Where a request has its skill file open after a mv.
LEMMA MovedSkill ==
  ASSUME RouteInv, NEW q \in Reqs, req[q].op = "skillPut"
  PROVE  /\ req[q].at = "tmp" => Moved("skill")[q].at = "file"
         /\ Moved("skill")[q].op = "skillPut"
<1>1. IsRequest(req[q]) /\ Target(q) = "skill"
  BY DEF RouteInv, Records, Target
<1>2. Moved("skill")[q] =
        [req[q] EXCEPT !.at = CASE @ = "tmp" -> "file" [] @ = "file" -> "gone"
                                [] OTHER -> @]
  BY <1>1 DEF Moved
<1>. QED
  BY <1>1, <1>2 DEF IsRequest, Fields

\* A skill file that is not whole is still being filled.
LEMMA SkillInvStep ==
  RouteInv /\ CacheInv /\ UploadInv /\ SkillInv /\ [DashboardNext]_RoutesVars => SkillInv'
<1>. SUFFICES ASSUME RouteInv, CacheInv, UploadInv, SkillInv, [DashboardNext]_RoutesVars
              PROVE  SkillInv'
  OBVIOUS
<1>1. ASSUME NEW r \in Reqs, StepOf(r), NEW q \in Reqs \ {r}, req'[q].at = req[q].at
      PROVE  \A f : SkillOpen(q, f)' <=> SkillOpen(q, f)
  BY <1>1 DEF StepOf, Keeps, SkillOpen
<1>2. ASSUME NEW r \in Reqs,
             \/ \E op \in Ops : \E arg : Post(r, op, arg)
             \/ RequestStep(r) /\ ~(OpenTmp(r) \/ FillTmp(r) \/ Mv(r))
      PROVE  SkillInv'
  <2>1. /\ StepOf(r) /\ UNCHANGED <<tmp, skill>> /\ (cut => cut')
        /\ Uploading(r) => cut'
        /\ \A q \in Reqs \ {r} : req'[q].at = req[q].at
    BY <1>2, OneSteps, NoUpload
  <2>2. CASE ~cut'
    <3>1. ~cut /\ \A f : ~SkillOpen(r, f)
      BY <2>1, <2>2 DEF SkillOpen, Uploading
    <3>2. \A q \in Reqs : \A f : SkillOpen(q, f) => SkillOpen(q, f)'
      BY <1>1, <2>1, <3>1
    <3>. QED
      BY <2>1, <3>1, <3>2 DEF SkillInv
  <2>. QED
    BY <2>2 DEF SkillInv
<1>3. ASSUME NEW r \in Reqs, OpenTmp(r) \/ FillTmp(r) \/ Mv(r), req[r].op # "skillPut"
      PROVE  SkillInv'
  <2>1. StepOf(r)
    BY <1>3, OneSteps DEF RequestStep
  <2>2. /\ Target(r) = "jobs" /\ req[r].op \in EditOps
        /\ \A k \in Fields \ {"after", "at"} : req'[r][k] = req[r][k]
    BY <1>3, OpenTmpDoes, FillTmpDoes, MvDoes DEF Target
  <2>3. UNCHANGED <<skill, cut>> /\ tmp'["skill"] = tmp["skill"]
    <3>1. "skill" \in Targets \ {Target(r)}
      BY <2>2 DEF Targets
    <3>2. CASE OpenTmp(r)
      BY <3>1, <3>2, OpenTmpDoes
    <3>3. CASE FillTmp(r)
      BY <2>2, <3>1, <3>3, FillTmpDoes
    <3>4. CASE Mv(r)
      BY <2>2, <3>1, <3>4, MvDoes
    <3>. QED
      BY <1>3, <3>2, <3>3, <3>4
  <2>4. \A f : ~SkillOpen(r, f) /\ ~SkillOpen(r, f)'
    BY <1>3, <2>2 DEF SkillOpen, Fields
  <2>5. ASSUME NEW q \in Reqs \ {r}, req[q].op = "skillPut"
        PROVE  req'[q].at = req[q].at
    <3>1. CASE OpenTmp(r) \/ FillTmp(r)
      BY <3>1, OpenTmpDoes, FillTmpDoes
    <3>2. CASE Mv(r)
      <4>1. req' = req \/ req' = Moved(Target(r))
        BY <3>2, MvDoes
      <4>2. Moved(Target(r))[q] = req[q]
        BY <2>2, <2>5 DEF Moved, Target
      <4>. QED
        BY <4>1, <4>2
    <3>. QED
      BY <1>3, <3>1, <3>2
  <2>6. \A q \in Reqs : \A f : SkillOpen(q, f) => SkillOpen(q, f)'
    <3>1. ASSUME NEW q \in Reqs \ {r}, NEW f, SkillOpen(q, f)
          PROVE  SkillOpen(q, f)'
      BY <1>1, <2>1, <2>5, <3>1 DEF SkillOpen
    <3>. QED
      BY <2>4, <3>1
  <2>. QED
    BY <2>3, <2>6 DEF SkillInv
<1>4. ASSUME NEW r \in Reqs, OpenTmp(r) \/ FillTmp(r) \/ Mv(r), req[r].op = "skillPut"
      PROVE  SkillInv'
  <2>1. StepOf(r) /\ Target(r) = "skill" /\ req[r].op \notin EditOps
    BY <1>4, OneSteps DEF RequestStep, Target, EditOps
  <2>2. CASE OpenTmp(r)
    <3>1. /\ skill' = skill /\ cut' = cut /\ SkillOpen(r, "tmp")'
          /\ \A q \in Reqs \ {r} : req'[q].at = req[q].at
      BY <1>4, <2>2, OpenTmpDoes DEF SkillOpen, Fields
    <3>2. call[<<r, 1>>].pc # "put"
      BY <2>2 DEF OpenTmp
    <3>3. \A q \in Reqs \ {r} : \A f : SkillOpen(q, f) => SkillOpen(q, f)'
      BY <1>1, <2>1, <3>1
    <3>4. \A f : ~SkillOpen(r, f)
      BY <3>2 DEF SkillOpen
    <3>. QED
      BY <3>1, <3>3, <3>4 DEF SkillInv
  <2>3. CASE FillTmp(r)
    <3>1. cut' = cut /\ req' = req
      BY <2>3, FillTmpDoes
    <3>2. \A q \in Reqs \ {r} : \A f : SkillOpen(q, f) => SkillOpen(q, f)'
      BY <1>1, <2>1, <3>1
    <3>0. PICK whole \in BOOLEAN :
            /\ ~SharesFile(r) => whole
            /\ IF req[r].at = "tmp"
                 THEN tmp'[Target(r)] =
                        Upload(r, whole, req[r].out, tmp[Target(r)].shared)
                 ELSE tmp' = tmp
            /\ IF req[r].op = "skillPut" /\ req[r].at = "file"
                 THEN skill' = [whole |-> whole, by |-> r, shared |-> skill.shared]
                 ELSE UNCHANGED skill
      BY <2>3, FillTmpDoes
    <3>3. CASE req[r].at = "tmp"
      <4>1. /\ tmp'["skill"].whole = whole /\ tmp'["skill"].shared = tmp["skill"].shared
            /\ skill' = skill
        BY <2>1, <3>0, <3>3 DEF Upload
      <4>2. ~tmp["skill"].shared => whole
        BY <2>1, <3>0, <3>3 DEF SharesFile
      <4>3. ~SkillOpen(r, "file")
        BY <3>3 DEF SkillOpen
      <4>. QED
        BY <3>1, <3>2, <4>1, <4>2, <4>3 DEF SkillInv
    <3>4. CASE req[r].at = "file"
      <4>1. /\ tmp' = tmp /\ skill' = [whole |-> whole, by |-> r, shared |-> skill.shared]
            /\ ~skill.shared => whole
        BY <1>4, <2>1, <3>0, <3>4 DEF SharesFile
      <4>2. /\ skill'.whole \/ skill'.shared
            /\ ~SkillOpen(r, "tmp")
        BY <3>4, <4>1 DEF SkillOpen
      <4>. QED
        BY <3>1, <3>2, <4>1, <4>2 DEF SkillInv
    <3>5. CASE req[r].at \notin {"tmp", "file"}
      <4>1. tmp' = tmp /\ skill' = skill
        BY <3>0, <3>5
      <4>2. ~SkillOpen(r, "tmp") /\ ~SkillOpen(r, "file")
        BY <3>5 DEF SkillOpen
      <4>. QED
        BY <3>1, <3>2, <4>1, <4>2 DEF SkillInv
    <3>. QED
      BY <3>3, <3>4, <3>5
  <2>4. CASE Mv(r)
    <3>1. call[<<r, 1>>].pc # "put" /\ cut' = cut
      BY <2>4, MvDoes
    <3>2. \A f : ~SkillOpen(r, f)
      BY <3>1 DEF SkillOpen
    <3>3. CASE req' = req /\ UNCHANGED <<tmp, jobs, skill>>
      <4>1. \A q \in Reqs : \A f : SkillOpen(q, f) => SkillOpen(q, f)'
        BY <1>1, <2>1, <3>2, <3>3
      <4>. QED
        BY <3>1, <3>3, <4>1 DEF SkillInv
    <3>4. CASE /\ req' = Moved(Target(r)) /\ tmp[Target(r)].there
               /\ tmp'[Target(r)] = NoTmp
               /\ skill' = [whole |-> tmp["skill"].whole, by |-> tmp["skill"].by,
                            shared |-> tmp["skill"].shared]
      <4>1. ~tmp'["skill"].there /\ tmp["skill"].there /\ req' = Moved("skill")
        BY <2>1, <3>4 DEF NoTmp
      <4>2. skill'.whole = tmp["skill"].whole /\ skill'.shared = tmp["skill"].shared
        BY <3>4
      <4>3. ASSUME NEW q \in Reqs, SkillOpen(q, "tmp")
            PROVE  SkillOpen(q, "file")'
        <5>1. q # r
          BY <3>2, <4>3
        <5>2. call'[<<q, 1>>] = call[<<q, 1>>]
          BY <2>1, <5>1 DEF StepOf, Keeps
        <5>. QED
          BY <4>1, <4>3, <5>2, MovedSkill DEF SkillOpen
      <4>. QED
        BY <3>1, <4>1, <4>2, <4>3 DEF SkillInv
    <3>. QED
      BY <1>4, <2>4, <3>3, <3>4, MvDoes
  <2>. QED
    BY <1>4, <2>2, <2>3, <2>4
<1>5. CASE \/ (Expire \/ Break) /\ UNCHANGED <<boxVars, routeVars>>
           \/ UNCHANGED RoutesVars
  <2>1. UNCHANGED <<req, call, tmp, skill, cut>>
    BY <1>5 DEF Expire, Break, RoutesVars, routeVars, linkVars
  <2>. QED
    BY <2>1 DEF SkillInv, SkillOpen
<1>. QED
  BY <1>2, <1>3, <1>4, <1>5 DEF DashboardNext, RequestStep

\* When nobody is left who uploads, the skill file is whole or two had it open.
LEMMA SkillInvWhole ==
  RouteInv /\ SkillInv =>
    (~cut /\ (\A r \in Reqs : req[r].pc = "idle") /\ ~skill.shared => skill.whole)
<1>. SUFFICES ASSUME RouteInv, SkillInv, ~cut, \A r \in Reqs : req[r].pc = "idle",
                     ~skill.shared
              PROVE  skill.whole
  OBVIOUS
<1>1. \A r \in Reqs : \A f : ~SkillOpen(r, f)
  BY UploadAt DEF SkillOpen, Uploading
<1>. QED
  BY <1>1 DEF SkillInv

-------------------------------------------------------------------------------
(* Picked entries of a list *)

\* The ranks of the members of a finite set of numbers are 1 to its size.
LEMMA RankIs ==
  ASSUME NEW S \in SUBSET Nat, IsFiniteSet(S)
  PROVE  /\ Cardinality(S) \in Nat
         /\ \A i \in S : Rank(S, i) \in 1..Cardinality(S)
         /\ \A i, j \in S : Rank(S, i) = Rank(S, j) => i = j
         /\ \A k \in 1..Cardinality(S) : \E i \in S : Rank(S, i) = k
<1>. DEFINE upTo(i) == {j \in S : j <= i}
            f == [i \in S |-> Rank(S, i)]
            T == 1..Cardinality(S)
<1>1. Cardinality(S) \in Nat
  BY FS_CardinalityType
<1>2. ASSUME NEW i \in S
      PROVE  /\ IsFiniteSet(upTo(i)) /\ Rank(S, i) = Cardinality(upTo(i))
             /\ Rank(S, i) \in T
  <2>1. upTo(i) \in SUBSET S /\ i \in upTo(i)
    OBVIOUS
  <2>2. IsFiniteSet(upTo(i)) /\ Cardinality(upTo(i)) <= Cardinality(S)
    BY <2>1, FS_Subset
  <2>3. Cardinality(upTo(i)) \in Nat /\ Cardinality(upTo(i)) # 0
    BY <2>1, <2>2, FS_CardinalityType, FS_EmptySet
  <2>. QED
    BY <1>1, <2>2, <2>3 DEF Rank
<1>3. ASSUME NEW i \in S, NEW j \in S, Rank(S, i) = Rank(S, j), i < j
      PROVE  FALSE
  <2>1. upTo(i) \in SUBSET upTo(j)
    <3>1. \A k \in S : k <= i => k <= j
      BY <1>3
    <3>. QED
      BY <3>1
  <2>2. upTo(i) = upTo(j)
    BY <1>2, <1>3, <2>1, FS_Subset
  <2>3. j \in upTo(j) /\ j \notin upTo(i)
    BY <1>3
  <2>. QED
    BY <2>2, <2>3
<1>4. \A i, j \in S : Rank(S, i) = Rank(S, j) => i = j
  <2>1. \A i, j \in S : i < j \/ j < i \/ i = j
    OBVIOUS
  <2>. QED
    BY <1>3, <2>1
<1>5. f \in Injection(S, T)
  BY <1>2, <1>4 DEF Injection, IsInjective
<1>6. IsFiniteSet(T) /\ Cardinality(T) = Cardinality(S)
  BY <1>1, FS_Interval
<1>7. f \in Surjection(S, T)
  BY <1>5, <1>6, FS_Injection
<1>8. \A k \in T : \E i \in S : Rank(S, i) = k
  BY <1>7 DEF Surjection
<1>. QED
  BY <1>1, <1>2, <1>4, <1>8

\* p has the entries of s at the positions S, each once.
Picks(p, s, S) ==
  \E h \in [DOMAIN p -> S] :
    /\ \A k \in DOMAIN p : p[k] = s[h[k]]
    /\ \A k, l \in DOMAIN p : h[k] = h[l] => k = l
    /\ \A i \in S : \E k \in DOMAIN p : h[k] = i

\* The picked entries are those at the positions, each once.
LEMMA PickedIs ==
  ASSUME NEW T, NEW s \in Seq(T), NEW S \in SUBSET DOMAIN s
  PROVE  /\ Picked(s, S) \in Seq(T)
         /\ S = {} => Picked(s, S) = <<>>
         /\ Picks(Picked(s, S), s, S)
<1>. DEFINE n == Cardinality(S)
            h == [k \in 1..n |-> CHOOSE i \in S : Rank(S, i) = k]
<1>1. DOMAIN s = 1..Len(s) /\ Len(s) \in Nat
  BY LenProperties
<1>2. S \in SUBSET Nat /\ IsFiniteSet(S)
  <2>1. IsFiniteSet(1..Len(s))
    BY <1>1, FS_Interval
  <2>. QED
    BY <1>1, <2>1, FS_Subset
<1>3. /\ n \in Nat
      /\ \A i \in S : Rank(S, i) \in 1..n
      /\ \A i, j \in S : Rank(S, i) = Rank(S, j) => i = j
      /\ \A k \in 1..n : \E i \in S : Rank(S, i) = k
  BY <1>2, RankIs
<1>4. \A k \in 1..n : h[k] \in S /\ Rank(S, h[k]) = k
  BY <1>3
<1>5. Picked(s, S) = [k \in 1..n |-> s[h[k]]]
  BY DEF Picked
<1>. HIDE DEF h
<1>6. \A k \in 1..n : s[h[k]] \in T
  BY <1>1, <1>4, ElementOfSeq
<1>7. Picked(s, S) \in Seq(T) /\ DOMAIN Picked(s, S) = 1..n
  BY <1>3, <1>5, <1>6, IsASeq
<1>8. S = {} => Picked(s, S) = <<>>
  <2>. SUFFICES ASSUME S = {}
                PROVE  Picked(s, S) = <<>>
    OBVIOUS
  <2>1. n = 0
    BY FS_EmptySet
  <2>2. Len(Picked(s, S)) = 0
    BY <1>7, <2>1, LenProperties
  <2>. QED
    BY <1>7, <2>2, EmptySeq
<1>9. h \in [DOMAIN Picked(s, S) -> S]
  BY <1>4, <1>7 DEF h
<1>10. \A i \in S : \E k \in DOMAIN Picked(s, S) : h[k] = i
  BY <1>3, <1>4, <1>7
<1>11. \A k, l \in DOMAIN Picked(s, S) : h[k] = h[l] => k = l
  BY <1>4, <1>7
<1>12. \A k \in DOMAIN Picked(s, S) : Picked(s, S)[k] = s[h[k]]
  BY <1>5, <1>7
<1>. HIDE DEF n
<1>13. Picks(Picked(s, S), s, S)
  BY <1>9, <1>10, <1>11, <1>12, Zenon DEF Picks
<1>. QED
  BY <1>7, <1>8, <1>13

-------------------------------------------------------------------------------
(* Types, and that no id is in a list of jobs twice *)

\* Lists of jobs in which no id is there twice.
JobLists == {l \in Seq(Job) : \A i, j \in DOMAIN l : l[i].id = l[j].id => i = j}

\* No job at all, and what is picked from such a list.
LEMMA JobListsPicked ==
  /\ <<>> \in JobLists
  /\ \A l \in JobLists : \A S \in SUBSET DOMAIN l : Picked(l, S) \in JobLists
<1>1. <<>> \in JobLists
  BY EmptySeq DEF JobLists
<1>2. ASSUME NEW l \in JobLists, NEW S \in SUBSET DOMAIN l
      PROVE  Picked(l, S) \in JobLists
  <2>. DEFINE p == Picked(l, S)
  <2>1. l \in Seq(Job)
    BY DEF JobLists
  <2>2. p \in Seq(Job) /\ Picks(p, l, S)
    BY <2>1, PickedIs
  <2>. HIDE DEF p
  <2>3. \A i, j \in DOMAIN p : p[i].id = p[j].id => i = j
    BY <2>2 DEF JobLists, Picks
  <2>. QED
    BY <2>2, <2>3 DEF JobLists, p
<1>. QED
  BY <1>1, <1>2

\* A list whose jobs are replaced by jobs with the same ids.
LEMMA JobListsChanged ==
  ASSUME NEW l \in JobLists, NEW m, DOMAIN m = DOMAIN l, m \in Seq(Job),
         \A i \in DOMAIN l : m[i].id = l[i].id
  PROVE  m \in JobLists /\ IdsIn(m) = IdsIn(l)
BY DEF JobLists, IdsIn

\* A list with one more job, of a new id.
LEMMA JobListsAppended ==
  ASSUME NEW l \in JobLists, NEW j \in Job, j.id \notin IdsIn(l)
  PROVE  Append(l, j) \in JobLists
<1>1. l \in Seq(Job) /\ Len(l) \in Nat /\ DOMAIN l = 1..Len(l)
  BY LenProperties DEF JobLists
<1>2. /\ Append(l, j) \in Seq(Job)
      /\ Len(Append(l, j)) = Len(l) + 1
      /\ \A i \in 1..Len(l) : Append(l, j)[i] = l[i]
      /\ Append(l, j)[Len(l) + 1] = j
  BY <1>1, AppendProperties
<1>3. DOMAIN Append(l, j) = 1..(Len(l) + 1)
  BY <1>2, LenProperties
<1>4. \A i \in 1..Len(l) : l[i].id # j.id
  BY <1>1 DEF IdsIn
<1>5. ASSUME NEW i \in 1..(Len(l) + 1), NEW k \in 1..(Len(l) + 1),
             Append(l, j)[i].id = Append(l, j)[k].id
      PROVE  i = k
  <2>1. (i \in 1..Len(l) \/ i = Len(l) + 1) /\ (k \in 1..Len(l) \/ k = Len(l) + 1)
    BY <1>1
  <2>. QED
    BY <1>1, <1>2, <1>4, <1>5, <2>1 DEF JobLists
<1>. QED
  BY <1>2, <1>3, <1>5 DEF JobLists

\* An edit of a list, with a new id for a create and one of the list's for the
\* others, is such a list.
LEMMA EditedIs ==
  ASSUME NEW l \in JobLists, NEW op \in EditOps, NEW arg \in Args,
         op = "create" <=> arg.id \notin IdsIn(l)
  PROVE  Edited(l, op, arg) \in JobLists
<1>1. l \in Seq(Job) /\ Len(l) \in Nat /\ DOMAIN l = 1..Len(l)
  BY LenProperties DEF JobLists
<1>2. CASE op = "create"
  <2>1. NewJob(arg) \in Job /\ NewJob(arg).id = arg.id
    BY DEF NewJob, Args, Job
  <2>2. Edited(l, op, arg) = Append(l, NewJob(arg))
    BY <1>2 DEF Edited
  <2>. QED
    BY <1>2, <2>1, <2>2, JobListsAppended
<1>3. CASE op = "delete"
  <2>1. Edited(l, op, arg) = Picked(l, {i \in DOMAIN l : l[i].id # arg.id})
    BY <1>3 DEF Edited
  <2>. QED
    BY <2>1, JobListsPicked
<1>4. CASE op \in {"toggle", "put"}
  <2>. DEFINE n == FirstWithId(l, arg.id)
  <2>1. PICK i \in DOMAIN l : l[i].id = arg.id
    BY <1>4 DEF IdsIn
  <2>2. \A j \in 1..(i - 1) : l[j].id # arg.id
    BY <1>1, <2>1 DEF JobLists
  <2>3. n \in DOMAIN l /\ l[n].id = arg.id
    BY <2>1, <2>2 DEF FirstWithId
  <2>. HIDE DEF n
  <2>4. l[n] \in Job
    BY <1>1, <2>3, ElementOfSeq
  <2>5. ASSUME NEW x \in Job, x.id = l[n].id, Edited(l, op, arg) = [l EXCEPT ![n] = x]
        PROVE  Edited(l, op, arg) \in JobLists
    <3>1. [l EXCEPT ![n] = x] \in Seq(Job)
      BY <1>1, <2>3, ExceptSeq
    <3>2. /\ DOMAIN [l EXCEPT ![n] = x] = DOMAIN l
          /\ \A k \in DOMAIN l : [l EXCEPT ![n] = x][k].id = l[k].id
      BY <2>3, <2>5
    <3>. QED
      BY <2>5, <3>1, <3>2, JobListsChanged
  <2>6. CASE op = "toggle"
    <3>1. [l[n] EXCEPT !.enabled = ~@] \in Job /\ [l[n] EXCEPT !.enabled = ~@].id = l[n].id
      BY <2>4 DEF Job
    <3>2. Edited(l, op, arg) = [l EXCEPT ![n] = [l[n] EXCEPT !.enabled = ~@]]
      BY <2>3, <2>6 DEF Edited, n
    <3>. QED
      BY <2>5, <3>1, <3>2
  <2>7. CASE op = "put"
    <3>. DEFINE x == [l[n] EXCEPT !.name = arg.name, !.body = arg.body,
                                  !.enabled = arg.enabled]
    <3>1. x \in Job /\ x.id = l[n].id
      BY <2>4 DEF Job, Args
    <3>2. Edited(l, op, arg) = [l EXCEPT ![n] = x]
      BY <2>3, <2>7 DEF Edited, n
    <3>. QED
      BY <2>5, <3>1, <3>2
  <2>. QED
    BY <1>4, <2>6, <2>7
<1>. QED
  BY <1>2, <1>3, <1>4 DEF EditOps

Files == [shape : Shapes, list : JobLists]

\* The contents of a .tmp file.
Uploaded == [there : BOOLEAN, whole : BOOLEAN, by : Reqs \cup {NoReq}, list : JobLists,
             shared : BOOLEAN]

SkillFile == [whole : BOOLEAN, by : Reqs \cup {NoReq}, shared : BOOLEAN]

\* The fields of a request but those of Control.
ReqTyped(x) ==
  /\ x.arg \in Args /\ x.after \in Reqs \cup {NoReq} /\ x.round \in 0..5
  /\ x.saw \in Files /\ x.out \in JobLists
  /\ x.at \in {"none", "tmp", "file", "gone"}

\* What lies on the box, and what the scheduler has of it.
FilesTyped == jobs \in Files /\ gateway \in BOOLEAN /\ sched \in JobLists

UploadsTyped ==
  /\ tmp \in [Targets -> Uploaded]
  /\ skill \in SkillFile

LineTyped == tail \in Reqs \cup {NoReq} /\ \A r \in Reqs : ReqTyped(req[r])

FaultsTyped == breaks \in 0..MaxBreaks /\ raced \in BOOLEAN /\ cut \in BOOLEAN

TypesInv == FilesTyped /\ UploadsTyped /\ LineTyped /\ FaultsTyped

\* There is something to ask for.
LEMMA AnyArgIs == AnyArg \in Args
<1>1. PICK i \in Ids, n \in JobNames, b \in Bodies : TRUE
  BY BoxAssumption
<1>2. [id |-> i, name |-> n, body |-> b, enabled |-> TRUE] \in Args
  BY DEF Args
<1>. QED
  BY <1>2 DEF AnyArg

\* A request that is not posted, and what the dashboard asks for.
LEMMA AskedIs ==
  /\ ReqTyped(NotPosted)
  /\ \A op \in Ops : Asked(op) \subseteq Args
<1>1. ReqTyped(NotPosted)
  BY AnyArgIs, JobListsPicked DEF ReqTyped, NotPosted, NoFile, Files, Shapes
<1>2. ASSUME NEW op \in Ops
      PROVE  Asked(op) \subseteq Args
  <2>1. /\ [AnyArg EXCEPT !.enabled = TRUE] \in Args
        /\ \A i \in Ids : [AnyArg EXCEPT !.id = i] \in Args
        /\ \A i \in Ids, b \in Bodies :
             [AnyArg EXCEPT !.id = i, !.body = b, !.enabled = FALSE] \in Args
    BY AnyArgIs DEF Args
  <2>. DEFINE puts == {[AnyArg EXCEPT !.id = i, !.body = b, !.enabled = FALSE] :
                         i \in Ids, b \in Bodies}
              names == {[AnyArg EXCEPT !.id = i] : i \in Ids}
              made == {[AnyArg EXCEPT !.enabled = TRUE]}
  <2>2. puts \subseteq Args /\ names \subseteq Args /\ made \subseteq Args
    <3>1. puts \subseteq Args
      <4>. DEFINE e(i, b) == [AnyArg EXCEPT !.id = i, !.body = b, !.enabled = FALSE]
      <4>1. \A i \in Ids, b \in Bodies : e(i, b) \in Args
        BY <2>1
      <4>2. puts = {e(i, b) : i \in Ids, b \in Bodies}
        OBVIOUS
      <4>. HIDE DEF e, puts
      <4>. QED
        BY <4>1, <4>2
    <3>2. names \subseteq Args
      BY <2>1
    <3>3. made \subseteq Args
      BY <2>1
    <3>. HIDE DEF puts, names, made
    <3>. QED
      BY <3>1, <3>2, <3>3
  <2>. HIDE DEF puts, names, made
  <2>3. Asked(op) \in {made, puts, names, {AnyArg}}
    <3>1. Asked(op) = CASE op = "create" -> made
                        [] op = "put" -> puts
                        [] op \in {"toggle", "delete"} -> names
                        [] OTHER -> {AnyArg}
      BY DEF Asked, made, puts, names
    <3>. QED
      BY <3>1
  <2>. QED
    BY AnyArgIs, <2>2, <2>3
<1>. QED
  BY <1>1, <1>2

\* At first.
LEMMA TypesInvInit == LinkInit /\ RoutesInit /\ FilesTyped => TypesInv
<1>1. NoTmp \in Uploaded
  BY JobListsPicked DEF NoTmp, Uploaded
<1>. SUFFICES ASSUME LinkInit, RoutesInit, FilesTyped
              PROVE  UploadsTyped /\ LineTyped /\ FaultsTyped
  BY DEF TypesInv
<1>2. UploadsTyped
  BY <1>1 DEF RoutesInit, UploadsTyped, SkillFile
<1>3. LineTyped
  BY AskedIs DEF RoutesInit, LineTyped
<1>4. FaultsTyped
  <2>1. breaks \in 0..MaxBreaks
    BY LinkAssumption DEF LinkInit
  <2>2. raced \in BOOLEAN /\ cut \in BOOLEAN
    BY Zenon DEF LinkInit
  <2>. QED
    BY <2>1, <2>2 DEF FaultsTyped
<1>. QED
  BY <1>2, <1>3, <1>4

\* Connections break as often as they may, and the histories are Boolean.
LEMMA FaultsTypedStep == FaultsTyped /\ [DashboardNext]_RoutesVars => FaultsTyped'
<1>. SUFFICES ASSUME FaultsTyped, [DashboardNext]_RoutesVars
              PROVE  FaultsTyped'
  OBVIOUS
<1>1. CASE Break
  BY <1>1, LinkAssumption DEF FaultsTyped, Break
<1>2. ASSUME breaks' = breaks, raced' = raced \/ raced' \in BOOLEAN,
             cut' = cut \/ cut' \in BOOLEAN
      PROVE  FaultsTyped'
  BY <1>2 DEF FaultsTyped
<1>3. ASSUME NEW r \in Reqs, RequestStep(r)
      PROVE  FaultsTyped'
  <2>1. CASE CallStep(r)
    BY <1>2, <2>1 DEF CallStep, AskSession, SessionOpens, CallCutShort, ReadJobs, RunGateway,
       RunOther, CallAnswered, Acquire, Connect, ConnectFails, Refused, SkipPython, Run, Answer
  <2>2. CASE ~CallStep(r)
    BY <1>2, <1>3, <2>2 DEF RequestStep, NotFound, BeginReading, NextRound, EndReading, Enqueue,
       EnterLock, Edit, EditRefused, EndEdit, BeginSkillPut, WriteSkill, EndSkillPut,
       BeginGateway, EndGateway, OpenTmp, FillTmp, Mv, Done, LinkUnchanged, linkVars
  <2>. QED
    BY <2>1, <2>2
<1>4. CASE \E r \in Reqs, op \in Ops : \E arg : Post(r, op, arg)
  BY <1>2, <1>4 DEF Post, linkVars
<1>5. CASE Expire \/ UNCHANGED RoutesVars
  BY <1>2, <1>5 DEF Expire, RoutesVars, linkVars
<1>. QED
  BY <1>1, <1>3, <1>4, <1>5 DEF DashboardNext

\* No route that reads has more than five rounds.
LEMMA ReadersShort ==
  ASSUME NEW op \in DOMAIN ReadRoutes
  PROVE  Len(ReadRoutes[op]) \in 1..5
<1> USE DEF ReadRoutes
<1>1. CASE op \in {"profiles", "stats", "sessions", "messages", "skills", "skillFile",
                   "crons", "gatewayState"}
  BY <1>1 DEF ProfilesCalls, StatsCalls, SessionsCalls, MessagesCalls, SkillsCalls,
     SkillFileCalls, CronCalls, GatewayCalls
<1>2. CASE op \in {"webhooks", "plugins", "curator", "models"}
  BY <1>2 DEF WebhooksCalls, PluginsCalls, CuratorCalls, ModelsCalls
<1>3. CASE op \in {"orgStats", "orgActivity", "orgCrons", "orgSkills"}
  BY <1>3 DEF OrgStatsCalls, OrgActivityCalls, OrgCronsCalls, OrgSkillsCalls
<1>. QED
  BY <1>1, <1>2, <1>3

\* What a request has read and is going to write stays of its type when it goes on.
LEMMA ReqTypedOn ==
  ASSUME NEW x, IsRequest(x), ReqTyped(x)
  PROVE  /\ \A p : ReqTyped([x EXCEPT !.pc = p])
         /\ \A p : \A n \in Reqs \cup {NoReq} : ReqTyped([x EXCEPT !.pc = p, !.after = n])
         /\ \A n \in Reqs \cup {NoReq} : ReqTyped([x EXCEPT !.after = n])
         /\ \A p : \A k \in 0..5 : ReqTyped([x EXCEPT !.pc = p, !.round = k])
         /\ \A k \in 0..5 : ReqTyped([x EXCEPT !.round = k])
         /\ \A f \in Files : ReqTyped([x EXCEPT !.saw = f])
         /\ \A a \in {"none", "tmp", "file", "gone"} : ReqTyped([x EXCEPT !.at = a])
         /\ \A p : \A a \in Args, f \in Files, l \in JobLists :
              ReqTyped([x EXCEPT !.pc = p, !.arg = a, !.saw = f, !.out = l])
BY DEF IsRequest, Fields, ReqTyped

\* What an edit is going to write has no id twice: a create makes one up that is
\* not in the list it read.
LEMMA EditTyped ==
  ASSUME RouteInv, LineTyped, NEW r \in Reqs, Edit(r)
  PROVE  LineTyped'
<1>. DEFINE f == Read(r)
            g == Made(r, f)
            o == Edited(AsList(f), req[r].op, g)
<1>1. req[r].op \in EditOps
  BY DEF RouteInv, Control, PcsOf, Edit, EditOps
<1>2. ReqTyped(req[r]) /\ IsRequest(req[r])
  BY DEF LineTyped, RouteInv, Records
<1>3. f \in Files
  BY <1>2, JobListsPicked DEF ReqTyped, Read, NoFile, Files, Shapes
<1>4. AsList(f) \in JobLists
  BY <1>3, JobListsPicked DEF AsList, Files
<1>5. Editable(f, req[r].op, req[r].arg.id)
  BY DEF Edit
<1>6. ASSUME req[r].op = "create"
      PROVE  g \in Args /\ g.id \notin IdsIn(AsList(f))
  <2>. DEFINE i == CHOOSE i \in NewIds(f) : TRUE
  <2>1. i \in NewIds(f)
    BY <1>5, <1>6 DEF Editable
  <2>2. i \in Ids /\ i \notin IdsIn(AsList(f))
    BY <2>1 DEF NewIds
  <2>3. g = [req[r].arg EXCEPT !.id = i]
    BY <1>6 DEF Made
  <2>. HIDE DEF i, f, g
  <2>4. g \in Args /\ g.id = i
    BY <1>2, <2>2, <2>3 DEF ReqTyped, Args
  <2>. QED
    BY <2>2, <2>4 DEF f
<1>7. ASSUME req[r].op # "create"
      PROVE  g \in Args /\ g.id \in IdsIn(AsList(f))
  <2>1. g = req[r].arg /\ f.shape = "list" /\ req[r].arg.id \in IdsIn(f.list)
    BY <1>5, <1>7 DEF Made, Editable
  <2>. QED
    BY <1>2, <1>7, <2>1 DEF ReqTyped, AsList
<1>8. g \in Args /\ (req[r].op = "create" <=> g.id \notin IdsIn(AsList(f)))
  <2>. HIDE DEF f, g
  <2>. QED
    BY <1>6, <1>7
<1>9. o \in JobLists
  BY <1>1, <1>4, <1>8, EditedIs
<1>10. /\ req' = [req EXCEPT ![r] = [req[r] EXCEPT !.pc = "write", !.arg = g, !.saw = f,
                                                  !.out = o]]
       /\ tail' = tail
  BY DEF Edit
<1>. HIDE DEF f, g, o
<1>. QED
  BY <1>2, <1>3, <1>8, <1>9, <1>10, ReqTypedOn DEF LineTyped, RouteInv, Records

\* A request that goes on without an edit keeps the types of the requests.
LEMMA RequestsTyped ==
  ASSUME RouteInv, CacheInv, TypesInv, NEW r \in Reqs, RequestStep(r), ~Edit(r)
  PROVE  LineTyped'
<1>1. /\ \A q \in Reqs : ReqTyped(req[q]) /\ IsRequest(req[q])
      /\ tail \in Reqs \cup {NoReq} /\ req = [q \in Reqs |-> req[q]]
      /\ jobs \in Files
  BY DEF TypesInv, LineTyped, FilesTyped, RouteInv, Records
<1>2. ASSUME \A q \in Reqs : req'[q] = req[q] \/ ReqTyped(req'[q]),
             tail' \in Reqs \cup {NoReq}
      PROVE  LineTyped'
  BY <1>1, <1>2 DEF LineTyped
<1>3. ASSUME NEW x, ReqTyped(x), req' = [req EXCEPT ![r] = x],
             tail' \in Reqs \cup {NoReq}
      PROVE  LineTyped'
  <2>1. \A q \in Reqs : req'[q] = IF q = r THEN x ELSE req[q]
    BY <1>1, <1>3
  <2>. QED
    BY <1>2, <1>3, <2>1
<1>4. CASE UNCHANGED <<req, tail>>
  BY <1>1, <1>2, <1>4
<1>5. CASE NotFound(r) \/ EndReading(r) \/ EndSkillPut(r) \/ EndGateway(r)
  <2>1. req' = [req EXCEPT ![r] = NotPosted] /\ tail' = tail
    BY <1>5 DEF NotFound, EndReading, EndSkillPut, EndGateway
  <2>. QED
    BY <1>1, <1>3, <2>1, AskedIs
<1>6. CASE BeginReading(r)
  <2>. DEFINE x == [req[r] EXCEPT !.pc = "round", !.round = 1]
  <2>1. req' = [req EXCEPT ![r] = x] /\ tail' = tail
    BY <1>6 DEF BeginReading
  <2>2. ReqTyped(x)
    <3>1. 1 \in 0..5
      OBVIOUS
    <3>. QED
      BY <1>1, <3>1, ReqTypedOn, Zenon
  <2>. HIDE DEF x
  <2>. QED
    BY <1>1, <1>3, <2>1, <2>2
<1>7. CASE NextRound(r)
  <2>. DEFINE k == req[r].round + 1
  <2>1. /\ req' = [req EXCEPT ![r] = [req[r] EXCEPT !.round = k]] /\ tail' = tail
        /\ req[r].round < Len(ReadRoutes[req[r].op])
        /\ req[r].pc = "round"
    BY <1>7 DEF NextRound
  <2>2. req[r].op \in DOMAIN ReadRoutes
    BY <2>1 DEF RouteInv, Control, PcsOf, Ops, EditOps
  <2>3. Len(ReadRoutes[req[r].op]) \in 1..5
    BY <2>2, ReadersShort
  <2>4. k \in 0..5
    <3>1. req[r].round \in 0..5
      BY <1>1 DEF ReqTyped
    <3>2. \A a \in 0..5, n \in 1..5 : a < n => a + 1 \in 0..5
      OBVIOUS
    <3>. QED
      BY <2>1, <2>3, <3>1, <3>2
  <2>. DEFINE x == [req[r] EXCEPT !.round = k]
  <2>5. req' = [req EXCEPT ![r] = x] /\ tail' = tail
    BY <2>1
  <2>. HIDE DEF k
  <2>6. ReqTyped(x)
    BY <1>1, <2>4, ReqTypedOn, Zenon
  <2>. HIDE DEF x
  <2>. QED
    BY <1>1, <1>3, <2>5, <2>6
<1>8. CASE Enqueue(r)
  <2>. DEFINE x == [req[r] EXCEPT !.pc = "queue", !.after = tail]
  <2>1. req' = [req EXCEPT ![r] = x] /\ tail' = r
    BY <1>8 DEF Enqueue
  <2>2. ReqTyped(x)
    BY <1>1, ReqTypedOn, Zenon
  <2>. HIDE DEF x
  <2>. QED
    BY <1>3, <2>1, <2>2
<1>9. CASE EnterLock(r) \/ BeginSkillPut(r) \/ WriteSkill(r) \/ BeginGateway(r)
  <2>1. /\ \E p : req' = [req EXCEPT ![r] = [req[r] EXCEPT !.pc = p]]
        /\ tail' = tail
    BY <1>9 DEF EnterLock, BeginSkillPut, WriteSkill, BeginGateway
  <2>2. PICK p : req' = [req EXCEPT ![r] = [req[r] EXCEPT !.pc = p]]
    BY <2>1
  <2>. DEFINE x == [req[r] EXCEPT !.pc = p]
  <2>3. req' = [req EXCEPT ![r] = x]
    BY <2>2
  <2>4. ReqTyped(x)
    BY <1>1, ReqTypedOn, Zenon
  <2>. HIDE DEF x
  <2>. QED
    BY <1>1, <1>3, <2>1, <2>3, <2>4
<1>10. CASE EditRefused(r) \/ EndEdit(r)
  <2>1. Release(r)
    BY <1>10 DEF EditRefused, EndEdit
  <2>2. \A q \in Reqs : req'[q] \in {NotPosted, req[q], [req[q] EXCEPT !.after = NoReq]}
    BY <2>1 DEF Release
  <2>3. tail' \in Reqs \cup {NoReq}
    BY <1>1, <2>1 DEF Release
  <2>4. \A q \in Reqs : ReqTyped([req[q] EXCEPT !.after = NoReq])
    <3>1. NoReq \in Reqs \cup {NoReq}
      OBVIOUS
    <3>. QED
      BY <1>1, <3>1, ReqTypedOn, Zenon
  <2>. QED
    BY <1>2, <2>2, <2>3, <2>4, AskedIs
<1>11. CASE CallStep(r)
  <2>1. PICK i \in {1, 2} :
          \/ ReadJobs(r, i)
          \/ UNCHANGED <<req, tail>>
    BY <1>11 DEF CallStep, AskSession, SessionOpens, CallCutShort, RunGateway, RunOther,
       CallAnswered, routeVars
  <2>2. CASE ReadJobs(r, i)
    <3>1. req' = [req EXCEPT ![r] = [req[r] EXCEPT !.saw = jobs]] /\ tail' = tail
      BY <2>2 DEF ReadJobs
    <3>. QED
      BY <1>1, <1>3, <3>1, ReqTypedOn
  <2>. QED
    BY <1>4, <2>1, <2>2
<1>12. CASE OpenTmp(r)
  <2>1. req' = [req EXCEPT ![r] = [req[r] EXCEPT !.at = "tmp"]] /\ tail' = tail
    BY <1>12 DEF OpenTmp
  <2>. QED
    BY <1>1, <1>3, <2>1, ReqTypedOn
<1>13. CASE FillTmp(r)
  BY <1>4, <1>13 DEF FillTmp
<1>14. CASE Mv(r)
  <2>1. (req' = req \/ req' = Moved(Target(r))) /\ tail' = tail
    BY <1>14 DEF Mv
  <2>2. CASE req' = Moved(Target(r))
    <3>1. ASSUME NEW q \in Reqs
          PROVE  req'[q] = req[q] \/ \E a \in {"none", "tmp", "file", "gone"} :
                                       req'[q] = [req[q] EXCEPT !.at = a]
      <4>1. req[q].at \in {"none", "tmp", "file", "gone"}
        BY <1>1 DEF ReqTyped
      <4>. QED
        BY <2>2, <4>1 DEF Moved
    <3>2. \A q \in Reqs : \A a \in {"none", "tmp", "file", "gone"} :
            ReqTyped([req[q] EXCEPT !.at = a])
      BY <1>1, ReqTypedOn, Zenon
    <3>3. ASSUME NEW q \in Reqs, req'[q] # req[q]
          PROVE  ReqTyped(req'[q])
      <4>1. PICK a \in {"none", "tmp", "file", "gone"} : req'[q] = [req[q] EXCEPT !.at = a]
        BY <3>1, <3>3
      <4>2. ReqTyped([req[q] EXCEPT !.at = a])
        BY <3>2
      <4>. QED
        BY <4>1, <4>2, Zenon
    <3>. QED
      BY <1>1, <1>2, <2>1, <3>3
  <2>. QED
    BY <1>4, <2>1, <2>2
<1>. QED
  BY <1>5, <1>6, <1>7, <1>8, <1>9, <1>10, <1>11, <1>12, <1>13, <1>14 DEF RequestStep

\* The files of the uploads hold what requests are going to write.
LEMMA UploadsTypedStep ==
  ASSUME RouteInv, UploadInv, TypesInv, NEW r \in Reqs, RequestStep(r)
  PROVE  UploadsTyped'
<1>1. /\ tmp \in [Targets -> Uploaded]
      /\ skill \in SkillFile
      /\ req[r].out \in JobLists
      /\ <<>> \in JobLists
  BY JobListsPicked DEF TypesInv, UploadsTyped, LineTyped, ReqTyped
<1>2. CASE UNCHANGED <<tmp, skill>>
  BY <1>1, <1>2 DEF UploadsTyped
<1>3. Target(r) \in Targets
  BY DEF Target, Targets
<1>4. ASSUME NEW l \in JobLists, NEW b \in BOOLEAN, NEW s \in BOOLEAN
      PROVE  Upload(r, b, l, s) \in Uploaded
  BY DEF Upload, Uploaded
<1>5. NoTmp \in Uploaded
  BY <1>1 DEF NoTmp, Uploaded
<1>6. CASE OpenTmp(r)
  <2>. DEFINE open2 == TmpOpen(Target(r), r)
  <2>1. tmp' = [tmp EXCEPT ![Target(r)] = Upload(r, FALSE, <<>>, open2)] /\ skill' = skill
    BY <1>6 DEF OpenTmp, Upload
  <2>2. open2 \in BOOLEAN
    BY Zenon DEF TmpOpen
  <2>. HIDE DEF open2
  <2>. QED
    BY <1>1, <1>3, <1>4, <2>1, <2>2 DEF UploadsTyped
<1>7. CASE FillTmp(r)
  <2>1. PICK b \in BOOLEAN :
          /\ \/ tmp' = tmp
             \/ tmp' = [tmp EXCEPT ![Target(r)] =
                          Upload(r, b, req[r].out, tmp[Target(r)].shared)]
          /\ skill' = skill \/ skill' = [whole |-> b, by |-> r, shared |-> skill.shared]
    BY <1>7 DEF FillTmp, Upload
  <2>2. tmp[Target(r)].shared \in BOOLEAN /\ skill.shared \in BOOLEAN
    BY <1>1, <1>3 DEF Uploaded, SkillFile
  <2>3. [whole |-> b, by |-> r, shared |-> skill.shared] \in SkillFile
    BY <2>2 DEF SkillFile
  <2>4. skill' \in SkillFile
    BY <1>1, <2>1, <2>3, Zenon
  <2>5. tmp' \in [Targets -> Uploaded]
    BY <1>1, <1>3, <1>4, <2>1, <2>2
  <2>. QED
    BY <2>4, <2>5 DEF UploadsTyped
<1>8. CASE Mv(r)
  <2>. DEFINE t == tmp[Target(r)]
  <2>1. tmp' = tmp \/ tmp' = [tmp EXCEPT ![Target(r)] = NoTmp]
    BY <1>8 DEF Mv
  <2>2. skill' = skill \/ skill' = [whole |-> t.whole, by |-> t.by, shared |-> t.shared]
    BY <1>8 DEF Mv
  <2>3. t.whole \in BOOLEAN /\ t.by \in Reqs \cup {NoReq} /\ t.shared \in BOOLEAN
    BY <1>1, <1>3 DEF Uploaded
  <2>. HIDE DEF t
  <2>4. skill' \in SkillFile
    BY <1>1, <2>2, <2>3 DEF SkillFile
  <2>5. tmp' \in [Targets -> Uploaded]
    BY <1>1, <1>3, <1>5, <2>1
  <2>. QED
    BY <2>4, <2>5 DEF UploadsTyped
<1>9. CASE CallStep(r)
  <2>1. UNCHANGED <<tmp, skill>>
    BY <1>9 DEF CallStep, AskSession, SessionOpens, CallCutShort, ReadJobs, RunGateway,
       RunOther, CallAnswered, routeVars
  <2>. QED
    BY <1>2, <2>1
<1>10. CASE ~(OpenTmp(r) \/ FillTmp(r) \/ Mv(r) \/ CallStep(r))
  <2>1. UNCHANGED <<tmp, skill>>
    BY <1>10 DEF RequestStep, NotFound, BeginReading, NextRound, EndReading, Enqueue,
       EnterLock, Edit, EditRefused, EndEdit, BeginSkillPut, WriteSkill, EndSkillPut,
       BeginGateway, EndGateway
  <2>. QED
    BY <1>2, <2>1
<1>. QED
  BY <1>6, <1>7, <1>8, <1>9, <1>10

\* jobs.json is the list of an upload, and the scheduler takes its copy from it.
LEMMA FilesTypedStep ==
  ASSUME RouteInv, UploadInv, TypesInv, NEW r \in Reqs, RequestStep(r)
  PROVE  FilesTyped'
<1>1. /\ tmp \in [Targets -> Uploaded] /\ req[r].out \in JobLists /\ <<>> \in JobLists
      /\ jobs \in Files /\ gateway \in BOOLEAN /\ sched \in JobLists
      /\ jobs.list \in JobLists
  BY JobListsPicked DEF TypesInv, UploadsTyped, LineTyped, ReqTyped, FilesTyped, Files
<1>2. CASE UNCHANGED boxVars
  BY <1>1, <1>2 DEF FilesTyped, boxVars
<1>3. \A l \in JobLists : /\ [shape |-> "list", list |-> l] \in Files
                         /\ [shape |-> "torn", list |-> l] \in Files
  BY DEF Files, Shapes
<1>4. CASE FillTmp(r)
  <2>1. \/ jobs' = jobs
        \/ jobs' = [shape |-> "list", list |-> req[r].out]
        \/ jobs' = [shape |-> "torn", list |-> req[r].out]
    BY <1>4 DEF FillTmp
  <2>2. UNCHANGED <<gateway, sched>>
    BY <1>4 DEF FillTmp
  <2>. QED
    BY <1>1, <1>3, <2>1, <2>2 DEF FilesTyped
<1>5. CASE Mv(r)
  <2>. DEFINE l == tmp["jobs"].list
  <2>1. \/ jobs' = jobs
        \/ jobs' = [shape |-> "list", list |-> l]
        \/ jobs' = [shape |-> "torn", list |-> l]
    BY <1>5 DEF Mv
  <2>2. UNCHANGED <<gateway, sched>>
    BY <1>5 DEF Mv
  <2>3. l \in JobLists
    BY <1>1 DEF Uploaded, Targets
  <2>. HIDE DEF l
  <2>. QED
    BY <1>1, <1>3, <2>1, <2>2, <2>3 DEF FilesTyped
<1>6. CASE CallStep(r)
  <2>1. UNCHANGED boxVars \/ \E i \in {1, 2} : RunGateway(r, i)
    BY <1>6 DEF CallStep, AskSession, SessionOpens, CallCutShort, ReadJobs, RunOther,
       CallAnswered
  <2>2. CASE \E i \in {1, 2} : RunGateway(r, i)
    <3>1. /\ jobs' = jobs
          /\ \/ gateway' = TRUE /\ sched' = jobs.list
             \/ gateway' = FALSE /\ sched' = <<>>
             \/ gateway' = gateway /\ sched' = sched
      BY <2>2 DEF RunGateway, StartGateway, StopGateway
    <3>2. gateway' \in BOOLEAN
      BY <1>1, <3>1, Zenon
    <3>3. jobs' \in Files /\ sched' \in JobLists
      BY <1>1, <3>1, Zenon
    <3>. QED
      BY <3>2, <3>3 DEF FilesTyped
  <2>. QED
    BY <1>2, <2>1, <2>2
<1>7. CASE ~(FillTmp(r) \/ Mv(r) \/ CallStep(r))
  <2>1. UNCHANGED boxVars
    BY <1>7 DEF RequestStep, NotFound, BeginReading, NextRound, EndReading, Enqueue,
       EnterLock, Edit, EditRefused, EndEdit, BeginSkillPut, WriteSkill, EndSkillPut,
       BeginGateway, EndGateway, OpenTmp, boxVars
  <2>. QED
    BY <1>2, <2>1
<1>. QED
  BY <1>4, <1>5, <1>6, <1>7

\* Every step of the dashboard keeps the types.
LEMMA TypesInvStep ==
  RouteInv /\ CacheInv /\ UploadInv /\ TypesInv /\ [DashboardNext]_RoutesVars => TypesInv'
<1>. SUFFICES ASSUME RouteInv, CacheInv, UploadInv, TypesInv, [DashboardNext]_RoutesVars
              PROVE  TypesInv'
  OBVIOUS
<1>1. FaultsTyped'
  BY FaultsTypedStep DEF TypesInv
<1>2. CASE \E r \in Reqs : RequestStep(r)
  BY <1>1, <1>2, EditTyped, RequestsTyped, UploadsTypedStep, FilesTypedStep DEF TypesInv
<1>3. CASE UNCHANGED <<boxVars, routeVars>>
  BY <1>1, <1>3 DEF TypesInv, FilesTyped, UploadsTyped, LineTyped, boxVars, routeVars
<1>4. CASE \E r \in Reqs, op \in Ops : \E arg \in Args : Post(r, op, arg)
  <2>1. PICK r \in Reqs, op \in Ops, arg \in Args : Post(r, op, arg)
    BY <1>4
  <2>. DEFINE x == [NotPosted EXCEPT !.op = op, !.pc = "exists", !.arg = arg]
  <2>2. ReqTyped(x)
    BY AskedIs, NotPostedIs DEF ReqTyped, IsRequest, Fields
  <2>3. req' = [req EXCEPT ![r] = x] /\ UNCHANGED <<boxVars, tail, tmp, skill>>
    BY <2>1 DEF Post
  <2>. HIDE DEF x
  <2>4. \A q \in Reqs : req'[q] = IF q = r THEN x ELSE req[q]
    BY <2>3 DEF RouteInv, Records
  <2>5. LineTyped'
    BY <2>2, <2>3, <2>4 DEF TypesInv, LineTyped
  <2>6. FilesTyped' /\ UploadsTyped'
    BY <2>3 DEF TypesInv, FilesTyped, UploadsTyped, boxVars
  <2>. QED
    BY <1>1, <2>5, <2>6 DEF TypesInv
<1>. QED
  BY <1>2, <1>3, <1>4 DEF DashboardNext, RoutesVars

\* What the run's type invariant says of the dashboard.
LEMMA TypesInvRoutes == RouteInv /\ CacheInv /\ TypesInv => RoutesTypeOK
<1>. SUFFICES ASSUME RouteInv, CacheInv, TypesInv
              PROVE  RoutesTypeOK
  OBVIOUS
<1>1. JobLists \subseteq Seq(Job) /\ Files \subseteq File
  BY DEF JobLists, Files, File
<1>2. BoxTypeOK
  BY <1>1 DEF TypesInv, FilesTyped, BoxTypeOK
<1>3. LinkTypeOK
  <2>1. CallRecord = [pc : {"none", "start", "connect", "exec", "put", "mv", "answer", "done"},
                      helper : Helpers, left : 0..1,
                      ses : Sessions \cup {NoSes}, ok : BOOLEAN]
    <3>1. {0, 1} = 0..1
      OBVIOUS
    <3>. QED
      BY <3>1 DEF CallRecord, CallPcs
  <2>2. /\ breaks \in 0..MaxBreaks
        /\ {raced, cut} \subseteq BOOLEAN
    BY DEF TypesInv, FaultsTyped
  <2>. QED
    BY <2>1, <2>2 DEF RouteInv, Records, CacheInv, LinkTypeOK
<1>4. ASSUME NEW r \in Reqs
      PROVE  req[r] \in Request
  <2>1. ReqTyped(req[r]) /\ IsRequest(req[r]) /\ req[r].op \in Ops /\ req[r].pc \in PcsOf(req[r].op)
    BY DEF TypesInv, LineTyped, RouteInv, Records, Control
  <2>2. req[r].pc \in {"idle", "exists", "queue", "round", "read", "list", "write", "command"}
    BY <2>1 DEF PcsOf
  <2>3. req[r].saw \in File /\ req[r].out \in Seq(Job)
    BY <1>1, <2>1 DEF ReqTyped
  <2>. QED
    BY <2>1, <2>2, <2>3 DEF ReqTyped, IsRequest, Fields, Request
<1>5. req \in [Reqs -> Request]
  BY <1>4 DEF RouteInv, Records
<1>6. tmp \in [Targets -> [there : BOOLEAN, whole : BOOLEAN,
                           by : Reqs \cup {NoReq}, list : Seq(Job), shared : BOOLEAN]]
  <2>1. Uploaded \subseteq [there : BOOLEAN, whole : BOOLEAN,
                            by : Reqs \cup {NoReq}, list : Seq(Job), shared : BOOLEAN]
    BY <1>1 DEF Uploaded
  <2>. QED
    BY <2>1 DEF TypesInv, UploadsTyped
<1>. QED
  BY <1>2, <1>3, <1>5, <1>6 DEF RoutesTypeOK, TypesInv, UploadsTyped, LineTyped, SkillFile

===============================================================================
