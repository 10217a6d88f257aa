---------------------------- MODULE DashboardJobs ----------------------------
(***************************************************************************)
(* The dashboard's jobs: the mutating routes of src/server/routes/         *)
(* deployments.ts, the SingleFlight lock they take per deployment name, and *)
(* the ReporterBus that records the events of a job and relays them to the *)
(* browsers watching it.                                                   *)
(*                                                                         *)
(* The server is one thread: an action is the code between two awaits.  A  *)
(* route tests the lock, awaits state.toml (and, for `up`, an import), and *)
(* takes the lock afterwards, so other requests run in between.  What an   *)
(* orchestrator does to the cloud and to the box is not here: it reports   *)
(* progress, then returns or throws.  A request makes at most one job, so  *)
(* the request stands for the random job id.                               *)
(***************************************************************************)
EXTENDS Naturals, Sequences

CONSTANTS
  Reqs,         \* the requests, and the jobs they make
  Names,        \* the deployment names in the URL
  Socks,        \* the web sockets of the browsers
  NoJob,        \* in place of a job where there is none
  MaxBuffer,    \* MAX_BUFFER, 1000 in the code
  MaxProgress   \* bound: progress events of one job

ASSUME JobsAssumption ==
  /\ NoJob \notin Reqs
  /\ MaxBuffer \in Nat \ {0}
  /\ MaxProgress \in Nat

VARIABLES
  inflight,   \* SingleFlight.inflight: name -> job holding it, or NoJob
  req,        \* request -> where its handler is, its route and its URL name
  job,        \* ReporterBus.jobs: job -> status and buffered events;
              \* `log` is history: every event the job ever emitted
  sock        \* socket -> the job it watches, or NoJob, and what it was sent

vars == <<inflight, req, job, sock>>

Kinds == {"up", "update", "destroy", "upgrade", "adopt"}

\* Orchestrators that may return without having reported success: deploy and
\* update return "unhealthy" after a phase-fail; adopt has no reporter.
MayEndSilent == {"up", "update", "adopt"}

Events == [n : Nat \ {0}, type : {"progress", "success", "error"}]

Working == {"running", "said"}   \* the orchestrator has not settled yet
Known == Working \cup {"ended", "threw"}

TypeOK ==
  /\ inflight \in [Names -> Reqs \cup {NoJob}]
  /\ req \in [Reqs -> [pc : {"idle", "setup", "refused"} \cup Known,
                       kind : Kinds, name : Names]]
  /\ job \in [Reqs -> [status : {"absent", "running", "done", "failed"},
                       log : Seq(Events), events : Seq(Events)]]
  /\ sock \in [Socks -> [job : Reqs \cup {NoJob}, got : Seq(Events)]]
  \* fail() appends past the cap, once
  /\ \A r \in Reqs : Len(job[r].events) <= MaxBuffer + 1

NoRecord == [status |-> "absent", log |-> <<>>, events |-> <<>>]
NotWatching == [job |-> NoJob, got |-> <<>>]

\* The kind and name of an idle request mean nothing yet.
Init ==
  /\ inflight = [n \in Names |-> NoJob]
  /\ \E n \in Names :
       req = [r \in Reqs |-> [pc |-> "idle", kind |-> "up", name |-> n]]
  /\ job = [r \in Reqs |-> NoRecord]
  /\ sock = [s \in Socks |-> NotWatching]

Goto(r, pc) == req' = [req EXCEPT ![r].pc = pc]

-----------------------------------------------------------------------------
(* SingleFlight *)

Free(n) == inflight[n] = NoJob

\* Mutant: the lock is taken over.
AcquireUntested(n, r) == inflight' = [inflight EXCEPT ![n] = r]

Acquire(n, r) == /\ Free(n)
                 /\ inflight' = [inflight EXCEPT ![n] = r]

Release(n, r) ==
  inflight' = IF inflight[n] = r THEN [inflight EXCEPT ![n] = NoJob]
                                 ELSE inflight

-----------------------------------------------------------------------------
(* ReporterBus *)

CreateJob(r) == job' = [job EXCEPT ![r].status = "running"]

NextEvent(r, t) == [n |-> Len(job[r].log) + 1, type |-> t]

ShiftedNever(buffer) == buffer   \* mutant: nothing goes
ShiftedNewest(buffer) ==         \* mutant: the newest one goes
  IF Len(buffer) >= MaxBuffer THEN SubSeq(buffer, 1, Len(buffer) - 1) ELSE buffer

\* The buffer with room for one more event: the oldest one goes.
Shifted(buffer) == IF Len(buffer) >= MaxBuffer THEN Tail(buffer) ELSE buffer

\* Every watcher of r is sent e.
Relay(r, e) ==
  sock' = [s \in Socks |->
             IF sock[s].job = r THEN [sock[s] EXCEPT !.got = Append(@, e)]
                                ELSE sock[s]]

\* An event of the orchestrator.
Push(r, e) ==
  /\ job' = [job EXCEPT ![r].log = Append(@, e),
                        ![r].events = Append(Shifted(@), e)]
  /\ Relay(r, e)

\* finish() sends nothing.
MarkDone(r) == job' = [job EXCEPT ![r].status = "done"] /\ UNCHANGED sock

\* fail() sends the error, and does not shift.
MarkFailed(r) ==
  LET e == NextEvent(r, "error") IN
    /\ job' = [job EXCEPT ![r].status = "failed",
                          ![r].log = Append(@, e),
                          ![r].events = Append(@, e)]
    /\ Relay(r, e)

-----------------------------------------------------------------------------
(* The routes *)

\* The first test of the lock: 409.
Busy(r, k, n) ==
  /\ req[r].pc = "idle"
  /\ ~Free(n)
  /\ req' = [req EXCEPT ![r] = [pc |-> "refused", kind |-> k, name |-> n]]
  /\ UNCHANGED <<inflight, job, sock>>

\* The test passes and the handler awaits state.toml.
Enter(r, k, n) ==
  /\ req[r].pc = "idle"
  /\ k # "adopt"
  /\ Free(n)
  /\ req' = [req EXCEPT ![r] = [pc |-> "setup", kind |-> k, name |-> n]]
  /\ UNCHANGED <<inflight, job, sock>>

\* adopt reads nothing first: it tests and takes the lock in one go.
Adopt(r, n) ==
  /\ req[r].pc = "idle"
  /\ Acquire(n, r)
  /\ CreateJob(r)
  /\ req' = [req EXCEPT ![r] = [pc |-> "running", kind |-> "adopt", name |-> n]]
  /\ UNCHANGED sock

\* 404, an unreadable state.toml or a provider that cannot be built.
SetupFails(r) ==
  /\ req[r].pc = "setup"
  /\ Goto(r, "refused")
  /\ UNCHANGED <<inflight, job, sock>>

\* The job is made, the lock taken, the orchestrator started: 202.
Launch(r) ==
  /\ req[r].pc = "setup"
  /\ Acquire(req[r].name, r)
  /\ CreateJob(r)
  /\ Goto(r, "running")
  /\ UNCHANGED sock

\* Another request took the lock meanwhile: 409, and the job stays behind.
LosesRace(r) ==
  /\ req[r].pc = "setup"
  /\ ~Free(req[r].name)
  /\ CreateJob(r)
  /\ Goto(r, "refused")
  /\ UNCHANGED <<inflight, sock>>

\* upgrade reads the ssh key after it took the lock and outside the promise
\* that would release it: a missing key file is a 500 and nothing else.
KeyMissing(r) ==
  /\ req[r].pc = "setup"
  /\ req[r].kind = "upgrade"
  /\ Acquire(req[r].name, r)
  /\ CreateJob(r)
  /\ Goto(r, "threw")
  /\ UNCHANGED sock

Progress(r) ==
  /\ req[r].pc = "running"
  /\ req[r].kind # "adopt"
  /\ Len(job[r].log) < MaxProgress
  /\ Push(r, NextEvent(r, "progress"))
  /\ UNCHANGED <<inflight, req>>

\* The orchestrator reports success; its `finally` blocks are still to run.
Success(r) ==
  /\ req[r].pc = "running"
  /\ req[r].kind # "adopt"
  /\ Push(r, NextEvent(r, "success"))
  /\ Goto(r, "said")
  /\ UNCHANGED inflight

\* The orchestrator returns.
Finish(r) ==
  /\ \/ req[r].pc = "said"
     \/ req[r].pc = "running" /\ req[r].kind \in MayEndSilent
  /\ MarkDone(r)
  /\ Release(req[r].name, r)
  /\ Goto(r, "ended")

\* Mutant: the rejection arm of `then` does not release.
FailHoldingLock(r) ==
  /\ req[r].pc \in Working
  /\ MarkFailed(r)
  /\ Goto(r, "ended")
  /\ UNCHANGED inflight

\* The orchestrator throws, in its body or in a `finally` block.
Fail(r) ==
  /\ req[r].pc \in Working
  /\ MarkFailed(r)
  /\ Release(req[r].name, r)
  /\ Goto(r, "ended")

-----------------------------------------------------------------------------
(* The browsers *)

\* Mutant: no replay.
SubscribeLiveOnly(s, r) ==
  /\ sock[s].job = NoJob
  /\ req[r].pc \in Known
  /\ job[r].status # "absent"
  /\ sock' = [sock EXCEPT ![s] = [job |-> r, got |-> <<>>]]
  /\ UNCHANGED <<inflight, req, job>>

\* A client learns a job's id from the 202 or from a 409 that names the owner.
Subscribe(s, r) ==
  /\ sock[s].job = NoJob
  /\ req[r].pc \in Known
  /\ job[r].status # "absent"
  /\ sock' = [sock EXCEPT ![s] = [job |-> r, got |-> job[r].events]]
  /\ UNCHANGED <<inflight, req, job>>

Leave(s) ==
  /\ sock[s].job # NoJob
  /\ sock' = [sock EXCEPT ![s] = NotWatching]
  /\ UNCHANGED <<inflight, req, job>>

\* JOB_TTL_MS after its end a job is forgotten and its sockets are closed.
Cleanup(r) ==
  /\ job[r].status \in {"done", "failed"}
  /\ job' = [job EXCEPT ![r] = NoRecord]
  /\ sock' = [s \in Socks |-> IF sock[s].job = r THEN NotWatching ELSE sock[s]]
  /\ UNCHANGED <<inflight, req>>

-----------------------------------------------------------------------------
Request(r) ==
  \/ \E k \in Kinds, n \in Names : Busy(r, k, n) \/ Enter(r, k, n)
  \/ \E n \in Names : Adopt(r, n)
  \/ SetupFails(r) \/ Launch(r) \/ LosesRace(r) \/ KeyMissing(r)

Orchestrator(r) == Progress(r) \/ Success(r) \/ Finish(r) \/ Fail(r)

Browser(s) == Leave(s) \/ \E r \in Reqs : Subscribe(s, r)

Next ==
  \/ \E r \in Reqs : Request(r) \/ Orchestrator(r) \/ Cleanup(r)
  \/ \E s \in Socks : Browser(s)

Spec == Init /\ [][Next]_vars

-----------------------------------------------------------------------------
(* Properties *)

\* Two orchestrators started for the same URL name never run at once, though
\* every route tests the lock, lets go of the thread and only then takes it
\* (deployments.ts:198-228, singleflight.ts:1-4).
OneJobPerName ==
  \A r, q \in Reqs :
    r # q /\ req[r].pc \in Working /\ req[q].pc \in Working
      => req[r].name # req[q].name

\* Every lock is held by an orchestrator that is still running, which will
\* release it.  The code breaks this: see KeyMissing.
LockHasOwner ==
  \A n \in Names : inflight[n] # NoJob => req[inflight[n]].pc \in Working

\* A lock without a running owner was taken by an upgrade that did not find
\* the ssh key: no other route, refusal, lost race or failure leaks it
\* (deployments.ts, the two arms of each then and adopt's finally).
LockLeaksOnlyByUpgrade ==
  \A n \in Names : inflight[n] # NoJob =>
    LET r == req[inflight[n]] IN
      /\ r.name = n
      /\ \/ r.pc \in Working
         \/ r.pc = "threw" /\ r.kind = "upgrade"

EndOf(seq, k) == SubSeq(seq, Len(seq) - k + 1, Len(seq))

\* Whenever a browser connects, it holds an unbroken run of its job's events
\* that goes up to the newest one and back over at least MaxBuffer of them:
\* replay and relay neither skip, repeat nor reorder (reporter-bus.ts:40-49,
\* 97-109).
StreamGapFree ==
  \A s \in Socks : sock[s].job # NoJob =>
    LET log == job[sock[s].job].log
        got == sock[s].got
    IN /\ Len(got) <= Len(log)
       /\ got = EndOf(log, Len(got))
       /\ Len(got) >= MaxBuffer \/ got = log

\* A browser that watches a job which has ended holds its verdict, however late
\* it connected and however long the job was: the error of a failed job, the
\* success of a destroy or upgrade that returned (reporter-bus.ts:83-95; the
\* drawer shows "Running..." until it sees one, useJobStream.ts:41-43).
WatcherHasVerdict ==
  \A s \in Socks : sock[s].job # NoJob =>
    LET r == sock[s].job
        last == sock[s].got[Len(sock[s].got)]
    IN /\ job[r].status = "failed" =>
            sock[s].got # <<>> /\ last.type = "error"
       /\ job[r].status = "done" /\ req[r].kind \notin MayEndSilent =>
            sock[s].got # <<>> /\ last.type = "success"

=============================================================================
