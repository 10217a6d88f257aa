------------------------- MODULE DashboardJobsProofs -------------------------
(***************************************************************************)
(* Theorems about DashboardJobs, for any number of requests, names, sockets *)
(* and events.                                                             *)
(***************************************************************************)
EXTENDS DashboardJobs, TLAPS, SequenceTheorems

-----------------------------------------------------------------------------
(* The parts of the inductive invariant *)

\* Only a job that has failed may hold one event more than the cap.
Capped == \A r \in Reqs : req[r].pc # "ended" => Len(job[r].events) <= MaxBuffer

\* A running orchestrator holds the lock of the name it was started for.
WorkersHoldLock ==
  \A r \in Reqs : req[r].pc \in Working => inflight[req[r].name] = r

TypeInv == TypeOK /\ Capped
LockInv == WorkersHoldLock /\ LockLeaksOnlyByUpgrade

-----------------------------------------------------------------------------
(* What the event helpers return *)

\* A new event is an event.
LEMMA NextEventType ==
  ASSUME TypeOK, NEW r \in Reqs, NEW t \in {"progress", "success", "error"}
  PROVE  NextEvent(r, t) \in Events
<1>1. job[r].log \in Seq(Events)
  BY DEF TypeOK
<1>2. Len(job[r].log) + 1 \in Nat \ {0}
  BY <1>1
<1> QED BY <1>2 DEF NextEvent, Events

\* Making room keeps a buffer a sequence of events, and leaves it below the cap
\* if it was at most at the cap.
LEMMA ShiftedType ==
  ASSUME NEW b \in Seq(Events), Len(b) <= MaxBuffer
  PROVE  /\ Shifted(b) \in Seq(Events)
         /\ Len(Shifted(b)) < MaxBuffer
<1>1. CASE Len(b) < MaxBuffer
  BY <1>1, JobsAssumption DEF Shifted
<1>2. CASE Len(b) >= MaxBuffer
  <2>1. b # <<>> /\ Len(b) = MaxBuffer
    BY <1>2, JobsAssumption
  <2>2. Tail(b) \in Seq(Events) /\ Len(Tail(b)) = Len(b) - 1
    BY <2>1
  <2> QED BY <2>1, <2>2, JobsAssumption DEF Shifted
<1> QED BY <1>1, <1>2, JobsAssumption

\* Appending keeps a sequence of its type and makes it longer by one.
LEMMA AppendType ==
  ASSUME NEW S, NEW s \in Seq(S), NEW e \in S
  PROVE  Append(s, e) \in Seq(S) /\ Len(Append(s, e)) = Len(s) + 1
  OBVIOUS

\* Relaying an event keeps every socket well typed.
LEMMA RelayType ==
  ASSUME TypeOK, NEW r \in Reqs, NEW e \in Events, Relay(r, e)
  PROVE  sock' \in [Socks -> [job : Reqs \cup {NoJob}, got : Seq(Events)]]
<1> DEFINE Socket == [job : Reqs \cup {NoJob}, got : Seq(Events)]
           After(s) == IF sock[s].job = r
                         THEN [sock[s] EXCEPT !.got = Append(@, e)]
                         ELSE sock[s]
<1>1. ASSUME NEW s \in Socks PROVE After(s) \in Socket
  <2>1. sock[s] \in Socket
    BY DEF TypeOK
  <2>2. Append(sock[s].got, e) \in Seq(Events)
    BY <2>1, AppendType
  <2> QED BY <2>1, <2>2
<1>2. sock' = [s \in Socks |-> After(s)]
  BY DEF Relay
<1> QED BY <1>1, <1>2

-----------------------------------------------------------------------------
(* Type correctness *)

\* Nothing has happened yet.
LEMMA InitType == Init => TypeInv
  BY JobsAssumption DEF Init, TypeInv, TypeOK, Capped, NoRecord, NotWatching,
     Known, Working, Kinds

\* A push, by an orchestrator that has not ended.
LEMMA PushType ==
  ASSUME TypeInv, NEW r \in Reqs, NEW t \in {"progress", "success"},
         req[r].pc = "running", Push(r, NextEvent(r, t)),
         \/ UNCHANGED req
         \/ Goto(r, "said")
  PROVE  /\ job' \in [Reqs -> [status : {"absent", "running", "done", "failed"},
                               log : Seq(Events), events : Seq(Events)]]
         /\ sock' \in [Socks -> [job : Reqs \cup {NoJob}, got : Seq(Events)]]
         /\ Capped'
         /\ \A q \in Reqs : Len(job'[q].events) <= MaxBuffer + 1
<1> DEFINE e == NextEvent(r, t)
           b == Append(Shifted(job[r].events), e)
           l == Append(job[r].log, e)
<1>1. e \in Events
  BY NextEventType DEF TypeInv
<1>2. job[r].events \in Seq(Events) /\ Len(job[r].events) <= MaxBuffer
  BY DEF TypeInv, TypeOK, Capped
<1>3. Shifted(job[r].events) \in Seq(Events) /\ Len(Shifted(job[r].events)) < MaxBuffer
  BY <1>2, ShiftedType
<1>4. b \in Seq(Events) /\ Len(b) = Len(Shifted(job[r].events)) + 1
  BY <1>1, <1>3, AppendType
<1>5. Len(b) <= MaxBuffer
  BY <1>3, <1>4, JobsAssumption
<1>6. l \in Seq(Events)
  BY <1>1, AppendType DEF TypeInv, TypeOK
<1>7. job' = [job EXCEPT ![r] = [@ EXCEPT !.log = l, !.events = b]]
  BY DEF Push, TypeInv, TypeOK
<1> HIDE DEF b, l, e
<1>8. sock' \in [Socks -> [job : Reqs \cup {NoJob}, got : Seq(Events)]]
  BY <1>1, RelayType DEF Push, TypeInv, e
<1>9. Capped'
  BY <1>5, <1>7 DEF Capped, TypeInv, TypeOK, Goto
<1>10. job' \in [Reqs -> [status : {"absent", "running", "done", "failed"},
                          log : Seq(Events), events : Seq(Events)]]
  BY <1>4, <1>6, <1>7 DEF TypeInv, TypeOK
<1>11. \A q \in Reqs : Len(job'[q].events) <= MaxBuffer + 1
  BY <1>4, <1>5, <1>7, JobsAssumption DEF TypeInv, TypeOK
<1> QED BY <1>8, <1>9, <1>10, <1>11

\* A failure appends one event to a buffer at most at the cap.
LEMMA FailType ==
  ASSUME TypeInv, NEW r \in Reqs, req[r].pc \in Working, MarkFailed(r)
  PROVE  /\ job' \in [Reqs -> [status : {"absent", "running", "done", "failed"},
                               log : Seq(Events), events : Seq(Events)]]
         /\ sock' \in [Socks -> [job : Reqs \cup {NoJob}, got : Seq(Events)]]
         /\ \A q \in Reqs : q # r => job'[q] = job[q]
         /\ \A q \in Reqs : Len(job'[q].events) <= MaxBuffer + 1
<1> DEFINE e == NextEvent(r, "error")
           b == Append(job[r].events, e)
           l == Append(job[r].log, e)
<1>1. e \in Events
  BY NextEventType DEF TypeInv
<1>2. job[r].events \in Seq(Events) /\ Len(job[r].events) <= MaxBuffer
  BY DEF TypeInv, TypeOK, Capped, Working
<1>3. b \in Seq(Events) /\ Len(b) = Len(job[r].events) + 1
  BY <1>1, <1>2, AppendType
<1>4. l \in Seq(Events)
  BY <1>1, AppendType DEF TypeInv, TypeOK
<1>5. job' = [job EXCEPT ![r] = [status |-> "failed", log |-> l, events |-> b]]
  BY DEF MarkFailed, TypeInv, TypeOK
<1> HIDE DEF b, l, e
<1>6. sock' \in [Socks -> [job : Reqs \cup {NoJob}, got : Seq(Events)]]
  BY <1>1, RelayType DEF MarkFailed, TypeInv, e
<1>7. \A q \in Reqs : Len(job'[q].events) <= MaxBuffer + 1
  BY <1>2, <1>3, <1>5, JobsAssumption DEF TypeInv, TypeOK
<1> QED BY <1>3, <1>4, <1>5, <1>6, <1>7 DEF TypeInv, TypeOK

\* Every step keeps the types and the cap.
LEMMA NextType == TypeInv /\ [Next]_vars => TypeInv'
<1> SUFFICES ASSUME TypeInv, [Next]_vars PROVE TypeInv'
  OBVIOUS
<1> USE DEF TypeInv, TypeOK, Capped, Known, Working
<1>1. ASSUME NEW r \in Reqs, NEW k \in Kinds, NEW n \in Names,
             Busy(r, k, n) \/ Enter(r, k, n)
      PROVE TypeInv'
  <2>1. PICK pc \in {"refused", "setup"} :
          req' = [req EXCEPT ![r] = [pc |-> pc, kind |-> k, name |-> n]]
    BY <1>1 DEF Busy, Enter
  <2>2. req' \in [Reqs -> [pc : {"idle", "setup", "refused"} \cup Known,
                           kind : Kinds, name : Names]]
    BY <2>1
  <2>3. UNCHANGED <<inflight, job, sock>> /\ req[r].pc = "idle"
    BY <1>1 DEF Busy, Enter
  <2>4. Capped'
    BY <2>1, <2>3
  <2> QED BY <2>2, <2>3, <2>4
<1>2. ASSUME NEW r \in Reqs, NEW n \in Names, Adopt(r, n) PROVE TypeInv'
  BY <1>2, JobsAssumption DEF Adopt, Acquire, CreateJob, Kinds
<1>3. ASSUME NEW r \in Reqs, SetupFails(r) PROVE TypeInv'
  BY <1>3, JobsAssumption DEF SetupFails, Goto
<1>4. ASSUME NEW r \in Reqs, Launch(r) PROVE TypeInv'
  BY <1>4, JobsAssumption DEF Launch, Acquire, CreateJob, Goto
<1>5. ASSUME NEW r \in Reqs, LosesRace(r) PROVE TypeInv'
  BY <1>5, JobsAssumption DEF LosesRace, CreateJob, Goto
<1>6. ASSUME NEW r \in Reqs, KeyMissing(r) PROVE TypeInv'
  BY <1>6, JobsAssumption DEF KeyMissing, Acquire, CreateJob, Goto
<1>7. ASSUME NEW r \in Reqs, Progress(r) PROVE TypeInv'
  BY <1>7, PushType DEF Progress
<1>8. ASSUME NEW r \in Reqs, Success(r) PROVE TypeInv'
  <2>1. req' \in [Reqs -> [pc : {"idle", "setup", "refused"} \cup Known,
                           kind : Kinds, name : Names]]
    BY <1>8 DEF Success, Goto
  <2> QED BY <1>8, <2>1, PushType DEF Success
<1>9. ASSUME NEW r \in Reqs, Finish(r) PROVE TypeInv'
  <2>1. /\ req' \in [Reqs -> [pc : {"idle", "setup", "refused"} \cup Known,
                              kind : Kinds, name : Names]]
        /\ inflight' \in [Names -> Reqs \cup {NoJob}]
        /\ req' = [req EXCEPT ![r].pc = "ended"]
    BY <1>9 DEF Finish, Goto, Release
  <2>2. /\ job' \in [Reqs -> [status : {"absent", "running", "done", "failed"},
                              log : Seq(Events), events : Seq(Events)]]
        /\ \A q \in Reqs : job'[q].events = job[q].events
        /\ sock' = sock
    BY <1>9 DEF Finish, MarkDone
  <2>3. Capped'
    BY <2>1, <2>2
  <2> QED BY <2>1, <2>2, <2>3
<1>10. ASSUME NEW r \in Reqs, Fail(r) PROVE TypeInv'
  <2>1. /\ req' \in [Reqs -> [pc : {"idle", "setup", "refused"} \cup Known,
                              kind : Kinds, name : Names]]
        /\ inflight' \in [Names -> Reqs \cup {NoJob}]
        /\ req' = [req EXCEPT ![r].pc = "ended"]
    BY <1>10 DEF Fail, Goto, Release
  <2>2. /\ job' \in [Reqs -> [status : {"absent", "running", "done", "failed"},
                              log : Seq(Events), events : Seq(Events)]]
        /\ sock' \in [Socks -> [job : Reqs \cup {NoJob}, got : Seq(Events)]]
        /\ \A q \in Reqs : q # r => job'[q] = job[q]
        /\ \A q \in Reqs : Len(job'[q].events) <= MaxBuffer + 1
    BY <1>10, FailType DEF Fail
  <2>3. Capped'
    BY <2>1, <2>2
  <2> QED BY <2>1, <2>2, <2>3
<1>11. ASSUME NEW r \in Reqs, Cleanup(r) PROVE TypeInv'
  BY <1>11, JobsAssumption DEF Cleanup, NoRecord, NotWatching
<1>12. ASSUME NEW s \in Socks, Browser(s) PROVE TypeInv'
  <2> DEFINE Socket == [job : Reqs \cup {NoJob}, got : Seq(Events)]
  <2>1. PICK w \in Socket : sock' = [sock EXCEPT ![s] = w]
    <3>1. CASE Leave(s)
      <4>1. NotWatching \in Socket
        BY DEF NotWatching
      <4> QED BY <3>1, <4>1 DEF Leave
    <3>2. ASSUME NEW r \in Reqs, Subscribe(s, r)
          PROVE \E w \in Socket : sock' = [sock EXCEPT ![s] = w]
      <4>1. [job |-> r, got |-> job[r].events] \in Socket
        OBVIOUS
      <4> QED BY <3>2, <4>1 DEF Subscribe
    <3> QED BY <1>12, <3>1, <3>2 DEF Browser
  <2>2. UNCHANGED <<inflight, req, job>>
    BY <1>12 DEF Browser, Leave, Subscribe
  <2> QED BY <2>1, <2>2
<1>13. CASE UNCHANGED vars
  BY <1>13 DEF vars
<1> QED
  BY <1>1, <1>2, <1>3, <1>4, <1>5, <1>6, <1>7, <1>8, <1>9, <1>10, <1>11,
     <1>12, <1>13 DEF Next, Request, Orchestrator

\* The state is well typed, and no buffer grows past MaxBuffer by more than the
\* one error event that ends a job.
THEOREM TypeCorrect == Spec => []TypeOK
<1>1. Spec => []TypeInv
  BY InitType, NextType, PTL DEF Spec
<1> QED BY <1>1, PTL DEF TypeInv

-----------------------------------------------------------------------------
(* The lock *)

\* Every step leaves each lock with its owner, or with an upgrade that threw.
LEMMA NextLock == TypeOK /\ LockInv /\ [Next]_vars => LockInv'
<1> SUFFICES ASSUME TypeOK, LockInv, [Next]_vars PROVE LockInv'
  OBVIOUS
<1> USE DEF LockInv, WorkersHoldLock, LockLeaksOnlyByUpgrade, TypeOK, Known, Working
<1>1. ASSUME NEW r \in Reqs, NEW k \in Kinds, NEW n \in Names,
             Busy(r, k, n) \/ Enter(r, k, n)
      PROVE LockInv'
  <2>1. PICK pc \in {"refused", "setup"} :
          req' = [req EXCEPT ![r] = [pc |-> pc, kind |-> k, name |-> n]]
    BY <1>1 DEF Busy, Enter
  <2>2. inflight' = inflight /\ req[r].pc = "idle"
    BY <1>1 DEF Busy, Enter
  <2>3. ASSUME NEW m \in Names PROVE inflight[m] # r
    <3>1. inflight[m] = r => req[r].pc \in Working \/ req[r].pc = "threw"
      BY JobsAssumption
    <3> QED BY <2>2, <3>1
  <2>4. WorkersHoldLock'
    BY <2>1, <2>2
  <2>5. ASSUME NEW m \in Names, inflight[m] # NoJob
        PROVE req'[inflight[m]] = req[inflight[m]]
    BY <2>1, <2>3, <2>5
  <2>6. LockLeaksOnlyByUpgrade'
    BY <2>2, <2>5
  <2> QED BY <2>4, <2>6
<1>2. ASSUME NEW r \in Reqs, NEW n \in Names, Adopt(r, n) PROVE LockInv'
  BY <1>2, JobsAssumption DEF Adopt, Acquire, Free
<1>3. ASSUME NEW r \in Reqs, SetupFails(r) PROVE LockInv'
  BY <1>3 DEF SetupFails, Goto
<1>4. ASSUME NEW r \in Reqs, Launch(r) PROVE LockInv'
  BY <1>4, JobsAssumption DEF Launch, Acquire, Free, Goto
<1>5. ASSUME NEW r \in Reqs, LosesRace(r) PROVE LockInv'
  BY <1>5 DEF LosesRace, Goto
<1>6. ASSUME NEW r \in Reqs, KeyMissing(r) PROVE LockInv'
  BY <1>6, JobsAssumption DEF KeyMissing, Acquire, Free, Goto
<1>7. ASSUME NEW r \in Reqs, Progress(r) PROVE LockInv'
  BY <1>7 DEF Progress
<1>8. ASSUME NEW r \in Reqs, Success(r) PROVE LockInv'
  BY <1>8 DEF Success, Goto
<1>9. ASSUME NEW r \in Reqs, Finish(r) PROVE LockInv'
  BY <1>9, JobsAssumption DEF Finish, Release, Goto
<1>10. ASSUME NEW r \in Reqs, Fail(r) PROVE LockInv'
  BY <1>10, JobsAssumption DEF Fail, Release, Goto
<1>11. ASSUME NEW r \in Reqs, Cleanup(r) PROVE LockInv'
  BY <1>11 DEF Cleanup
<1>12. ASSUME NEW s \in Socks, Browser(s) PROVE LockInv'
  BY <1>12 DEF Browser, Leave, Subscribe
<1>13. CASE UNCHANGED vars
  BY <1>13 DEF vars
<1> QED
  BY <1>1, <1>2, <1>3, <1>4, <1>5, <1>6, <1>7, <1>8, <1>9, <1>10, <1>11,
     <1>12, <1>13 DEF Next, Request, Orchestrator

\* So the locks always have one.
LEMMA LockAlways == Spec => []LockInv
<1>1. Init => LockInv
  BY DEF Init, LockInv, WorkersHoldLock, LockLeaksOnlyByUpgrade, Working
<1> QED BY <1>1, NextLock, TypeCorrect, PTL DEF Spec

\* Two orchestrators started for the same name never run at once.
THEOREM SingleFlightExcludes == Spec => []OneJobPerName
<1>1. LockInv => OneJobPerName
  BY DEF LockInv, WorkersHoldLock, OneJobPerName
<1> QED BY <1>1, LockAlways, PTL

\* Only an upgrade that did not find its ssh key leaves a lock behind.
THEOREM OnlyUpgradeLeaks == Spec => []LockLeaksOnlyByUpgrade
  BY LockAlways, PTL DEF LockInv

-----------------------------------------------------------------------------
(* The event streams *)

\* Sequence b is the end of sequence l, position by position.
Suffix(b, l) ==
  /\ Len(b) <= Len(l)
  /\ \A i \in 1 .. Len(b) : b[i] = l[Len(l) - Len(b) + i]

\* What a buffer and a browser hold: the end of the log, all of it while it is
\* shorter than the cap.
Recent(b, l) == Suffix(b, l) /\ (Len(b) >= MaxBuffer \/ b = l)

StreamInv ==
  /\ \A r \in Reqs : Recent(job[r].events, job[r].log)
  /\ \A s \in Socks : sock[s].job # NoJob =>
       Recent(sock[s].got, job[sock[s].job].log)

\* A suffix, position by position, is the end of that length.
LEMMA SuffixIsEndOf ==
  ASSUME NEW b \in Seq(Events), NEW l \in Seq(Events), Suffix(b, l)
  PROVE  b = EndOf(l, Len(b))
<1> DEFINE e == EndOf(l, Len(b))
<1>1. e \in Seq(Events) /\ Len(e) = Len(b)
  BY DEF EndOf, Suffix
<1>2. \A i \in 1 .. Len(b) : e[i] = l[Len(l) - Len(b) + i]
  BY DEF EndOf, Suffix
<1>3. \A i \in 1 .. Len(b) : e[i] = b[i]
  BY <1>2 DEF Suffix
<1> QED BY <1>1, <1>3, SeqEqual

\* The same event at both ends keeps one the suffix of the other.
LEMMA AppendSuffix ==
  ASSUME NEW b \in Seq(Events), NEW l \in Seq(Events), Suffix(b, l), NEW e \in Events
  PROVE  Suffix(Append(b, e), Append(l, e))
<1> DEFINE B == Append(b, e)
           L == Append(l, e)
<1>1. Len(B) = Len(b) + 1 /\ Len(L) = Len(l) + 1 /\ Len(b) <= Len(l)
  BY DEF Suffix
<1>2. ASSUME NEW i \in 1 .. Len(B) PROVE B[i] = L[Len(L) - Len(B) + i]
  <2>1. CASE i = Len(b) + 1
    <3>1. B[i] = e
      BY <2>1
    <3>2. Len(L) - Len(B) + i = Len(l) + 1
      BY <1>1, <2>1
    <3> QED BY <3>1, <3>2
  <2>2. CASE i \in 1 .. Len(b)
    <3>1. B[i] = b[i]
      BY <2>2
    <3>2. Len(L) - Len(B) + i = Len(l) - Len(b) + i
      BY <1>1
    <3>3. Len(l) - Len(b) + i \in 1 .. Len(l)
      BY <1>1, <2>2
    <3>4. L[Len(l) - Len(b) + i] = l[Len(l) - Len(b) + i]
      BY <3>3
    <3> QED BY <2>2, <3>1, <3>2, <3>4 DEF Suffix
  <2> QED BY <1>1, <2>1, <2>2
<1> HIDE DEF B, L
<1>3. Suffix(B, L)
  BY <1>1, <1>2 DEF Suffix
<1> QED BY <1>3 DEF B, L

\* And recent.
LEMMA AppendRecent ==
  ASSUME NEW b \in Seq(Events), NEW l \in Seq(Events), Recent(b, l), NEW e \in Events
  PROVE  Recent(Append(b, e), Append(l, e))
<1>1. Suffix(Append(b, e), Append(l, e))
  BY AppendSuffix DEF Recent
<1>2. Len(b) >= MaxBuffer => Len(Append(b, e)) >= MaxBuffer
  BY JobsAssumption
<1> QED BY <1>1, <1>2 DEF Recent

\* So does making room for it first.
LEMMA ShiftedRecent ==
  ASSUME NEW b \in Seq(Events), NEW l \in Seq(Events), Recent(b, l), NEW e \in Events
  PROVE  Recent(Append(Shifted(b), e), Append(l, e))
<1>1. CASE Len(b) < MaxBuffer
  BY <1>1, AppendRecent, JobsAssumption DEF Shifted
<1>2. CASE Len(b) >= MaxBuffer
  <2>1. b # <<>> /\ Shifted(b) = Tail(b)
    BY <1>2, JobsAssumption DEF Shifted
  <2>2. /\ Tail(b) \in Seq(Events)
        /\ Len(Tail(b)) = Len(b) - 1
        /\ \A i \in 1 .. Len(Tail(b)) : Tail(b)[i] = b[i + 1]
    BY <2>1
  <2>3. Suffix(Tail(b), l)
    BY <2>2 DEF Suffix, Recent
  <2>4. Suffix(Append(Tail(b), e), Append(l, e))
    BY <2>2, <2>3, AppendSuffix
  <2>5. Len(Append(Tail(b), e)) >= MaxBuffer
    BY <1>2, <2>2, JobsAssumption
  <2> QED BY <2>1, <2>4, <2>5 DEF Recent
<1> QED BY <1>1, <1>2, JobsAssumption

\* Nobody has seen anything of nothing.
LEMMA InitStream == Init => StreamInv
<1> SUFFICES ASSUME Init PROVE StreamInv
  OBVIOUS
<1>1. Recent(<<>>, <<>>)
  BY DEF Recent, Suffix
<1> QED BY <1>1 DEF Init, StreamInv, NoRecord, NotWatching

\* A step that gives one job a new log and buffer, keeps both related, and
\* gives its watchers the same event it gives the log.
LEMMA EmitStream ==
  ASSUME TypeOK, StreamInv, NEW r \in Reqs, NEW e \in Events,
         NEW j, j.log = Append(job[r].log, e), Recent(j.events, j.log),
         job' = [job EXCEPT ![r] = j],
         Relay(r, e)
  PROVE  StreamInv'
<1>1. \A q \in Reqs : Recent(job'[q].events, job'[q].log)
  BY DEF StreamInv, TypeOK
<1>2. ASSUME NEW s \in Socks, sock'[s].job # NoJob
      PROVE  Recent(sock'[s].got, job'[sock'[s].job].log)
  <2>1. sock[s] \in [job : Reqs \cup {NoJob}, got : Seq(Events)]
    BY DEF TypeOK
  <2>2. CASE sock[s].job = r
    <3>1. sock'[s].job = r /\ sock'[s].got = Append(sock[s].got, e)
      BY <2>1, <2>2 DEF Relay
    <3>2. Recent(sock[s].got, job[r].log)
      BY <2>2, JobsAssumption DEF StreamInv
    <3>3. job'[r].log = Append(job[r].log, e) /\ job[r].log \in Seq(Events)
      BY DEF TypeOK
    <3> QED BY <2>1, <3>1, <3>2, <3>3, AppendRecent
  <2>3. CASE sock[s].job # r
    <3>1. sock'[s] = sock[s]
      BY <2>3 DEF Relay
    <3>2. sock[s].job \in Reqs /\ job'[sock[s].job] = job[sock[s].job]
      BY <1>2, <2>1, <2>3, <3>1 DEF TypeOK
    <3> QED BY <1>2, <3>1, <3>2 DEF StreamInv
  <2> QED BY <2>2, <2>3
<1> QED BY <1>1, <1>2 DEF StreamInv

\* A push adds its event to the log, the buffer and every watcher.
LEMMA PushStream ==
  ASSUME TypeOK, StreamInv, NEW r \in Reqs, NEW t \in {"progress", "success"},
         Push(r, NextEvent(r, t))
  PROVE  StreamInv'
<1> DEFINE e == NextEvent(r, t)
           j == [job[r] EXCEPT !.log = Append(@, e),
                               !.events = Append(Shifted(@), e)]
<1>1. e \in Events
  BY NextEventType
<1> HIDE DEF e
<1>2. job[r].log \in Seq(Events) /\ job[r].events \in Seq(Events)
  BY DEF TypeOK
<1>3. Recent(Append(Shifted(job[r].events), e), Append(job[r].log, e))
  BY <1>1, <1>2, ShiftedRecent DEF StreamInv
<1>4. job' = [job EXCEPT ![r] = j]
  BY DEF Push, e, TypeOK
<1>5. j.log = Append(job[r].log, e) /\ j.events = Append(Shifted(job[r].events), e)
  BY DEF TypeOK
<1>6. Relay(r, e)
  BY DEF Push, e
<1> HIDE DEF j
<1> QED BY <1>1, <1>3, <1>4, <1>5, <1>6, EmitStream

\* A failure does too, without making room.
LEMMA FailStream ==
  ASSUME TypeOK, StreamInv, NEW r \in Reqs, MarkFailed(r)
  PROVE  StreamInv'
<1> DEFINE e == NextEvent(r, "error")
           j == [status |-> "failed", log |-> Append(job[r].log, e),
                 events |-> Append(job[r].events, e)]
<1>1. e \in Events
  BY NextEventType
<1> HIDE DEF e
<1>2. job[r].log \in Seq(Events) /\ job[r].events \in Seq(Events)
  BY DEF TypeOK
<1>3. Recent(Append(job[r].events, e), Append(job[r].log, e))
  BY <1>1, <1>2, AppendRecent DEF StreamInv
<1>4. job' = [job EXCEPT ![r] = j]
  BY DEF MarkFailed, e, TypeOK
<1>5. j.log = Append(job[r].log, e) /\ j.events = Append(job[r].events, e)
  OBVIOUS
<1>6. Relay(r, e)
  BY DEF MarkFailed, e
<1> HIDE DEF j
<1> QED BY <1>1, <1>3, <1>4, <1>5, <1>6, EmitStream

\* A step that leaves the sockets and every log and buffer alone.
LEMMA QuietStream ==
  ASSUME StreamInv, TypeOK, sock' = sock,
         \A q \in Reqs : job'[q].log = job[q].log /\ job'[q].events = job[q].events
  PROVE  StreamInv'
<1>1. \A s \in Socks : sock[s].job # NoJob => sock[s].job \in Reqs
  BY DEF TypeOK
<1> QED BY <1>1 DEF StreamInv

\* Every step keeps buffers and watchers at the end of the log.
LEMMA NextStream == TypeOK /\ StreamInv /\ [Next]_vars => StreamInv'
<1> SUFFICES ASSUME TypeOK, StreamInv, [Next]_vars PROVE StreamInv'
  OBVIOUS
<1>1. ASSUME NEW r \in Reqs, Request(r) \/ Finish(r) PROVE StreamInv'
  <2> DEFINE Quiet == /\ sock' = sock
                      /\ job' = job \/ \E t : job' = [job EXCEPT ![r].status = t]
  <2>1. Quiet
    <3>1. CASE \E k \in Kinds, n \in Names : Busy(r, k, n) \/ Enter(r, k, n)
      BY <3>1 DEF Busy, Enter
    <3>2. CASE \E n \in Names : Adopt(r, n)
      BY <3>2 DEF Adopt, CreateJob
    <3>3. CASE SetupFails(r)
      BY <3>3 DEF SetupFails
    <3>4. CASE Launch(r) \/ LosesRace(r) \/ KeyMissing(r)
      BY <3>4 DEF Launch, LosesRace, KeyMissing, CreateJob
    <3>5. CASE Finish(r)
      BY <3>5 DEF Finish, MarkDone
    <3> QED BY <1>1, <3>1, <3>2, <3>3, <3>4, <3>5 DEF Request
  <2>2. ASSUME NEW q \in Reqs
        PROVE job'[q].log = job[q].log /\ job'[q].events = job[q].events
    <3>1. ASSUME NEW t, job' = [job EXCEPT ![r].status = t]
          PROVE job'[q].log = job[q].log /\ job'[q].events = job[q].events
      BY <3>1 DEF TypeOK
    <3> QED BY <2>1, <3>1
  <2> QED BY <2>1, <2>2, QuietStream
<1>2. ASSUME NEW r \in Reqs, Progress(r) \/ Success(r) PROVE StreamInv'
  BY <1>2, PushStream DEF Progress, Success
<1>3. ASSUME NEW r \in Reqs, Fail(r) PROVE StreamInv'
  BY <1>3, FailStream DEF Fail
<1>4. ASSUME NEW r \in Reqs, Cleanup(r) PROVE StreamInv'
  <2>1. Recent(<<>>, <<>>)
    BY DEF Recent, Suffix
  <2>2. \A q \in Reqs : Recent(job'[q].events, job'[q].log)
    BY <1>4, <2>1 DEF Cleanup, NoRecord, StreamInv, TypeOK
  <2>3. ASSUME NEW s \in Socks, sock'[s].job # NoJob
        PROVE  Recent(sock'[s].got, job'[sock'[s].job].log)
    <3>1. sock'[s] = sock[s] /\ sock[s].job # r
      BY <1>4, <2>3 DEF Cleanup, NotWatching
    <3>2. sock[s].job \in Reqs /\ job'[sock[s].job] = job[sock[s].job]
      BY <1>4, <2>3, <3>1 DEF Cleanup, TypeOK
    <3> QED BY <2>3, <3>1, <3>2 DEF StreamInv
  <2> QED BY <2>2, <2>3 DEF StreamInv
<1>5. ASSUME NEW s \in Socks, Browser(s) PROVE StreamInv'
  <2>1. job' = job
    BY <1>5 DEF Browser, Leave, Subscribe
  <2>2. ASSUME NEW z \in Socks, sock'[z].job # NoJob
        PROVE  Recent(sock'[z].got, job[sock'[z].job].log)
    <3>1. CASE Leave(s)
      BY <2>2, <3>1 DEF Leave, NotWatching, StreamInv, TypeOK
    <3>2. ASSUME NEW r \in Reqs, Subscribe(s, r)
          PROVE Recent(sock'[z].got, job[sock'[z].job].log)
      BY <2>2, <3>2 DEF Subscribe, StreamInv, TypeOK
    <3> QED BY <1>5, <3>1, <3>2 DEF Browser
  <2> QED BY <2>1, <2>2 DEF StreamInv
<1>6. CASE UNCHANGED vars
  BY <1>6, QuietStream DEF vars
<1> QED BY <1>1, <1>2, <1>3, <1>4, <1>5, <1>6 DEF Next, Orchestrator

\* So they always are.
LEMMA StreamsAlways == Spec => []StreamInv
  BY InitStream, NextStream, TypeCorrect, PTL DEF Spec

\* A connected browser holds an unbroken run of its job's events up to the
\* newest, whenever it connected.
THEOREM StreamsAreGapFree == Spec => []StreamGapFree
<1>1. Spec => [](TypeOK /\ StreamInv)
  BY StreamsAlways, TypeCorrect, PTL
<1>2. TypeOK /\ StreamInv => StreamGapFree
  <2> SUFFICES ASSUME TypeOK, StreamInv, NEW s \in Socks, sock[s].job # NoJob
               PROVE  /\ Len(sock[s].got) <= Len(job[sock[s].job].log)
                      /\ sock[s].got = EndOf(job[sock[s].job].log, Len(sock[s].got))
                      /\ \/ Len(sock[s].got) >= MaxBuffer
                         \/ sock[s].got = job[sock[s].job].log
    BY DEF StreamGapFree
  <2>1. sock[s].job \in Reqs /\ sock[s].got \in Seq(Events)
    BY DEF TypeOK
  <2>2. job[sock[s].job].log \in Seq(Events)
    BY <2>1 DEF TypeOK
  <2>3. Recent(sock[s].got, job[sock[s].job].log)
    BY DEF StreamInv
  <2>4. sock[s].got = EndOf(job[sock[s].job].log, Len(sock[s].got))
    BY <2>1, <2>2, <2>3, SuffixIsEndOf DEF Recent
  <2> QED BY <2>3, <2>4 DEF Recent, Suffix
<1> QED BY <1>1, <1>2, PTL

-----------------------------------------------------------------------------
(* The verdict *)

EndsIn(l, t) == l # <<>> /\ l[Len(l)].type = t

\* A job's record and its request agree on how far it is, and the log of a job
\* that ended, or said that it succeeded, says so in its last event.
JobVerdict(r) ==
  /\ req[r].pc \in {"idle", "setup"} => job[r].status = "absent"
  /\ req[r].pc \in Working => job[r].status = "running"
  /\ req[r].pc = "said" => EndsIn(job[r].log, "success")
  /\ job[r].status = "failed" => EndsIn(job[r].log, "error")
  /\ job[r].status = "done" /\ req[r].kind \notin MayEndSilent =>
       EndsIn(job[r].log, "success")

VerdictInv == \A r \in Reqs : JobVerdict(r)

\* The last event of a log is the one appended last.
LEMMA AppendEndsIn ==
  ASSUME NEW l \in Seq(Events), NEW e \in Events
  PROVE  EndsIn(Append(l, e), e.type)
  BY DEF EndsIn

\* Whoever holds the recent end of a log holds its last event.
LEMMA RecentEndsIn ==
  ASSUME NEW b \in Seq(Events), NEW l \in Seq(Events), Recent(b, l),
         NEW t, EndsIn(l, t)
  PROVE  EndsIn(b, t)
<1>1. Len(b) >= 1 /\ Len(b) <= Len(l)
  BY JobsAssumption DEF Recent, Suffix, EndsIn
<1>2. b[Len(b)] = l[Len(l) - Len(b) + Len(b)]
  BY <1>1 DEF Recent, Suffix
<1>3. Len(l) - Len(b) + Len(b) = Len(l)
  BY <1>1
<1> QED BY <1>1, <1>2, <1>3 DEF EndsIn

\* A step of one request is judged by that request alone.
LEMMA OthersVerdict ==
  ASSUME VerdictInv, NEW r \in Reqs, JobVerdict(r)',
         \A q \in Reqs \ {r} : req'[q] = req[q] /\ job'[q] = job[q]
  PROVE  VerdictInv'
<1>1. ASSUME NEW q \in Reqs \ {r} PROVE JobVerdict(q)'
  BY <1>1 DEF VerdictInv, JobVerdict
<1> QED BY <1>1 DEF VerdictInv

\* Every step keeps the verdict at the end of the log.
LEMMA NextVerdict == TypeOK /\ VerdictInv /\ [Next]_vars => VerdictInv'
<1> SUFFICES ASSUME TypeOK, VerdictInv, [Next]_vars PROVE VerdictInv'
  OBVIOUS
<1> USE DEF Known, Working
<1>1. ASSUME NEW r \in Reqs, Request(r) PROVE VerdictInv'
  <2>1. /\ req[r].pc \in {"idle", "setup"}
        /\ req'[r].pc \in {"setup", "refused", "running", "threw"}
        /\ \A q \in Reqs \ {r} : req'[q] = req[q] /\ job'[q] = job[q]
        /\ \/ job'[r] = job[r] /\ req'[r].pc \in {"setup", "refused"}
           \/ job'[r] = [job[r] EXCEPT !.status = "running"] /\ req'[r].pc # "setup"
    <3>1. CASE \E k \in Kinds, n \in Names : Busy(r, k, n) \/ Enter(r, k, n)
      BY <3>1 DEF Busy, Enter, TypeOK
    <3>2. CASE \E n \in Names : Adopt(r, n)
      BY <3>2 DEF Adopt, CreateJob, TypeOK
    <3>3. CASE SetupFails(r)
      BY <3>3 DEF SetupFails, Goto, TypeOK
    <3>4. CASE Launch(r)
      BY <3>4 DEF Launch, CreateJob, Goto, TypeOK
    <3>5. CASE LosesRace(r)
      BY <3>5 DEF LosesRace, CreateJob, Goto, TypeOK
    <3>6. CASE KeyMissing(r)
      BY <3>6 DEF KeyMissing, CreateJob, Goto, TypeOK
    <3> QED BY <1>1, <3>1, <3>2, <3>3, <3>4, <3>5, <3>6 DEF Request
  <2>2. job[r].status = "absent"
    BY <2>1 DEF VerdictInv, JobVerdict
  <2>3. JobVerdict(r)'
    BY <2>1, <2>2 DEF JobVerdict, TypeOK
  <2> QED BY <2>1, <2>3, OthersVerdict
<1>2. ASSUME NEW r \in Reqs, Progress(r) \/ Success(r) PROVE VerdictInv'
  <2>1. PICK t \in {"progress", "success"} :
          /\ Push(r, NextEvent(r, t))
          /\ \/ UNCHANGED req
             \/ Goto(r, "said") /\ t = "success"
    BY <1>2 DEF Progress, Success
  <2> DEFINE e == NextEvent(r, t)
  <2>2. e \in Events /\ e.type = t
    BY NextEventType DEF NextEvent
  <2>3. EndsIn(Append(job[r].log, e), t)
    BY <2>2, AppendEndsIn DEF TypeOK
  <2>4. job'[r].log = Append(job[r].log, e) /\ job'[r].status = job[r].status
    BY <2>1 DEF Push, TypeOK
  <2>5. \A q \in Reqs \ {r} : req'[q] = req[q] /\ job'[q] = job[q]
    BY <2>1 DEF Push, Goto, TypeOK
  <2>6. req[r].pc = "running" /\ req'[r].pc \in Working
        /\ (req'[r].pc = "said" => t = "success")
    BY <1>2, <2>1 DEF Progress, Success, Goto, TypeOK
  <2> HIDE DEF e
  <2>7. JobVerdict(r)'
    BY <2>3, <2>4, <2>6 DEF VerdictInv, JobVerdict
  <2> QED BY <2>5, <2>7, OthersVerdict
<1>3. ASSUME NEW r \in Reqs, Finish(r) PROVE VerdictInv'
  <2>1. /\ job'[r] = [job[r] EXCEPT !.status = "done"]
        /\ req'[r] = [req[r] EXCEPT !.pc = "ended"]
        /\ \A q \in Reqs \ {r} : req'[q] = req[q] /\ job'[q] = job[q]
    BY <1>3 DEF Finish, MarkDone, Goto, TypeOK
  <2>2. req[r].pc = "said" \/ req[r].kind \in MayEndSilent
    BY <1>3 DEF Finish
  <2>3. JobVerdict(r)'
    BY <2>1, <2>2 DEF VerdictInv, JobVerdict, TypeOK
  <2> QED BY <2>1, <2>3, OthersVerdict
<1>4. ASSUME NEW r \in Reqs, Fail(r) PROVE VerdictInv'
  <2> DEFINE e == NextEvent(r, "error")
  <2>1. EndsIn(Append(job[r].log, e), "error")
    <3>1. e \in Events /\ e.type = "error"
      BY NextEventType DEF NextEvent
    <3> QED BY <3>1, AppendEndsIn DEF TypeOK
  <2>2. /\ job'[r].status = "failed" /\ job'[r].log = Append(job[r].log, e)
        /\ req'[r].pc = "ended"
        /\ \A q \in Reqs \ {r} : req'[q] = req[q] /\ job'[q] = job[q]
    BY <1>4 DEF Fail, MarkFailed, Goto, TypeOK
  <2> HIDE DEF e
  <2>3. JobVerdict(r)'
    BY <2>1, <2>2 DEF JobVerdict
  <2> QED BY <2>2, <2>3, OthersVerdict
<1>5. ASSUME NEW r \in Reqs, Cleanup(r) PROVE VerdictInv'
  <2>1. /\ job'[r].status = "absent" /\ req' = req
        /\ \A q \in Reqs \ {r} : job'[q] = job[q]
    BY <1>5 DEF Cleanup, NoRecord, TypeOK
  <2>2. req[r].pc \notin Working
    BY <1>5 DEF Cleanup, VerdictInv, JobVerdict
  <2>3. JobVerdict(r)'
    BY <2>1, <2>2 DEF JobVerdict
  <2> QED BY <2>1, <2>3, OthersVerdict
<1>6. ASSUME UNCHANGED <<req, job>> PROVE VerdictInv'
  BY <1>6 DEF VerdictInv, JobVerdict
<1>7. ASSUME NEW s \in Socks, Browser(s) PROVE UNCHANGED <<req, job>>
  BY <1>7 DEF Browser, Leave, Subscribe
<1> QED BY <1>1, <1>2, <1>3, <1>4, <1>5, <1>6, <1>7 DEF Next, Orchestrator, vars

\* Whoever watches a job that has ended holds its last event, which is its
\* verdict: the error of a failed job, the success of a destroy or an upgrade.
\* The stream invariant gives every watcher the end of the log, so it is enough
\* that the log ends in the verdict.
THEOREM WatchersLearnVerdict == Spec => []WatcherHasVerdict
<1>1. Init => VerdictInv
  <2> SUFFICES ASSUME Init, NEW r \in Reqs PROVE JobVerdict(r)
    BY DEF VerdictInv
  <2>1. req[r].pc = "idle" /\ job[r].status = "absent"
    BY DEF Init, NoRecord
  <2> QED BY <2>1 DEF JobVerdict, Working
<1>2. TypeOK /\ StreamInv /\ VerdictInv => WatcherHasVerdict
  <2> SUFFICES ASSUME TypeOK, StreamInv, VerdictInv,
                      NEW s \in Socks, sock[s].job # NoJob
               PROVE  /\ job[sock[s].job].status = "failed" =>
                           EndsIn(sock[s].got, "error")
                      /\ /\ job[sock[s].job].status = "done"
                         /\ req[sock[s].job].kind \notin MayEndSilent
                         => EndsIn(sock[s].got, "success")
    BY DEF WatcherHasVerdict, EndsIn
  <2>1. sock[s].job \in Reqs /\ sock[s].got \in Seq(Events)
    BY DEF TypeOK
  <2>2. job[sock[s].job].log \in Seq(Events)
    BY <2>1 DEF TypeOK
  <2>3. Recent(sock[s].got, job[sock[s].job].log)
    BY DEF StreamInv
  <2>4. JobVerdict(sock[s].job)
    BY <2>1 DEF VerdictInv
  <2>5. ASSUME NEW t, EndsIn(job[sock[s].job].log, t) PROVE EndsIn(sock[s].got, t)
    BY <2>1, <2>2, <2>3, <2>5, RecentEndsIn
  <2> QED BY <2>4, <2>5 DEF JobVerdict
<1> QED BY <1>1, <1>2, NextVerdict, StreamsAlways, TypeCorrect, PTL DEF Spec

===============================================================================
