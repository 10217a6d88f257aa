------------------------------ MODULE StateStore ------------------------------
(***************************************************************************)
(* The global state file ~/.config/hermes-deploy/state.toml and the        *)
(* StateStore.update protocol of src/state/store.ts: look for the file,    *)
(* create a blank one, take the proper-lockfile lock, read, back up,       *)
(* mutate, overwrite in place, release.                                    *)
(*                                                                         *)
(* A process is one operating-system process (a CLI invocation or the      *)
(* dashboard server).  What the file says is abstracted to the set of      *)
(* mutations it reflects: a mutation that sets, changes or deletes a       *)
(* deployment record is one element of Updates, and an update() call that  *)
(* returns has added its element.                                          *)
(*                                                                         *)
(* writeFileSync truncates and then writes, so an overwrite is two steps   *)
(* and a file between them is torn: it parses to an empty table, which     *)
(* runMigrations refuses.                                                  *)
(***************************************************************************)
EXTENDS Integers, Sequences, FiniteSets

CONSTANTS
  Procs,         \* processes that call StateStore.update
  Updates,       \* the mutations they ask for, each asked for once
  MaxBackups,    \* MAX_BACKUPS
  Bootstrapped,  \* whether state.toml exists before the first call
  MaxCrashes,    \* bound on process crashes
  Free, Orphan,  \* the lock directory is missing; is left by a dead process
  NoUpdate       \* a process is not in an update() call

ASSUME StoreAssumption ==
  /\ MaxBackups \in Nat \ {0}
  /\ MaxCrashes \in Nat
  /\ Bootstrapped \in BOOLEAN
  /\ Free \notin Procs /\ Orphan \notin Procs /\ Free # Orphan
  /\ NoUpdate \notin Updates

VARIABLES
  file,       \* state.toml
  backups,    \* state.toml.bak.<timestamp>, newest first
  lock,       \* state.toml.lock: Free, the process that made it, or Orphan
  pc, op, snap, \* per process: next step, its mutation, the state it read
  todo,       \* mutations nobody has asked for yet
  committed,  \* history: mutations whose write has finished
  crashes     \* crashes so far

vars == <<file, backups, lock, pc, op, snap, todo, committed, crashes>>

Intact(d) == [kind |-> "ok", data |-> d]
Torn == [kind |-> "torn", data |-> {}]
Absent == [kind |-> "absent", data |-> {}]

Content == [kind : {"ok", "torn", "absent"}, data : SUBSET Updates]

\* The steps between acquiring the lock and releasing it.
Critical == {"reading", "backingUp", "mutating", "writing", "releasing"}
Phase == Critical \cup {"idle", "blanking", "fillingBlank", "locking"}

TypeOK ==
  /\ file \in Content
  /\ backups \in Seq(Content)
  /\ Len(backups) <= MaxBackups + crashes
  /\ lock \in Procs \cup {Free, Orphan}
  /\ pc \in [Procs -> Phase]
  /\ op \in [Procs -> Updates \cup {NoUpdate}]
  /\ snap \in [Procs -> SUBSET Updates]
  /\ todo \in SUBSET Updates
  /\ committed \in SUBSET Updates
  /\ crashes \in 0 .. MaxCrashes

Init ==
  /\ file = IF Bootstrapped THEN Intact({}) ELSE Absent
  /\ backups = <<>>
  /\ lock = Free
  /\ pc = [p \in Procs |-> "idle"]
  /\ op = [p \in Procs |-> NoUpdate]
  /\ snap = [p \in Procs |-> {}]
  /\ todo = Updates
  /\ committed = {}
  /\ crashes = 0

Goto(p, phase) == pc' = [pc EXCEPT ![p] = phase]

\* The call is over, by return or by exception.
Return(p) ==
  /\ Goto(p, "idle")
  /\ op' = [op EXCEPT ![p] = NoUpdate]
  /\ snap' = [snap EXCEPT ![p] = {}]

\* Mutant: no pruneOldBackups.
PushUnpruned(bs, c) == <<c>> \o bs

\* copyFileSync under a fresh timestamp, then keep the MaxBackups newest.
Push(bs, c) ==
  LET all == <<c>> \o bs
  IN  IF Len(all) > MaxBackups THEN SubSeq(all, 1, MaxBackups) ELSE all

-------------------------------------------------------------------------------

\* update() is called: the existsSync test, outside the lock.
Begin(p, u) ==
  /\ pc[p] = "idle"
  /\ u \in todo
  /\ todo' = todo \ {u}
  /\ op' = [op EXCEPT ![p] = u]
  /\ Goto(p, IF file = Absent THEN "blanking" ELSE "locking")
  /\ UNCHANGED <<file, backups, lock, snap, committed, crashes>>

\* writeFileSync of the blank state, outside the lock: truncate ...
OpenBlank(p) ==
  /\ pc[p] = "blanking"
  /\ file' = Torn
  /\ Goto(p, "fillingBlank")
  /\ UNCHANGED <<backups, lock, op, snap, todo, committed, crashes>>

\* ... and write.
FillBlank(p) ==
  /\ pc[p] = "fillingBlank"
  /\ file' = Intact({})
  /\ Goto(p, "locking")
  /\ UNCHANGED <<backups, lock, op, snap, todo, committed, crashes>>

\* Mutant: a lock whose owner is alive is taken over.
AcquireAny(p) ==
  /\ pc[p] = "locking"
  /\ lock' = p
  /\ Goto(p, "reading")
  /\ UNCHANGED <<file, backups, op, snap, todo, committed, crashes>>

\* lockfile.lock succeeds: the lock directory is missing, or nobody has
\* refreshed it for 30 s because its owner died.
Acquire(p) ==
  /\ pc[p] = "locking"
  /\ lock \in {Free, Orphan}
  /\ lock' = p
  /\ Goto(p, "reading")
  /\ UNCHANGED <<file, backups, op, snap, todo, committed, crashes>>

\* 30 retries found the lock held: lockfile.lock rejects and update throws.
GiveUp(p) ==
  /\ pc[p] = "locking"
  /\ lock # Free
  /\ Return(p)
  /\ UNCHANGED <<file, backups, lock, todo, committed, crashes>>

\* Mutant: a file that does not parse is read as an empty state.
ReadLenient(p) ==
  /\ pc[p] = "reading"
  /\ snap' = [snap EXCEPT ![p] = file.data]
  /\ Goto(p, "backingUp")
  /\ UNCHANGED <<file, backups, lock, op, todo, committed, crashes>>

\* this.read() under the lock.
Read(p) ==
  /\ pc[p] = "reading"
  /\ file.kind # "torn"
  /\ snap' = [snap EXCEPT ![p] = file.data]
  /\ Goto(p, "backingUp")
  /\ UNCHANGED <<file, backups, lock, op, todo, committed, crashes>>

\* Mutant: read() outside the try block, so that its exception skips release().
ReadFailsHolding(p) ==
  /\ pc[p] = "reading"
  /\ file.kind = "torn"
  /\ Return(p)
  /\ UNCHANGED <<file, backups, lock, todo, committed, crashes>>

\* this.read() throws: a torn file does not migrate.
ReadFails(p) ==
  /\ pc[p] = "reading"
  /\ file.kind = "torn"
  /\ Goto(p, "releasing")
  /\ UNCHANGED <<file, backups, lock, op, snap, todo, committed, crashes>>

\* Mutant: no backup before the overwrite.
BackupSkipped(p) ==
  /\ pc[p] = "backingUp"
  /\ Goto(p, "mutating")
  /\ UNCHANGED <<file, backups, lock, op, snap, todo, committed, crashes>>

\* backup() and pruneOldBackups().
Backup(p) ==
  /\ pc[p] = "backingUp"
  /\ backups' = Push(backups, file)
  /\ Goto(p, "mutating")
  /\ UNCHANGED <<file, lock, op, snap, todo, committed, crashes>>

\* The mutator throws, or StateTomlSchema.parse rejects what it made.
MutatorFails(p) ==
  /\ pc[p] = "mutating"
  /\ Goto(p, "releasing")
  /\ UNCHANGED <<file, backups, lock, op, snap, todo, committed, crashes>>

\* mutator, validation, and the first half of writeFileSync.
Truncate(p) ==
  /\ pc[p] = "mutating"
  /\ file' = Torn
  /\ Goto(p, "writing")
  /\ UNCHANGED <<backups, lock, op, snap, todo, committed, crashes>>

\* The second half of writeFileSync: the mutation is durable.
Write(p) ==
  /\ pc[p] = "writing"
  /\ file' = Intact(snap[p] \cup {op[p]})
  /\ committed' = committed \cup {op[p]}
  /\ Goto(p, "releasing")
  /\ UNCHANGED <<backups, lock, op, snap, todo, crashes>>

\* release() in the finally block, on success and on every exception.
Release(p) ==
  /\ pc[p] = "releasing"
  /\ lock' = Free
  /\ Return(p)
  /\ UNCHANGED <<file, backups, todo, committed, crashes>>

-------------------------------------------------------------------------------

\* The process dies inside update().  Its lock directory stays, and a backup
\* under way leaves a copy, whole or torn, that nobody pruned for.  Later
\* calls of p are a new process.
Crash(p) ==
  /\ crashes < MaxCrashes
  /\ pc[p] # "idle"
  /\ crashes' = crashes + 1
  /\ lock' = IF lock = p THEN Orphan ELSE lock
  /\ \/ backups' = backups
     \/ /\ pc[p] = "backingUp"
        /\ \E c \in {file, Torn} : backups' = <<c>> \o backups
  /\ Return(p)
  /\ UNCHANGED <<file, todo, committed>>

\* The operator copies the newest backup over a corrupted state.toml while
\* nothing runs.
Restore ==
  /\ file.kind = "torn"
  /\ \A p \in Procs : pc[p] = "idle"
  /\ backups # <<>>
  /\ file' = backups[1]
  /\ UNCHANGED <<backups, lock, pc, op, snap, todo, committed, crashes>>

\* The steps of a call that has begun; the process takes them by itself.
Step(p) ==
  \/ OpenBlank(p) \/ FillBlank(p)
  \/ Acquire(p) \/ GiveUp(p)
  \/ Read(p) \/ ReadFails(p)
  \/ Backup(p)
  \/ MutatorFails(p) \/ Truncate(p) \/ Write(p)
  \/ Release(p)

Next ==
  \/ \E p \in Procs, u \in Updates : Begin(p, u)
  \/ \E p \in Procs : Step(p)
  \/ \E p \in Procs : Crash(p)
  \/ Restore

Spec == Init /\ [][Next]_vars
FairSpec == Spec /\ \A p \in Procs : WF_vars(Step(p))

-------------------------------------------------------------------------------

\* What the file says or, when it is torn, what the operator gets back by
\* restoring the newest backup.
Durable ==
  IF file.kind # "torn" THEN file.data
  ELSE IF backups = <<>> THEN {} ELSE backups[1].data

\* The lock keeps the read-back up-write sequence of one process apart from
\* every other's (store.ts:45, the "no interleaving" test of store.test.ts).
MutualExclusion ==
  \A p, q \in Procs : pc[p] \in Critical /\ pc[q] \in Critical => p = q

\* No update() that returned is ever lost, and none that failed or died
\* shows up: the file, or its newest backup while the file is torn, reflects
\* exactly the finished writes.  This covers the in-place overwrite: the
\* backup of store.ts:51 is taken after the read and before the truncation.
DurableIsCommitted == Durable = committed

\* One half of the above, for the runs that lose updates: "two invocations on
\* different deployments serialize cleanly" (design document, section 7.1).
NoLostUpdate == committed \subseteq Durable

\* A live process lets go of the lock however its call ends: read error,
\* mutator exception or success (the finally block of store.ts:56).
LockReleased == \A p \in Procs : lock = p ~> lock # p

\* What the store promises its callers: atomic updates, one at a time.
Atomic == INSTANCE AtomicStore WITH value <- Durable

\* The lock, the backup and the in-place overwrite together implement it:
\* no step but the end of a write changes what is durable, and that one adds
\* one mutation to everything durable before.
ImplementsAtomicStore == Atomic!Spec

===============================================================================
