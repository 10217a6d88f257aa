--------------------------- MODULE StateStoreProofs ---------------------------
(***************************************************************************)
(* Proofs about StateStore, for every set of processes, every set of       *)
(* mutations and every number of backups and crashes.                      *)
(***************************************************************************)
EXTENDS StateStore, SequenceTheorems, TLAPS

-------------------------------------------------------------------------------
(* Type correctness *)

\* Pushing a backup keeps a sequence of file contents, never leaves it empty
\* and puts the new copy first: pruning drops the oldest only.
LEMMA PushNewest ==
  ASSUME NEW bs \in Seq(Content), NEW c \in Content
  PROVE  /\ Push(bs, c) \in Seq(Content)
         /\ Push(bs, c) # <<>>
         /\ Push(bs, c)[1] = c
         /\ Len(Push(bs, c)) <= MaxBackups
<1> DEFINE all == <<c>> \o bs
<1>1. /\ all \in Seq(Content)
      /\ Len(all) >= 1
      /\ all[1] = c
  OBVIOUS
<1>2. CASE Len(all) > MaxBackups
  <2>1. MaxBackups \in Nat /\ 1 <= MaxBackups /\ MaxBackups <= Len(all)
    BY <1>1, <1>2, StoreAssumption
  <2>2. /\ SubSeq(all, 1, MaxBackups) \in Seq(Content)
        /\ Len(SubSeq(all, 1, MaxBackups)) = MaxBackups
        /\ SubSeq(all, 1, MaxBackups)[1] = all[1]
    BY <1>1, <2>1
  <2>3. Push(bs, c) = SubSeq(all, 1, MaxBackups)
    BY <1>2 DEF Push
  <2>. QED
    BY <1>1, <2>1, <2>2, <2>3
<1>3. CASE ~(Len(all) > MaxBackups)
  BY <1>1, <1>3, StoreAssumption DEF Push
<1>. QED
  BY <1>2, <1>3

\* What a file can hold: nothing, a torn text, or a set of mutations.
LEMMA ContentTypes ==
  /\ Torn \in Content
  /\ Absent \in Content
  /\ \A d \in SUBSET Updates : Intact(d) \in Content
BY DEF Torn, Absent, Intact, Content

\* A process inside update() has a mutation to make: with TypeOK, what type
\* correctness needs to be inductive.
CallHasUpdate == \A p \in Procs : pc[p] # "idle" => op[p] \in Updates

TypeInv == TypeOK /\ CallHasUpdate

\* Nobody is inside update() at first.
LEMMA TypeInvInit == Init => TypeInv
BY StoreAssumption, ContentTypes DEF Init, TypeInv, TypeOK, CallHasUpdate, Phase

\* Every step keeps the types: Begin chooses the mutation, the rest keep it.
LEMMA TypeInvStep == TypeInv /\ [Next]_vars => TypeInv'
<1> SUFFICES ASSUME TypeInv, [Next]_vars
             PROVE  TypeInv'
  OBVIOUS
<1> USE DEF TypeInv, TypeOK, CallHasUpdate, Goto, Return
<1>1. ASSUME NEW p \in Procs, NEW u \in Updates, Begin(p, u)
      PROVE  TypeInv'
  BY <1>1 DEF Begin, Phase
<1>2. ASSUME NEW p \in Procs, Step(p)
      PROVE  TypeInv'
  <2>1. CASE OpenBlank(p)
    BY <2>1, ContentTypes DEF OpenBlank, Phase
  <2>2. CASE FillBlank(p)
    BY <2>2, ContentTypes DEF FillBlank, Phase
  <2>3. CASE Acquire(p)
    BY <2>3 DEF Acquire, Phase, Critical
  <2>4. CASE GiveUp(p)
    BY <2>4 DEF GiveUp, Phase
  <2>5. CASE Read(p)
    BY <2>5 DEF Read, Phase, Critical, Content
  <2>6. CASE ReadFails(p)
    BY <2>6 DEF ReadFails, Phase, Critical
  <2>7. CASE Backup(p)
    <3>1. backups' \in Seq(Content) /\ Len(backups') <= MaxBackups
      BY <2>7, PushNewest DEF Backup
    <3>2. Len(backups') <= MaxBackups + crashes'
      BY <2>7, <3>1, StoreAssumption DEF Backup
    <3>. QED
      BY <2>7, <3>1, <3>2 DEF Backup, Phase, Critical
  <2>8. CASE MutatorFails(p)
    BY <2>8 DEF MutatorFails, Phase, Critical
  <2>9. CASE Truncate(p)
    BY <2>9, ContentTypes DEF Truncate, Phase, Critical
  <2>10. CASE Write(p)
    <3>1. snap[p] \cup {op[p]} \in SUBSET Updates
      BY <2>10 DEF Write
    <3>2. file' \in Content
      BY <2>10, <3>1, ContentTypes DEF Write
    <3>. QED
      BY <2>10, <3>1, <3>2 DEF Write, Phase, Critical
  <2>11. CASE Release(p)
    BY <2>11 DEF Release, Phase
  <2>. QED
    BY <1>2, <2>1, <2>2, <2>3, <2>4, <2>5, <2>6, <2>7, <2>8, <2>9, <2>10,
       <2>11 DEF Step
<1>3. ASSUME NEW p \in Procs, Crash(p)
      PROVE  TypeInv'
  <2>1. backups' \in Seq(Content) /\ Len(backups') <= MaxBackups + crashes'
    <3>1. CASE backups' = backups
      BY <1>3, <3>1, StoreAssumption DEF Crash
    <3>2. ASSUME NEW c \in {file, Torn}, backups' = <<c>> \o backups
          PROVE  backups' \in Seq(Content) /\ Len(backups') = Len(backups) + 1
      BY <3>2, ContentTypes
    <3>. QED
      BY <1>3, <3>1, <3>2, StoreAssumption DEF Crash
  <2>2. crashes' \in 0 .. MaxCrashes
    BY <1>3, StoreAssumption DEF Crash
  <2>. QED
    BY <1>3, <2>1, <2>2 DEF Crash, Phase
<1>4. CASE Restore
  <2>1. backups[1] \in Content
    BY <1>4 DEF Restore
  <2>. QED
    BY <1>4, <2>1 DEF Restore
<1>5. CASE UNCHANGED vars
  BY <1>5 DEF vars
<1>. QED
  BY <1>1, <1>2, <1>3, <1>4, <1>5 DEF Next

\* Every reachable state has its type: the type invariant of the runs.
THEOREM TypeCorrect == Spec => []TypeOK
<1>1. TypeInv => TypeOK
  BY DEF TypeInv
<1>. QED
  BY <1>1, TypeInvInit, TypeInvStep, PTL DEF Spec

-------------------------------------------------------------------------------
(* Mutual exclusion *)

\* The processes between acquire and release are exactly the owner of the
\* lock directory.  Holds from the first call on, blank creation included.
LockInv == \A p \in Procs : pc[p] \in Critical <=> lock = p

\* Acquire takes a free lock; only its owner, or its crash, gives it back.
LEMMA LockInvStep == TypeInv /\ LockInv /\ [Next]_vars => LockInv'
<1> SUFFICES ASSUME TypeInv, LockInv, [Next]_vars
             PROVE  LockInv'
  OBVIOUS
<1> USE StoreAssumption
    DEF TypeInv, TypeOK, LockInv, Goto, Return, Critical
<1>1. ASSUME NEW p \in Procs, NEW u \in Updates, Begin(p, u)
      PROVE  LockInv'
  BY <1>1 DEF Begin
<1>2. ASSUME NEW p \in Procs, Step(p)
      PROVE  LockInv'
  <2>1. CASE OpenBlank(p) \/ FillBlank(p) \/ GiveUp(p)
    BY <2>1 DEF OpenBlank, FillBlank, GiveUp
  <2>2. CASE Acquire(p)
    BY <2>2 DEF Acquire
  <2>3. CASE Read(p) \/ ReadFails(p) \/ Backup(p)
    BY <2>3 DEF Read, ReadFails, Backup
  <2>4. CASE MutatorFails(p) \/ Truncate(p) \/ Write(p)
    BY <2>4 DEF MutatorFails, Truncate, Write
  <2>5. CASE Release(p)
    BY <2>5 DEF Release
  <2>. QED
    BY <1>2, <2>1, <2>2, <2>3, <2>4, <2>5 DEF Step
<1>3. ASSUME NEW p \in Procs, Crash(p)
      PROVE  LockInv'
  BY <1>3 DEF Crash
<1>4. CASE Restore
  BY <1>4 DEF Restore
<1>5. CASE UNCHANGED vars
  BY <1>5 DEF vars
<1>. QED
  BY <1>1, <1>2, <1>3, <1>4, <1>5 DEF Next

\* At most one process is between reading and releasing, whatever crashes
\* and whoever creates the file.
THEOREM Exclusion == Spec => []MutualExclusion
<1>1. Init => LockInv
  BY StoreAssumption DEF Init, LockInv, Critical
<1>2. LockInv => MutualExclusion
  BY DEF LockInv, MutualExclusion
<1>. QED
  BY <1>1, <1>2, TypeInvInit, TypeInvStep, LockInvStep, PTL DEF Spec

-------------------------------------------------------------------------------
(* Durability, once the file exists *)

\* What ties the file, the newest backup and the finished writes together.
\* An intact file is up to date; a torn one has an up-to-date newest backup;
\* and the process holding the lock has read what the file said before it
\* began to overwrite it.  Needs the file to exist: a process that creates it
\* writes outside the lock.
StoreInv ==
  /\ \/ file = Intact(committed)
     \/ file = Torn /\ backups # <<>> /\ backups[1] = Intact(committed)
  /\ \A p \in Procs :
       /\ pc[p] \notin {"blanking", "fillingBlank"}
       /\ pc[p] \in {"backingUp", "mutating"} =>
            file = Intact(committed) /\ snap[p] = committed
       /\ pc[p] = "mutating" =>
            backups # <<>> /\ backups[1] = Intact(committed)
       /\ pc[p] = "writing" => file = Torn /\ snap[p] = committed

\* The three kinds of content are told apart by their kind.
LEMMA DistinctKinds ==
  \A d \in SUBSET Updates : /\ Intact(d).kind = "ok" /\ Intact(d).data = d
                            /\ Torn.kind = "torn" /\ Absent.kind = "absent"
                            /\ Intact(d) # Torn /\ Intact(d) # Absent
                            /\ Torn # Absent
<1>1. ASSUME NEW d \in SUBSET Updates
      PROVE  /\ Intact(d).kind = "ok" /\ Intact(d).data = d
             /\ Torn.kind = "torn" /\ Absent.kind = "absent"
  BY DEF Intact, Torn, Absent
<1>2. "ok" # "torn" /\ "ok" # "absent" /\ "torn" # "absent"
  OBVIOUS
<1>. QED
  BY <1>1, <1>2

\* At first an existing file says what is committed, and nobody has read it.
LEMMA StoreInvInit == Bootstrapped /\ Init => StoreInv
BY DEF Init, StoreInv

\* Every step keeps StoreInv: only the owner of the lock writes, and after
\* a crash the newest backup stands for the torn file.
LEMMA StoreInvStep ==
  TypeInv /\ LockInv /\ StoreInv /\ [Next]_vars => StoreInv'
<1> SUFFICES ASSUME TypeInv, LockInv, StoreInv, [Next]_vars
             PROVE  StoreInv'
  OBVIOUS
<1> USE DistinctKinds DEF TypeInv, TypeOK, LockInv, Critical, StoreInv, Goto,
                          Return
<1>1. ASSUME NEW p \in Procs, NEW u \in Updates, Begin(p, u)
      PROVE  StoreInv'
  BY <1>1 DEF Begin
<1>2. ASSUME NEW p \in Procs, Step(p)
      PROVE  StoreInv'
  <2>1. CASE OpenBlank(p) \/ FillBlank(p)
    BY <2>1 DEF OpenBlank, FillBlank
  <2>2. CASE Acquire(p) \/ GiveUp(p)
    BY <2>2 DEF Acquire, GiveUp
  <2>3. CASE Read(p)
    BY <2>3 DEF Read
  <2>4. CASE ReadFails(p) \/ MutatorFails(p) \/ Release(p)
    BY <2>4 DEF ReadFails, MutatorFails, Release
  <2>5. CASE Backup(p)
    <3>1. backups' # <<>> /\ backups'[1] = file
      BY <2>5, PushNewest DEF Backup
    <3>. QED
      BY <2>5, <3>1 DEF Backup
  <2>6. CASE Truncate(p)
    BY <2>6 DEF Truncate
  <2>7. CASE Write(p)
    BY <2>7 DEF Write
  <2>. QED
    BY <1>2, <2>1, <2>2, <2>3, <2>4, <2>5, <2>6, <2>7 DEF Step
<1>3. ASSUME NEW p \in Procs, Crash(p)
      PROVE  StoreInv'
  <2>1. CASE pc[p] = "backingUp" /\ backups' # backups
    \* A copy may be torn, but the file it was taken from is not.
    <3>1. file.kind # "torn"
      BY <2>1, DistinctKinds
    <3>. QED
      BY <1>3, <2>1, <3>1 DEF Crash
  <2>2. CASE backups' = backups
    BY <1>3, <2>2 DEF Crash
  <2>. QED
    BY <1>3, <2>1, <2>2 DEF Crash
<1>4. CASE Restore
  BY <1>4 DEF Restore
<1>5. CASE UNCHANGED vars
  BY <1>5 DEF vars
<1>. QED
  BY <1>1, <1>2, <1>3, <1>4, <1>5 DEF Next

\* So the durable state is what was committed.
LEMMA StoreInvDurable == TypeInv /\ StoreInv => DurableIsCommitted
BY DistinctKinds DEF TypeInv, TypeOK, StoreInv, DurableIsCommitted, Durable

\* Once the file exists no finished update is ever lost and no failed one
\* ever shows, across crashes at every step and restores from a backup.
THEOREM Durability ==
  ASSUME Bootstrapped
  PROVE  Spec => []DurableIsCommitted
<1>1. Init => TypeInv /\ LockInv /\ StoreInv
  BY TypeInvInit, StoreInvInit, StoreAssumption DEF Init, LockInv, Critical
<1>. QED
  BY <1>1, TypeInvStep, LockInvStep, StoreInvStep, StoreInvDurable, PTL DEF Spec

\* A step either leaves the durable state alone or is the end of a write,
\* which adds one mutation to it.
LEMMA StepRefines ==
  DurableIsCommitted /\ DurableIsCommitted' /\ TypeInv /\ [Next]_vars
    => [Atomic!Next]_Durable
<1> SUFFICES ASSUME DurableIsCommitted, DurableIsCommitted', TypeInv,
                    [Next]_vars, Durable' # Durable
             PROVE  \E u \in Updates : u \notin Durable /\ Durable' = Durable \cup {u}
  BY DEF Atomic!Next, Atomic!Commit
<1>1. committed' # committed
  BY DEF DurableIsCommitted
<1>2. PICK p \in Procs : Write(p)
  BY <1>1 DEF Next, vars, Begin, Step, OpenBlank, FillBlank, Acquire, GiveUp,
              Read, ReadFails, Backup, MutatorFails, Truncate, Release, Crash,
              Restore
<1>3. op[p] \in Updates
  BY <1>2 DEF Write, TypeInv, CallHasUpdate
<1>4. committed' = committed \cup {op[p]} /\ op[p] \notin committed
  BY <1>1, <1>2 DEF Write
<1>. QED
  BY <1>3, <1>4 DEF DurableIsCommitted

\* The lock, the backup and the in-place overwrite implement atomic updates.
THEOREM Atomicity ==
  ASSUME Bootstrapped
  PROVE  Spec => ImplementsAtomicStore
<1>1. Init => Atomic!Init
  BY DistinctKinds DEF Init, Atomic!Init, Durable, Intact
<1>2. Init => TypeInv /\ LockInv /\ StoreInv
  BY TypeInvInit, StoreInvInit, StoreAssumption DEF Init, LockInv, Critical
<1>. QED
  BY <1>1, <1>2, TypeInvStep, LockInvStep, StoreInvStep, StoreInvDurable,
     StepRefines, PTL DEF Spec, ImplementsAtomicStore, Atomic!Spec

===============================================================================
