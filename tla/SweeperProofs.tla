----------------------------- MODULE SweeperProofs -----------------------------
(***************************************************************************)
(* Proofs about Sweeper, for any number of tests, users and others, and    *)
(* any number of failed calls and dry runs: what a sweep takes.            *)
(***************************************************************************)
EXTENDS Sweeper, TLAPS

Ages == {"none", "young", "old"}
Gone == {"crashed", "over"}
Stages == {"new", "running", "ending"} \cup Gone

\* The sweep is at a kind of its list, and has listed only while it is.
SweepAt ==
  /\ sweep.at \in 0 .. Len(Swept[cloud])
  /\ sweep.listed => sweep.at > 0

SweepTypes ==
  /\ cloud \in {"aws", "gcp"}
  /\ has \in [Owners -> [Kinds -> Ages]]
  /\ test \in [Tests -> Stages]
  /\ made \in [Tests -> Nat]
  /\ sweep \in [at : Nat, listed : BOOLEAN, todo : SUBSET Owners,
                dry : BOOLEAN, errors : BOOLEAN]
  /\ SweepAt

\* Only what a test has left behind grows old.
OldIsLeft == \A t \in Tests : \A k \in Kinds : has[t][k] = "old" => test[t] \in Gone

\* What is listed is of tests, and of tests that are gone, or it has no date.
ListedIsLeft ==
  sweep.listed =>
    \A o \in sweep.todo : o \in Tests /\ (test[o] \in Gone \/ Undated(Kind))

SweepInv == SweepTypes /\ OldIsLeft /\ ListedIsLeft

-------------------------------------------------------------------------------

\* A sweep that is at a place of its list is at a kind.
LEMMA KindIsOne ==
  ASSUME SweepTypes, sweep.at > 0
  PROVE  Kind \in Kinds
BY DEF SweepTypes, SweepAt, Kind, Swept, Kinds

\* What provisioning creates are kinds.
LEMMA CreatedKinds ==
  ASSUME cloud \in {"aws", "gcp"}
  PROVE  \A i \in DOMAIN Created[cloud] : Created[cloud][i] \in Kinds
BY DEF Created, Kinds

\* So is what a test creates next.
LEMMA NextIsKind ==
  ASSUME SweepTypes, NEW t \in Tests, made[t] < Len(Created[cloud])
  PROVE  Created[cloud][made[t] + 1] \in Kinds
<1>1. made[t] \in Nat /\ cloud \in {"aws", "gcp"}
  BY DEF SweepTypes
<1>2. Len(Created["aws"]) = 5 /\ Len(Created["gcp"]) = 3
  BY DEF Created
<1>3. made[t] + 1 \in DOMAIN Created[cloud]
  BY <1>1, <1>2 DEF Created
<1> QED BY <1>1, <1>3, CreatedKinds

\* What a sweep that deletes a resource of o takes of it.
Taken(o, k) == (k = Kind \/ (Kind = "instance" /\ k = "association")) /\ ~InUse(o, Kind)

\* A deletion leaves nothing new and makes nothing older.
LEMMA WithoutLess ==
  ASSUME SweepTypes, sweep.at > 0, NEW os
  PROVE  /\ Without(os) \in [Owners -> [Kinds -> Ages]]
         /\ \A o \in Owners : \A k \in Kinds :
              /\ Without(os)[o][k] \in {"none", has[o][k]}
              /\ Without(os)[o][k] # has[o][k] => o \in os /\ Taken(o, k)
<1>1. Kind \in Kinds
  BY KindIsOne
<1>2. has \in [Owners -> [Kinds -> Ages]]
  BY DEF SweepTypes
<1>3. ASSUME NEW o \in Owners
      PROVE  /\ Without(os)[o] \in [Kinds -> Ages]
             /\ \A k \in Kinds :
                  /\ Without(os)[o][k] \in {"none", has[o][k]}
                  /\ Without(os)[o][k] # has[o][k] => o \in os /\ Taken(o, k)
  <2>1. CASE o \in os /\ ~InUse(o, Kind)
    <3>1. Without(os)[o] =
            [k \in Kinds |-> IF k = Kind \/ (Kind = "instance" /\ k = "association")
                             THEN "none" ELSE has[o][k]]
      BY <2>1 DEF Without
    <3> QED BY <1>1, <1>2, <2>1, <3>1 DEF Ages, Taken
  <2>2. CASE ~(o \in os /\ ~InUse(o, Kind))
    <3>1. Without(os)[o] = has[o]
      BY <2>2 DEF Without
    <3> QED BY <1>2, <3>1
  <2> QED BY <2>1, <2>2
<1>4. Without(os) = [o \in Owners |-> Without(os)[o]]
  BY DEF Without
<1> QED BY <1>3, <1>4

\* A sweep deletes what it has listed, not in a dry run.
LEMMA DeletesListed ==
  ASSUME SweepTypes, DeleteListed \/ DeleteFails
  PROVE  /\ sweep.listed /\ sweep.at > 0
         /\ UNCHANGED <<cloud, test, made>>
         /\ sweep' \in [at : {sweep.at}, listed : {TRUE}, todo : SUBSET sweep.todo,
                        dry : {sweep.dry}, errors : BOOLEAN]
         /\ has' = has \/ (~sweep.dry /\ \E os \in SUBSET sweep.todo : has' = Without(os))
BY DEF DeleteListed, DeleteFails, SweepTypes, SweepAt

-------------------------------------------------------------------------------

\* At first nothing is listed, and tests have nothing.
LEMMA SweepInvInit == Init => SweepInv
<1> SUFFICES ASSUME Init PROVE SweepInv
  OBVIOUS
<1>1. SweepTypes
  BY DEF Init, SweepTypes, SweepAt, Resting, Ages, Stages, Swept
<1>2. OldIsLeft
  BY DEF Init, OldIsLeft, Owners
<1>3. ListedIsLeft
  BY DEF Init, ListedIsLeft, Resting
<1> QED BY <1>1, <1>2, <1>3 DEF SweepInv

\* The steps of a test: what they leave as it is.
LEMMA TestStep ==
  ASSUME SweepInv, NEW t \in Tests,
         Begin(t) \/ Create(t) \/ End(t) \/ Destroy(t) \/ Crash(t) \/ Age(t)
  PROVE  SweepInv'
<1> DEFINE Kept == UNCHANGED <<cloud, sweep>>
<1>0. /\ has \in [Owners -> [Kinds -> Ages]] /\ test \in [Tests -> Stages]
      /\ made \in [Tests -> Nat] /\ t \in Owners
  BY DEF SweepInv, SweepTypes, Owners
<1>1. ASSUME Kept, has' \in [Owners -> [Kinds -> Ages]], test' \in [Tests -> Stages],
             made' \in [Tests -> Nat], OldIsLeft', \A o \in Tests : test[o] \in Gone => test'[o] \in Gone
      PROVE  SweepInv'
  <2>1. SweepTypes'
    BY <1>1 DEF SweepInv, SweepTypes, SweepAt
  <2>2. ListedIsLeft'
    BY <1>1 DEF SweepInv, ListedIsLeft, Undated, Kind
  <2> QED BY <1>1, <2>1, <2>2 DEF SweepInv
<1>2. CASE Begin(t) \/ End(t) \/ Crash(t)
  <2>1. /\ Kept /\ has' = has /\ made' = made /\ test' \in [Tests -> Stages]
        /\ \A o \in Tests : test[o] \in Gone => test'[o] \in Gone
    BY <1>0, <1>2 DEF Begin, End, Crash, Gone, Stages
  <2> QED BY <1>0, <1>1, <2>1 DEF SweepInv, OldIsLeft
<1>3. CASE Create(t)
  <2> DEFINE next == Created[cloud][made[t] + 1]
  <2>1. /\ has' = [has EXCEPT ![t][next] = "young"]
        /\ made' = [made EXCEPT ![t] = made[t] + 1]
        /\ Kept /\ test' = test
    BY <1>3 DEF Create
  <2>2. next \in Kinds
    BY <1>3, NextIsKind DEF SweepInv, Create
  <2>5. made' \in [Tests -> Nat]
    <3>1. made[t] + 1 \in Nat
      BY <1>0
    <3> QED BY <1>0, <2>1, <3>1
  <2> HIDE DEF next
  <2>3. /\ Kept /\ test' = test /\ has' \in [Owners -> [Kinds -> Ages]]
        /\ \A o \in Owners : \A k \in Kinds : has'[o][k] \in {"young", has[o][k]}
    BY <1>0, <2>1, <2>2 DEF Ages
  <2>4. OldIsLeft'
    <3>1. SUFFICES ASSUME NEW o \in Tests, NEW k \in Kinds, has'[o][k] = "old"
                   PROVE  test'[o] \in Gone
      BY DEF OldIsLeft
    <3>2. o \in Owners
      BY DEF Owners
    <3>3. has[o][k] = "old"
      BY <2>3, <3>1, <3>2
    <3> QED BY <2>3, <3>3 DEF SweepInv, OldIsLeft
  <2> QED BY <1>0, <1>1, <2>3, <2>4, <2>5
<1>4. CASE Destroy(t)
  <2>1. /\ Kept /\ made' = made /\ has' = [has EXCEPT ![t] = [k \in Kinds |-> "none"]]
        /\ test' = [test EXCEPT ![t] = "over"]
    BY <1>4 DEF Destroy
  <2>2. has' \in [Owners -> [Kinds -> Ages]] /\ test' \in [Tests -> Stages]
    BY <1>0, <2>1 DEF Ages, Stages, Gone
  <2>3. OldIsLeft'
    BY <1>0, <2>1 DEF SweepInv, OldIsLeft, Owners, Gone
  <2>4. \A o \in Tests : test[o] \in Gone => test'[o] \in Gone
    BY <1>0, <2>1 DEF Gone
  <2> QED BY <1>0, <1>1, <2>1, <2>2, <2>3, <2>4
<1>5. CASE Age(t)
  <2>1. /\ Kept /\ made' = made /\ test' = test /\ test[t] \in Gone
        /\ has' = [has EXCEPT ![t] =
                     [k \in Kinds |-> IF has[t][k] = "young" THEN "old" ELSE has[t][k]]]
    BY <1>5 DEF Age, Gone
  <2>2. has' \in [Owners -> [Kinds -> Ages]]
    BY <1>0, <2>1 DEF Ages
  <2>3. OldIsLeft'
    BY <1>0, <2>1 DEF SweepInv, OldIsLeft, Owners
  <2> QED BY <1>0, <1>1, <2>1, <2>2, <2>3
<1> QED BY <1>2, <1>3, <1>4, <1>5

\* A deletion takes nothing up, and what is listed stays listed or goes.
LEMMA DeleteStep ==
  ASSUME SweepInv, DeleteListed \/ DeleteFails
  PROVE  SweepInv'
<1>1. SweepTypes
  BY DEF SweepInv
<1>2. /\ sweep.listed /\ sweep.at > 0
      /\ UNCHANGED <<cloud, test, made>>
      /\ sweep' \in [at : {sweep.at}, listed : {TRUE}, todo : SUBSET sweep.todo,
                     dry : {sweep.dry}, errors : BOOLEAN]
      /\ has' = has \/ \E os : has' = Without(os)
  BY <1>1, DeletesListed
<1>3. /\ has' \in [Owners -> [Kinds -> Ages]]
      /\ \A o \in Owners : \A k \in Kinds : has'[o][k] \in {"none", has[o][k]}
  BY <1>1, <1>2, WithoutLess DEF SweepTypes
<1>4. SweepTypes'
  BY <1>1, <1>2, <1>3 DEF SweepTypes, SweepAt
<1>5. OldIsLeft'
  BY <1>2, <1>3 DEF SweepInv, OldIsLeft, Owners
<1>6. ListedIsLeft'
  BY <1>2 DEF SweepInv, ListedIsLeft, Undated, Kind
<1> QED BY <1>4, <1>5, <1>6 DEF SweepInv

\* The sweep goes from one kind to the next, and what it lists is past the rails.
LEMMA MoveStep ==
  ASSUME SweepInv, (\E dry \in BOOLEAN : StartSweep(dry)) \/ ListKind \/ NextKind
  PROVE  SweepInv'
<1>0. Len(Swept[cloud]) \in {3, 4}
  BY DEF SweepInv, SweepTypes, Swept
<1>1. UNCHANGED <<cloud, has, test, made>>
  BY DEF StartSweep, ListKind, NextKind
<1>2. OldIsLeft'
  BY <1>1 DEF SweepInv, OldIsLeft
<1>3. ASSUME ~sweep'.listed, sweep'.at <= Len(Swept[cloud]),
             sweep' \in [at : Nat, listed : BOOLEAN, todo : SUBSET Owners,
                         dry : BOOLEAN, errors : BOOLEAN]
      PROVE  SweepInv'
  <2>1. sweep'.at \in 0 .. Len(Swept[cloud])
    BY <1>0, <1>3
  <2> QED BY <1>1, <1>2, <1>3, <2>1 DEF SweepInv, SweepTypes, SweepAt, ListedIsLeft
<1>4. CASE \E dry \in BOOLEAN : StartSweep(dry)
  <2>1. PICK dry \in BOOLEAN : sweep' = [Resting EXCEPT !.at = 1, !.dry = dry]
    BY <1>4 DEF StartSweep
  <2>2. sweep' = [at |-> 1, listed |-> FALSE, todo |-> {}, dry |-> dry, errors |-> FALSE]
    BY <2>1 DEF Resting
  <2>3. sweep' \in [at : Nat, listed : BOOLEAN, todo : SUBSET Owners,
                    dry : BOOLEAN, errors : BOOLEAN]
    BY <2>2
  <2>4. sweep'.listed = FALSE
    BY <2>2
  <2>5. sweep'.at = 1
    BY <2>2
  <2>6. sweep'.at <= Len(Swept[cloud])
    BY <1>0, <2>5
  <2> QED BY <1>3, <2>3, <2>4, <2>6
<1>5. CASE sweep' = Resting
  BY <1>0, <1>3, <1>5 DEF Resting
<1>6. CASE ListKind /\ sweep' # Resting
  <2> DEFINE Found == {o \in Owners : Has(o, Kind) /\ Eligible(o, Kind)}
  <2>1. sweep.at > 0 /\ sweep' = [sweep EXCEPT !.listed = TRUE, !.todo = Found]
    BY <1>6 DEF ListKind
  <2>2. Kind \in Kinds
    BY <2>1, KindIsOne DEF SweepInv
  <2>3. \A o \in Found : o \in Tests /\ (test[o] \in Gone \/ Undated(Kind))
    BY <2>2 DEF Eligible, SweepInv, OldIsLeft
  <2>4. SweepTypes'
    BY <1>1, <2>1 DEF SweepInv, SweepTypes, SweepAt
  <2>5. Kind' = Kind /\ sweep'.todo = Found
    BY <1>1, <2>1 DEF Kind, SweepInv, SweepTypes
  <2>6. ListedIsLeft'
    BY <1>1, <2>3, <2>5 DEF ListedIsLeft, Undated
  <2> QED BY <1>2, <2>4, <2>6 DEF SweepInv
<1>7. CASE NextKind /\ sweep' # Resting
  <2>1. /\ sweep.listed /\ sweep.at # Len(Swept[cloud])
        /\ sweep' = [sweep EXCEPT !.at = @ + 1, !.listed = FALSE]
    BY <1>7 DEF NextKind
  <2>2. sweep'.at = sweep.at + 1 /\ ~sweep'.listed
    BY <2>1 DEF SweepInv, SweepTypes
  <2>3. sweep'.at \in Nat /\ sweep'.at <= Len(Swept[cloud])
    BY <1>0, <2>1, <2>2 DEF SweepInv, SweepTypes, SweepAt
  <2>4. sweep' \in [at : Nat, listed : BOOLEAN, todo : SUBSET Owners,
                    dry : BOOLEAN, errors : BOOLEAN]
    BY <2>1, <2>3 DEF SweepInv, SweepTypes
  <2> QED BY <1>3, <2>2, <2>3, <2>4
<1> QED BY <1>4, <1>5, <1>6, <1>7

\* Every step keeps the invariant.
LEMMA SweepInvStep == SweepInv /\ [Next]_sweepVars => SweepInv'
<1> SUFFICES ASSUME SweepInv, [Next]_sweepVars PROVE SweepInv'
  OBVIOUS
<1>1. CASE UNCHANGED sweepVars
  BY <1>1 DEF sweepVars, SweepInv, SweepTypes, SweepAt, OldIsLeft, ListedIsLeft, Undated, Kind
<1>2. CASE Next
  <2>1. \/ \E t \in Tests : Begin(t) \/ Create(t) \/ End(t) \/ Destroy(t) \/ Crash(t) \/ Age(t)
        \/ DeleteListed \/ DeleteFails
        \/ (\E dry \in BOOLEAN : StartSweep(dry)) \/ ListKind \/ NextKind
    BY <1>2 DEF Next, SweepStep
  <2> QED BY <2>1, TestStep, DeleteStep, MoveStep
<1> QED BY <1>1, <1>2

-------------------------------------------------------------------------------

\* What a sweep takes, step by step.
TakeIsFair(o, k) ==
  Has(o, k) /\ ~Has(o, k)' =>
    /\ o \in Tests
    /\ \/ test[o] \in {"ending", "over"} \/ (test[o] = "crashed" /\ ~sweep.dry)
       \/ cloud = "aws" /\ k = "group" /\ ~Has(o, "instance")
       \/ cloud = "aws" /\ k = "address" /\ ~Has(o, "association")

\* Only a destroy, or a sweep of what it has listed, takes anything.
LEMMA TakesAreFair ==
  ASSUME SweepInv, [Next]_sweepVars, NEW o \in Owners, NEW k \in Kinds
  PROVE  TakeIsFair(o, k)
<1> SUFFICES ASSUME Has(o, k), ~Has(o, k)'
             PROVE  /\ o \in Tests
                    /\ \/ test[o] \in {"ending", "over"} \/ (test[o] = "crashed" /\ ~sweep.dry)
                       \/ cloud = "aws" /\ k = "group" /\ ~Has(o, "instance")
                       \/ cloud = "aws" /\ k = "address" /\ ~Has(o, "association")
  BY DEF TakeIsFair
<1>0. has \in [Owners -> [Kinds -> Ages]] /\ SweepTypes
  BY DEF SweepInv, SweepTypes
<1>1. has' # has
  BY DEF Has
<1>2. CASE \E t \in Tests : Create(t)
  <2>1. PICK t \in Tests : \E j : has' = [has EXCEPT ![t][j] = "young"]
    BY <1>2 DEF Create
  <2>2. has'[o][k] \in {"young", has[o][k]}
    BY <1>0, <2>1
  <2> QED BY <2>2 DEF Has
<1>3. CASE \E t \in Tests : Destroy(t)
  BY <1>0, <1>3 DEF Destroy, Has
<1>4. CASE \E t \in Tests : Age(t)
  <2>1. PICK t \in Tests :
          has' = [has EXCEPT ![t] =
                    [j \in Kinds |-> IF has[t][j] = "young" THEN "old" ELSE has[t][j]]]
    BY <1>4 DEF Age
  <2>2. has'[o][k] \in {"old", has[o][k]}
    BY <1>0, <2>1
  <2> QED BY <2>2 DEF Has
<1>5. CASE DeleteListed \/ DeleteFails
  <2>1. PICK os \in SUBSET sweep.todo : ~sweep.dry /\ has' = Without(os)
    BY <1>0, <1>1, <1>5, DeletesListed
  <2>2. sweep.listed /\ sweep.at > 0
    BY <1>0, <1>5, DeletesListed
  <2>3. o \in os /\ Taken(o, k)
    BY <1>0, <2>1, <2>2, WithoutLess DEF Has
  <2>4. o \in Tests /\ (test[o] \in Gone \/ Undated(Kind))
    BY <2>2, <2>3 DEF SweepInv, ListedIsLeft
  <2>5. Undated(Kind) => \/ cloud = "aws" /\ k = "group" /\ ~Has(o, "instance")
                         \/ cloud = "aws" /\ k = "address" /\ ~Has(o, "association")
    BY <2>3 DEF Undated, InUse, Taken
  <2> QED BY <2>1, <2>4, <2>5 DEF Gone
<1> QED
  BY <1>1, <1>2, <1>3, <1>4, <1>5 DEF Next, SweepStep, sweepVars, Begin, End, Crash,
     StartSweep, ListKind, NextKind

\* A sweep never takes what is not a leak: nothing of users and others, and of a
\* test under way only a group without an instance and an address that is not yet
\* associated with one, on AWS, however the test ends or crashes between the listing
\* and the deletion.
THEOREM OnlyLeaksAreSwept == Spec => SweepSpares
<1>1. Spec => []SweepInv
  BY SweepInvInit, SweepInvStep, PTL DEF Spec
<1>2. SweepInv /\ [Next]_sweepVars =>
        [\A o \in Owners, k \in Kinds :
           Has(o, k) /\ ~Has(o, k)' =>
             /\ o \in Tests
             /\ \/ test[o] \in {"ending", "over"} \/ (test[o] = "crashed" /\ ~sweep.dry)
                \/ cloud = "aws" /\ k = "group" /\ ~Has(o, "instance")
                \/ cloud = "aws" /\ k = "address" /\ ~Has(o, "association")]_sweepVars
  BY TakesAreFair DEF TakeIsFair
<1> QED
  BY <1>1, <1>2, PTL DEF Spec, SweepSpares

===============================================================================
