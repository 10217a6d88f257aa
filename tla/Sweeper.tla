------------------------------- MODULE Sweeper -------------------------------
(***************************************************************************)
(* The nightly sweep of what crashed end-to-end tests leave in the cloud   *)
(* (scripts/e2e-sweep.mjs), beside tests that run, deployments of users    *)
(* and resources of others in the same account.                            *)
(*                                                                         *)
(* Every deployment has at most one resource of each kind.  A resource is  *)
(* "young" or "old", older than --max-age-hours; a test is shorter than    *)
(* that.  The names of tests are never used again, and a test provisions   *)
(* once.                                                                   *)
(***************************************************************************)
EXTENDS Naturals, Sequences

CONSTANTS
  Tests,    \* deployments of tests, named e2e-...
  Users,    \* deployments of users
  Others,   \* what is not managed by hermes-deploy
  MaxFails, \* bound: calls that fail
  MaxDry    \* bound: dry runs

ASSUME SweeperAssumption == {MaxFails, MaxDry} \subseteq Nat

Owners == Tests \cup Users \cup Others

VARIABLES
  cloud,    \* "aws" or "gcp"
  has,      \* owner -> kind -> "none", "young" or "old"
  test,     \* what the tests are doing
  made,     \* test -> how many resources it has created
  sweep,    \* the sweep: the kind it is at, what it has listed of it
  left      \* failures and dry runs left

sweepVars == <<cloud, has, test, made, sweep, left>>

\* The order in which provisioning creates, and the one in which a sweep deletes.
\* On AWS an address is associated with its instance once that runs, up to five
\* minutes after both are there.
Created == [aws |-> <<"keypair", "group", "instance", "address", "association">>,
            gcp |-> <<"address", "firewall", "instance">>]

Swept == [aws |-> <<"instance", "address", "group", "keypair">>,
          gcp |-> <<"instance", "address", "firewall">>]

Kinds == {"keypair", "group", "instance", "address", "association", "firewall"}

Has(o, k) == has[o][k] # "none"

Resting == [at |-> 0, listed |-> FALSE, todo |-> {}, dry |-> FALSE, errors |-> FALSE]

Init ==
  /\ cloud \in {"aws", "gcp"}
  /\ has = [o \in Owners |-> [k \in Kinds |->
              IF o \in Tests \/ k \notin {Created[cloud][i] : i \in DOMAIN Created[cloud]}
              THEN "none" ELSE "old"]]
  /\ test = [t \in Tests |-> "new"]
  /\ made = [t \in Tests |-> 0]
  /\ sweep = Resting
  /\ left = [fails |-> MaxFails, dry |-> MaxDry]

-----------------------------------------------------------------------------
(* The tests *)

Begin(t) ==
  /\ test[t] = "new"
  /\ test' = [test EXCEPT ![t] = "running"]
  /\ UNCHANGED <<cloud, has, made, sweep, left>>

\* The next resource, on top of those before it.  When a sweep has taken one of
\* them the call fails, and the test ends.
Create(t) ==
  /\ test[t] = "running" /\ made[t] < Len(Created[cloud])
  /\ \A j \in 1..made[t] : Has(t, Created[cloud][j])
  /\ has' = [has EXCEPT ![t][Created[cloud][made[t] + 1]] = "young"]
  /\ made' = [made EXCEPT ![t] = @ + 1]
  /\ UNCHANGED <<cloud, test, sweep, left>>

\* The test is over, or its setup failed: its own destroy removes everything.
End(t) ==
  /\ test[t] = "running"
  /\ test' = [test EXCEPT ![t] = "ending"]
  /\ UNCHANGED <<cloud, has, made, sweep, left>>

Destroy(t) ==
  /\ test[t] = "ending"
  /\ has' = [has EXCEPT ![t] = [k \in Kinds |-> "none"]]
  /\ test' = [test EXCEPT ![t] = "over"]
  /\ UNCHANGED <<cloud, made, sweep, left>>

Crash(t) ==
  /\ test[t] \in {"running", "ending"}
  /\ test' = [test EXCEPT ![t] = "crashed"]
  /\ UNCHANGED <<cloud, has, made, sweep, left>>

\* Hours pass.
Age(t) ==
  /\ test[t] \in {"crashed", "over"}
  /\ \E k \in Kinds : has[t][k] = "young"
  /\ has' = [has EXCEPT ![t] = [k \in Kinds |-> IF has[t][k] = "young" THEN "old" ELSE has[t][k]]]
  /\ UNCHANGED <<cloud, test, made, sweep, left>>

-----------------------------------------------------------------------------
(* The sweep *)

\* Elastic addresses and security groups come without a creation time.
Undated(k) == cloud = "aws" /\ k \in {"address", "group"}

\* The filter of the listing, or the prefix of the name.
Managed(o) == o \in Tests \cup Users

\* Mutant: what has no creation time is not old.
EligibleDated(o, k) == Managed(o) /\ o \in Tests /\ has[o][k] = "old" /\ ~Undated(k)

\* Mutant: the age is not looked at.
EligibleYoung(o, k) == Managed(o) /\ o \in Tests

\* isAwsSweepEligible, isGcpSweepEligible and the tests by name: managed-by, the
\* prefix e2e-, the age, which is not asked of what has no creation time.
Eligible(o, k) == Managed(o) /\ o \in Tests /\ (has[o][k] = "old" \/ Undated(k))

Kind == Swept[cloud][sweep.at]

StartSweep(dry) ==
  /\ sweep.at = 0
  /\ dry => left.dry > 0
  /\ left' = IF dry THEN [left EXCEPT !.dry = @ - 1] ELSE left
  /\ sweep' = [Resting EXCEPT !.at = 1, !.dry = dry]
  /\ UNCHANGED <<cloud, has, test, made>>

\* What there is of the kind now, past the rails.  A listing that fails ends
\* the sweep with an error.
ListKind ==
  /\ sweep.at > 0 /\ ~sweep.listed
  /\ \/ /\ sweep' = [sweep EXCEPT !.listed = TRUE,
                       !.todo = {o \in Owners : Has(o, Kind) /\ Eligible(o, Kind)}]
        /\ UNCHANGED left
     \/ /\ left.fails > 0
        /\ left' = [left EXCEPT !.fails = @ - 1]
        /\ sweep' = Resting
  /\ UNCHANGED <<cloud, has, test, made>>

\* The cloud does not delete what an instance uses: a group from the launch on, an
\* address on AWS from the association on.
InUse(o, k) ==
  \/ k = "group" /\ Has(o, "instance")
  \/ k = "address" /\ Has(o, IF cloud = "aws" THEN "association" ELSE "instance")

\* AWS terminates instances in one call; everything else goes one by one.
Batch(os) == IF cloud = "aws" /\ Kind = "instance" THEN os = sweep.todo ELSE \E o \in os : os = {o}

\* What there is after the deletion of os.  An instance takes its association along.
Without(os) ==
  [o \in Owners |->
     IF o \in os /\ ~InUse(o, Kind)
     THEN [k \in Kinds |-> IF k = Kind \/ (Kind = "instance" /\ k = "association")
                            THEN "none" ELSE has[o][k]]
     ELSE has[o]]

\* Those in os that are deleted, gone already, or in use: for a group that is
\* no error.
DeleteListed ==
  /\ sweep.listed /\ sweep.todo # {}
  /\ \E os \in SUBSET sweep.todo :
       /\ Batch(os)
       /\ has' = IF sweep.dry THEN has ELSE Without(os)
       /\ sweep' = [sweep EXCEPT !.todo = @ \ os,
                      !.errors = @ \/ (~sweep.dry /\ Kind # "group" /\ \E o \in os : InUse(o, Kind))]
  /\ UNCHANGED <<cloud, test, made, left>>

\* The call, or the wait after it, ends with another error.
DeleteFails ==
  /\ sweep.listed /\ ~sweep.dry
  /\ left.fails > 0
  /\ left' = [left EXCEPT !.fails = @ - 1]
  /\ \E os \in SUBSET sweep.todo :
       /\ os # {} /\ Batch(os)
       /\ has' \in {has, Without(os)}
       /\ sweep' = [sweep EXCEPT !.todo = @ \ os, !.errors = @ \/ Kind # "group"]
  /\ UNCHANGED <<cloud, test, made>>

NextKind ==
  /\ sweep.listed /\ sweep.todo = {}
  /\ sweep' = IF sweep.at = Len(Swept[cloud]) THEN Resting
              ELSE [sweep EXCEPT !.at = @ + 1, !.listed = FALSE]
  /\ UNCHANGED <<cloud, has, test, made, left>>

SweepStep == StartSweep(FALSE) \/ ListKind \/ DeleteListed \/ DeleteFails \/ NextKind

Next ==
  \/ \E t \in Tests : Begin(t) \/ Create(t) \/ End(t) \/ Destroy(t) \/ Crash(t) \/ Age(t)
  \/ SweepStep
  \/ StartSweep(TRUE)

\* There is a sweep every night, and crashed tests grow old.
Fairness == WF_sweepVars(SweepStep) /\ \A t \in Tests : WF_sweepVars(Age(t))

Spec == Init /\ [][Next]_sweepVars /\ Fairness

-----------------------------------------------------------------------------
(* Properties *)

\* Whatever a crashed test has left is gone in the end, although groups in use,
\* addresses in use and failed calls are left for another night.
LeaksSwept ==
  \A t \in Tests : test[t] = "crashed" ~> \A k \in Kinds : ~Has(t, k)

\* A sweep takes nothing of users, others or, while it runs, of a test, however
\* its steps fall between the listing and the deletion; nor does it take
\* anything in a dry run.  The exception are, on AWS, a group without an instance
\* and an address not yet associated with one: for those the age is not asked.
SweepSpares ==
  [][\A o \in Owners, k \in Kinds :
       Has(o, k) /\ ~Has(o, k)' =>
         /\ o \in Tests
         /\ \/ test[o] \in {"ending", "over"} \/ (test[o] = "crashed" /\ ~sweep.dry)
            \/ cloud = "aws" /\ k = "group" /\ ~Has(o, "instance")
            \/ cloud = "aws" /\ k = "address" /\ ~Has(o, "association")]_sweepVars

=============================================================================
