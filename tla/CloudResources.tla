--------------------------- MODULE CloudResources ---------------------------
(***************************************************************************)
(* The cloud resources of one deployment: provision with its rollback      *)
(* (src/cloud/aws/provision.ts, src/cloud/gcp/provision.ts), destroy       *)
(* (src/cloud/*/destroy.ts, src/orchestrator/destroy.ts) and adopt         *)
(* (src/cloud/*/adopt.ts, src/commands/adopt.ts), with the record in       *)
(* state.toml that names them and the deployment's local keys.             *)
(*                                                                         *)
(* One command runs at a time; each call to the cloud is a step, which may *)
(* fail before it took effect or after (a lost answer, a wait that times   *)
(* out), and the process may die between any two.  The deployment has no   *)
(* domain.                                                                 *)
(***************************************************************************)
EXTENDS Naturals, Sequences

CONSTANTS
  MaxUps,      \* bound: runs of `up`
  MaxFaults,   \* bound: calls that fail by themselves
  MaxCrashes   \* bound: deaths of the process

ASSUME CloudAssumption ==
  MaxUps \in Nat /\ MaxFaults \in Nat /\ MaxCrashes \in Nat

VARIABLES
  cloud,    \* "aws" or "gcp"
  ports,    \* whether [network].inbound_ports is non-empty
  live,     \* the resources that exist
  record,   \* the deployment's entry in state.toml: whether there is one, and
            \* the resources it names
  keys,     \* whether the deployment's local ssh, age and sops files exist
  run,      \* the command under way: where it is and its ledger; `rules` are
            \* the GCP rules made and not yet in the ledger
  last,     \* history: how the last command ended, and whether it met a fault
  tainted,  \* history: a crash, a lost answer, a failed rollback or a failed save
            \* may have left a resource that nothing names
  count     \* bounds: ups, faults and crashes so far

vars == <<cloud, ports, live, record, keys, run, last, tainted, count>>

AwsKinds == {"key", "sg", "instance", "eip"}
GcpKinds == {"ip", "ssh", "ports", "instance"}

\* A resource with a name chosen by the code has id 0; AWS gives the others a
\* fresh id, here the number of the `up` that makes them.
Resources == [kind : AwsKinds \cup GcpKinds, id : 0 .. MaxUps]

OfKind(S, k) == {x \in S : x.kind = k}

Commands == {"up", "destroy", "adopt"}
Idle == [cmd |-> "none", pc |-> "idle", step |-> 1, ledger |-> {}, rules |-> {},
         faulted |-> FALSE, before |-> {}]

TypeOK ==
  /\ cloud \in {"aws", "gcp"} /\ ports \in BOOLEAN
  /\ live \subseteq Resources
  /\ record \in [known : BOOLEAN, res : SUBSET Resources]
  /\ keys \in BOOLEAN
  /\ run \in [cmd : Commands \cup {"none"},
              pc : {"idle", "create", "settle", "persist", "delete", "unlink", "forget"},
              step : 1 .. 5, ledger : SUBSET Resources, rules : SUBSET Resources,
              faulted : BOOLEAN, before : SUBSET Resources]
  /\ last \in [cmd : Commands \cup {"none"}, ok : BOOLEAN, faulted : BOOLEAN]
  /\ tainted \in BOOLEAN
  /\ count \in [ups : 0 .. MaxUps, faults : 0 .. MaxFaults, crashes : 0 .. MaxCrashes]
  /\ (~record.known => record.res = {}) /\ (run.pc = "idle" => run = Idle)

Init ==
  /\ cloud \in {"aws", "gcp"} /\ ports \in BOOLEAN
  /\ live = {} /\ record = [known |-> FALSE, res |-> {}]
  /\ keys = FALSE
  /\ run = Idle
  /\ last = [cmd |-> "none", ok |-> TRUE, faulted |-> FALSE]
  /\ tainted = FALSE
  /\ count = [ups |-> 0, faults |-> 0, crashes |-> 0]

\* The order in which provision creates.
Plan == IF cloud = "aws" THEN <<"key", "sg", "instance", "eip">>
        ELSE IF ports THEN <<"ip", "ssh", "ports", "instance">>
        ELSE <<"ip", "ssh", "instance">>

\* The order in which destroy deletes.
Teardown == IF cloud = "aws" THEN <<"instance", "eip", "sg", "key">>
                             ELSE <<"instance", "ip", "ssh", "ports">>

-----------------------------------------------------------------------------
(* The course of a command *)

Start(cmd, pc, ledger) ==
  run' = [Idle EXCEPT !.cmd = cmd, !.pc = pc, !.ledger = ledger, !.before = live]

\* Mutant: the ledger of one command is still there in the next.
EndWithLedger(ok, faulted) ==
  /\ run' = [Idle EXCEPT !.ledger = run.ledger]
  /\ last' = [cmd |-> run.cmd, ok |-> ok, faulted |-> faulted]

End(ok, faulted) ==
  /\ run' = Idle
  /\ last' = [cmd |-> run.cmd, ok |-> ok, faulted |-> faulted]

\* A call fails although nothing in the deployment's state makes it.
Fault == count.faults < MaxFaults /\ count' = [count EXCEPT !.faults = @ + 1]

\* provision's catch block: destroy what the ledger names.  `rules` is a local
\* of the try block and is gone.
RollBack(faulted) ==
  /\ run' = [run EXCEPT !.pc = "delete", !.rules = {}, !.faulted = @ \/ faulted]
  /\ UNCHANGED last

-----------------------------------------------------------------------------
(* up: ensure-keys, provision, persist *)

Up ==
  /\ run.pc = "idle" /\ count.ups < MaxUps
  /\ count' = [count EXCEPT !.ups = @ + 1]
  /\ keys' = TRUE
  /\ Start("up", "create", {})
  /\ UNCHANGED <<cloud, ports, live, record, last, tainted>>

Kind == Plan[run.step]
Made == [kind |-> Kind, id |-> IF cloud = "gcp" \/ Kind = "key" THEN 0 ELSE count.ups]

\* Mutant: an existing key pair or group is reused on AWS too.
CollidesNever == FALSE

\* AWS refuses a second key pair or group of one name.
Collides == cloud = "aws" /\ Kind \in {"key", "sg"} /\ OfKind(live, Kind) # {}

\* Mutant: an instance enters the ledger once it runs.
EnteredOnceRunning ==
  LET last_rule == Kind = "ports" \/ (Kind = "ssh" /\ ~ports) IN
    IF Kind = "instance" THEN run
    ELSE IF Kind \in {"ssh", "ports"} /\ ~last_rule
      THEN [run EXCEPT !.rules = @ \cup {Made}]
      ELSE [run EXCEPT !.ledger = @ \cup run.rules \cup {Made}, !.rules = {}]

\* The ledger after the create.  On GCP the rules enter it together, when the
\* last one is made.
Entered ==
  LET last_rule == Kind = "ports" \/ (Kind = "ssh" /\ ~ports) IN
    IF Kind \in {"ssh", "ports"}
      THEN IF last_rule
             THEN [run EXCEPT !.ledger = @ \cup run.rules \cup {Made}, !.rules = {}]
             ELSE [run EXCEPT !.rules = @ \cup {Made}]
      ELSE [run EXCEPT !.ledger = @ \cup {Made}]

\* What exists already is reused on GCP (409).
Create ==
  /\ run.pc = "create" /\ ~Collides
  /\ live' = live \cup {Made}
  /\ run' = [Entered EXCEPT !.step = @ + 1,
                            !.pc = IF run.step = Len(Plan) THEN "settle" ELSE "create"]
  /\ UNCHANGED <<cloud, ports, record, keys, last, tainted, count>>

CreateRefused ==
  /\ run.pc = "create" /\ Collides
  /\ RollBack(FALSE)
  /\ UNCHANGED <<cloud, ports, live, record, keys, tainted, count>>

CreateFails ==
  /\ run.pc = "create" /\ ~Collides /\ Fault
  /\ RollBack(TRUE)
  /\ UNCHANGED <<cloud, ports, live, record, keys, tainted>>

\* The resource is made, the code does not learn of it.
CreateLost ==
  /\ run.pc = "create" /\ ~Collides /\ Fault
  /\ live' = live \cup {Made}
  /\ RollBack(TRUE)
  /\ tainted' = TRUE
  /\ UNCHANGED <<cloud, ports, record, keys>>

\* Ingress rules, the wait for "running", the address association.
Settle ==
  /\ run.pc = "settle"
  /\ run' = [run EXCEPT !.pc = "persist"]
  /\ UNCHANGED <<cloud, ports, live, record, keys, last, tainted, count>>

SettleFails ==
  /\ run.pc = "settle" /\ Fault
  /\ RollBack(TRUE)
  /\ UNCHANGED <<cloud, ports, live, record, keys, tainted>>

\* The new entry replaces the old one; nothing after it is rolled back.
Persist ==
  /\ run.pc = "persist"
  /\ record' = [known |-> TRUE, res |-> run.ledger]
  /\ End(TRUE, run.faulted)
  /\ UNCHANGED <<cloud, ports, live, keys, tainted, count>>

\* state.toml cannot be written: an up ends with its resources in no record.
PersistFails ==
  /\ run.pc = "persist" /\ Fault
  /\ tainted' = (tainted \/ run.cmd = "up")
  /\ End(FALSE, TRUE)
  /\ UNCHANGED <<cloud, ports, live, record, keys>>

-----------------------------------------------------------------------------
(* destroy: the cloud, then the keys, then the record *)

Destroy ==
  /\ run.pc = "idle" /\ record.known
  /\ Start("destroy", "delete", record.res)
  /\ UNCHANGED <<cloud, ports, live, record, keys, last, tainted, count>>

\* The resources in the ledger of the first kind in Teardown that has any.
Due == {x \in run.ledger :
          \E i \in 1 .. Len(Teardown) :
            /\ Teardown[i] = x.kind
            /\ \A j \in 1 .. i - 1 : OfKind(run.ledger, Teardown[j]) = {}}

\* AWS does not delete a group that an instance uses.
Blocked(x) == x.kind = "sg" /\ x \in live /\ [x EXCEPT !.kind = "instance"] \in live

\* Mutant: "not found" is an error.
DeleteStrict(x) ==
  /\ run.pc = "delete" /\ x \in Due /\ ~Blocked(x)
  /\ live' = live \ {x}
  /\ IF x \in live
       THEN run' = [run EXCEPT !.ledger = @ \ {x}] /\ UNCHANGED last
       ELSE End(FALSE, run.faulted)
  /\ UNCHANGED <<cloud, ports, record, keys, tainted, count>>

\* "Not found" counts as deleted.
Delete(x) ==
  /\ run.pc = "delete" /\ x \in Due /\ ~Blocked(x)
  /\ live' = live \ {x}
  /\ run' = [run EXCEPT !.ledger = @ \ {x}]
  /\ UNCHANGED <<cloud, ports, record, keys, last, tainted, count>>

\* Mutant: destroy swallows the error, as the rollback does, and goes on.
DeleteFailsQuietly(x) ==
  /\ run.pc = "delete" /\ x \in Due /\ Fault
  /\ IF run.cmd = "up"
       THEN End(FALSE, TRUE)
       ELSE run' = [run EXCEPT !.pc = "unlink", !.faulted = TRUE] /\ UNCHANGED last
  /\ tainted' = (tainted \/ run.cmd = "up")
  /\ UNCHANGED <<cloud, ports, live, record, keys>>

\* A delete fails, before or after it took effect: destroy stops, with the
\* record as it was; a rollback swallows the error and leaves the rest.
DeleteFails(x) ==
  /\ run.pc = "delete" /\ x \in Due
  /\ \/ Blocked(x) /\ UNCHANGED <<live, count>> /\ End(FALSE, run.faulted)
     \/ Fault /\ live' \in {live, live \ {x}} /\ End(FALSE, TRUE)
  /\ tainted' = (tainted \/ run.cmd = "up")
  /\ UNCHANGED <<cloud, ports, record, keys>>

\* Nothing is left in the ledger: provision throws, destroy goes on.
Deleted ==
  /\ run.pc = "delete" /\ run.ledger = {}
  /\ IF run.cmd = "up"
       THEN End(FALSE, run.faulted)
       ELSE run' = [run EXCEPT !.pc = "unlink"] /\ UNCHANGED last
  /\ UNCHANGED <<cloud, ports, live, record, keys, tainted, count>>

Unlink ==
  /\ run.pc = "unlink"
  /\ keys' = FALSE
  /\ run' = [run EXCEPT !.pc = "forget"]
  /\ UNCHANGED <<cloud, ports, live, record, last, tainted, count>>

\* A file that cannot be removed is left behind.
UnlinkFails ==
  /\ run.pc = "unlink" /\ Fault
  /\ run' = [run EXCEPT !.pc = "forget", !.faulted = TRUE]
  /\ UNCHANGED <<cloud, ports, live, record, keys, last, tainted>>

Forget ==
  /\ run.pc = "forget"
  /\ record' = [known |-> FALSE, res |-> {}]
  /\ End(TRUE, run.faulted)
  /\ UNCHANGED <<cloud, ports, live, keys, tainted, count>>

-----------------------------------------------------------------------------
(* adopt *)

\* Mutant: the search asks for a running instance's resources only.
FoundByInstance(S) ==
  /\ S \subseteq live
  /\ \A k \in AwsKinds \cup GcpKinds :
       /\ OfKind(live, k) # {} /\ OfKind(live, "instance") # {} => OfKind(S, k) # {}
       /\ \A x, y \in OfKind(S, k) : x = y

\* One resource of each kind: names on GCP, the first answer on AWS.
Found(S) ==
  /\ S \subseteq live
  /\ \A k \in AwsKinds \cup GcpKinds :
       /\ OfKind(live, k) # {} => OfKind(S, k) # {}
       /\ \A x, y \in OfKind(S, k) : x = y

\* The search, then the refusals: nothing found, two instances, a record there
\* already without --force.
Adopt(S, force) ==
  /\ run.pc = "idle"
  /\ Found(S) /\ S # {}
  /\ \A x, y \in OfKind(live, "instance") : x = y
  /\ record.known => force
  /\ Start("adopt", "persist", S)
  /\ UNCHANGED <<cloud, ports, live, record, keys, last, tainted, count>>

\* On GCP any failed get of an address or a rule is taken for its absence.
AdoptMisses(S, x, force) ==
  /\ run.pc = "idle" /\ cloud = "gcp" /\ Fault
  /\ Found(S \cup {x}) /\ x \notin S /\ x.kind # "instance" /\ S # {}
  /\ record.known => force
  /\ run' = [Idle EXCEPT !.cmd = "adopt", !.pc = "persist", !.ledger = S,
                         !.faulted = TRUE, !.before = live]
  /\ tainted' = TRUE
  /\ UNCHANGED <<cloud, ports, live, record, keys, last>>

\* The process dies.
Crash ==
  /\ run.pc # "idle" /\ count.crashes < MaxCrashes
  /\ count' = [count EXCEPT !.crashes = @ + 1]
  /\ run' = Idle
  /\ last' = [cmd |-> run.cmd, ok |-> FALSE, faulted |-> TRUE]
  /\ tainted' = (tainted \/ run.cmd = "up")
  /\ UNCHANGED <<cloud, ports, live, record, keys>>

-----------------------------------------------------------------------------
Next ==
  \/ Up \/ Create \/ CreateRefused \/ CreateFails \/ CreateLost
  \/ Settle \/ SettleFails \/ Persist \/ PersistFails
  \/ Destroy \/ Deleted \/ Unlink \/ UnlinkFails \/ Forget
  \/ \E x \in Resources : Delete(x) \/ DeleteFails(x)
  \/ \E S \in SUBSET live, force \in BOOLEAN :
       \/ Adopt(S, force)
       \/ \E x \in live : AdoptMisses(S, x, force)
  \/ Crash

Spec == Init /\ [][Next]_vars

-----------------------------------------------------------------------------
(* Properties *)

\* Between commands, whatever exists is in the record, unless a crash, a lost
\* answer, a failed rollback or a failed save came between: an up either persists
\* its ledger or leaves nothing.  The code breaks this on GCP (gcp/provision.ts:84-107).
RollbackPrinciple ==
  run.pc = "idle" /\ ~tainted => live \subseteq record.res

\* What a clean failure leaves behind is at most the ssh firewall rule of a GCP
\* deployment with open ports: every other path of both providers is rolled back
\* (aws/provision.ts:144-150, gcp/provision.ts:175-180).
RollbackLeavesSshRuleOnly ==
  run.pc = "idle" /\ ~tainted =>
    \A x \in live \ record.res : cloud = "gcp" /\ ports /\ x.kind = "ssh"

\* An up on AWS, a second one of the same deployment included, never deletes what
\* existed before it, also when it fails and rolls back: what it did not make
\* itself is not in its ledger (aws/provision.ts:39-57, 147).
AwsUpSparesExisting ==
  cloud = "aws" /\ run.cmd = "up" => run.before \subseteq live

\* Neither the keys nor the record of a deployment go while a resource that the
\* record names exists (orchestrator/destroy.ts:43-79).
DestroyInOrder ==
  [][(keys /\ ~keys') \/ (record.known /\ ~record'.known) => record.res \cap live = {}]_vars

\* A destroy that meets no fault succeeds, whatever earlier destroys, crashes
\* and failed ups left: it can always be run again (aws/destroy.ts:13-55,
\* gcp/destroy.ts:11-46).
DestroyResumes ==
  last.cmd = "destroy" /\ ~last.ok => last.faulted

\* An adopt that met no fault leaves a record that names a resource of every
\* kind that exists, and nothing that does not (aws/adopt.ts, gcp/adopt.ts).
AdoptTracksAll ==
  run.pc = "idle" /\ last.cmd = "adopt" /\ last.ok /\ ~last.faulted =>
    /\ record.res \subseteq live
    /\ \A x \in live : OfKind(record.res, x.kind) # {}

=============================================================================
