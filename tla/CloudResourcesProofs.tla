------------------------ MODULE CloudResourcesProofs ------------------------
(***************************************************************************)
(* Proofs about CloudResources, for any number of ups, faults and crashes: *)
(* its types, that destroy forgets nothing that still exists and can be    *)
(* run again, that an up on AWS deletes only what it made, what a failed   *)
(* up can leave, and that adopt misses nothing.                            *)
(***************************************************************************)
EXTENDS CloudResources, TLAPS

Kinds == AwsKinds \cup GcpKinds
Pcs == {"idle", "create", "settle", "persist", "delete", "unlink", "forget"}
Runs == [cmd : Commands \cup {"none"},
         pc : Pcs,
         step : 1 .. 5, ledger : SUBSET Resources, rules : SUBSET Resources,
         faulted : BOOLEAN, before : SUBSET Resources]
Lasts == [cmd : Commands \cup {"none"}, ok : BOOLEAN, faulted : BOOLEAN]
Counts == [ups : 0 .. MaxUps, faults : 0 .. MaxFaults, crashes : 0 .. MaxCrashes]

\* A create is at a step of the plan, and belongs to an up.
Creating ==
  /\ run.pc = "create" => run.step \in 1 .. Len(Plan)
  /\ run.pc \in {"create", "settle"} => run.cmd = "up" /\ count.ups >= 1

TypeInv == TypeOK /\ Creating

-----------------------------------------------------------------------------
(* The plan *)

\* The plan has three or four steps, each the creation of a known kind.
LEMMA PlanSteps ==
  ASSUME cloud \in {"aws", "gcp"}, ports \in BOOLEAN
  PROVE  /\ Len(Plan) \in {3, 4}
         /\ \A i \in 1 .. Len(Plan) : Plan[i] \in Kinds
         /\ cloud = "aws" => \A i \in 1 .. Len(Plan) : Plan[i] \in AwsKinds
<1>1. CASE cloud = "aws"
  BY <1>1 DEF Plan, Kinds, AwsKinds
<1>2. CASE cloud = "gcp" /\ ports
  BY <1>2 DEF Plan, Kinds, GcpKinds
<1>3. CASE cloud = "gcp" /\ ~ports
  BY <1>3 DEF Plan, Kinds, GcpKinds
<1> QED BY <1>1, <1>2, <1>3

\* What a create makes is a resource.
LEMMA MadeIsResource ==
  ASSUME TypeInv, run.pc = "create" PROVE Made \in Resources
<1>1. Kind \in Kinds
  BY PlanSteps DEF TypeInv, TypeOK, Creating, Kind
<1>2. count.ups \in 0 .. MaxUps /\ 0 \in 0 .. MaxUps
  BY CloudAssumption DEF TypeInv, TypeOK
<1> QED BY <1>1, <1>2 DEF Made, Resources, Kinds

\* The ledger after a create has a resource more, at most.
LEMMA EnteredType ==
  ASSUME TypeInv, run.pc = "create"
  PROVE  /\ Entered \in Runs
         /\ Entered.cmd = run.cmd /\ Entered.step = run.step
         /\ Entered.before = run.before
         /\ Entered.ledger \cup Entered.rules = run.ledger \cup run.rules \cup {Made}
<1>1. run \in Runs
  BY DEF TypeInv, TypeOK, Runs, Pcs
<1>2. ASSUME NEW l \in SUBSET Resources, NEW u \in SUBSET Resources,
             Entered = [run EXCEPT !.ledger = l, !.rules = u]
      PROVE  /\ Entered \in Runs
             /\ Entered.cmd = run.cmd /\ Entered.step = run.step
             /\ Entered.before = run.before
             /\ Entered.ledger = l /\ Entered.rules = u
  BY <1>1, <1>2 DEF Runs
<1>3. /\ run.ledger \in SUBSET Resources /\ run.rules \in SUBSET Resources
      /\ run.ledger \cup {Made} \in SUBSET Resources
      /\ run.rules \cup {Made} \in SUBSET Resources
      /\ run.ledger \cup run.rules \cup {Made} \in SUBSET Resources
      /\ {} \in SUBSET Resources
  BY <1>1, MadeIsResource DEF Runs
<1> DEFINE last_rule == Kind = "ports" \/ (Kind = "ssh" /\ ~ports)
<1>4. CASE Kind \in {"ssh", "ports"} /\ last_rule
  <2>1. Entered = [run EXCEPT !.ledger = run.ledger \cup run.rules \cup {Made}, !.rules = {}]
    BY <1>4 DEF Entered
  <2>3. Entered.ledger = run.ledger \cup run.rules \cup {Made} /\ Entered.rules = {}
    BY <1>2, <1>3, <2>1
  <2> QED BY <1>2, <1>3, <2>1, <2>3
<1>5. CASE Kind \in {"ssh", "ports"} /\ ~last_rule
  <2>1. Entered = [run EXCEPT !.rules = run.rules \cup {Made}]
    BY <1>5 DEF Entered
  <2>2. Entered = [run EXCEPT !.ledger = run.ledger, !.rules = run.rules \cup {Made}]
    BY <1>1, <2>1 DEF Runs
  <2>3. Entered.ledger = run.ledger /\ Entered.rules = run.rules \cup {Made}
    BY <1>2, <1>3, <2>2
  <2>4. Entered.ledger \cup Entered.rules = run.ledger \cup run.rules \cup {Made}
    BY <2>3
  <2>5. /\ Entered \in Runs
        /\ Entered.cmd = run.cmd /\ Entered.step = run.step /\ Entered.before = run.before
    BY <1>2, <1>3, <2>2
  <2> QED BY <2>4, <2>5
<1>6. CASE Kind \notin {"ssh", "ports"}
  <2>1. Entered = [run EXCEPT !.ledger = run.ledger \cup {Made}]
    BY <1>6 DEF Entered
  <2>2. Entered = [run EXCEPT !.ledger = run.ledger \cup {Made}, !.rules = run.rules]
    BY <1>1, <2>1 DEF Runs
  <2> QED BY <1>2, <1>3, <2>2
<1> QED BY <1>4, <1>5, <1>6

-----------------------------------------------------------------------------
(* Types *)

\* No command.
LEMMA IdleType == Idle \in Runs
<1>1. {} \in SUBSET Resources /\ 1 \in 1 .. 5
  OBVIOUS
<1> QED BY <1>1 DEF Idle, Runs, Pcs

\* The first state is well typed.
LEMMA InitType == Init => TypeInv
<1> SUFFICES ASSUME Init PROVE TypeInv
  OBVIOUS
<1>1. run \in Runs
  BY IdleType DEF Init
<1>2. Creating
  BY DEF Init, Idle, Creating
<1>3. /\ record \in [known : BOOLEAN, res : SUBSET Resources] /\ ~record.known
      /\ record.res = {}
  <2>1. {} \in SUBSET Resources
    OBVIOUS
  <2> QED BY <2>1 DEF Init
<1>4. count \in Counts
  BY CloudAssumption DEF Init, Counts
<1> QED BY <1>1, <1>2, <1>3, <1>4 DEF Init, TypeInv, TypeOK, Runs, Pcs, Counts

\* The run of a command that starts.
LEMMA StartType ==
  ASSUME TypeInv, NEW cmd \in Commands, NEW pc \in Pcs, NEW l \in SUBSET Resources,
         Start(cmd, pc, l)
  PROVE  /\ run' \in Runs
         /\ run'.cmd = cmd /\ run'.pc = pc /\ run'.step = 1
         /\ run'.ledger = l /\ run'.rules = {} /\ run'.before = live
<1>1. run' = [cmd |-> cmd, pc |-> pc, step |-> 1, ledger |-> l, rules |-> {},
              faulted |-> FALSE, before |-> live]
  BY DEF Start, Idle
<1>2. live \in SUBSET Resources /\ {} \in SUBSET Resources /\ 1 \in 1 .. 5
  BY DEF TypeInv, TypeOK
<1> QED BY <1>1, <1>2 DEF Runs, Pcs

\* A command that ends leaves the idle record.
LEMMA EndType ==
  ASSUME TypeInv, NEW ok \in BOOLEAN, NEW f \in BOOLEAN, End(ok, f)
  PROVE  run' = Idle /\ run' \in Runs /\ last' \in Lasts
  BY DEF TypeInv, TypeOK, End, Idle, Runs, Pcs, Lasts, Commands

\* A fault is counted.
LEMMA FaultType ==
  ASSUME TypeInv, Fault
  PROVE  count' \in Counts /\ count'.ups = count.ups
  BY CloudAssumption DEF TypeInv, TypeOK, Fault, Counts

\* Every step keeps the types.
LEMMA NextType == TypeInv /\ [Next]_vars => TypeInv'
<1> SUFFICES ASSUME TypeInv, [Next]_vars PROVE TypeInv'
  OBVIOUS
<1>0. run \in Runs /\ last \in Lasts /\ count \in Counts /\ live \subseteq Resources
  BY DEF TypeInv, TypeOK, Runs, Pcs, Lasts, Counts
<1>p. UNCHANGED <<cloud, ports>> => Plan' = Plan
  BY DEF Plan
<1>1. CASE Up
  <2>2. run' \in Runs /\ run'.pc = "create" /\ run'.step = 1 /\ run'.cmd = "up"
    BY <1>1, StartType DEF Up, Pcs, Commands
  <2>3. count' \in Counts /\ count'.ups >= 1
    BY <1>0, <1>1, CloudAssumption DEF Up, Counts
  <2>4. Creating'
    <3>1. PICK n \in {3, 4} : Len(Plan) = n
      BY PlanSteps DEF TypeInv, TypeOK
    <3>2. Plan' = Plan
      BY <1>1, <1>p DEF Up
    <3> QED BY <2>2, <2>3, <3>1, <3>2 DEF Creating
  <2> QED BY <1>1, <2>2, <2>3, <2>4 DEF Up, TypeInv, TypeOK, Runs, Pcs, Counts
<1>2. CASE Create
  <2>0. Entered \in Runs /\ Entered.cmd = run.cmd /\ Entered.step = run.step
    BY <1>2, EnteredType DEF Create
  <2>1. run' = [Entered EXCEPT !.step = run.step + 1,
                     !.pc = IF run.step = Len(Plan) THEN "settle" ELSE "create"]
    BY <1>2, <2>0 DEF Create, Runs, Pcs
  <2>2. /\ run.step \in 1 .. Len(Plan) /\ Len(Plan) \in {3, 4}
        /\ run.cmd = "up" /\ count.ups >= 1
    BY <1>2, PlanSteps DEF Create, TypeInv, TypeOK, Creating
  <2>3. run' \in Runs /\ run'.step = run.step + 1 /\ run'.cmd = run.cmd
        /\ run'.pc = (IF run.step = Len(Plan) THEN "settle" ELSE "create")
    <3> DEFINE pc == IF run.step = Len(Plan) THEN "settle" ELSE "create"
    <3>0. PICK n \in {3, 4} : Len(Plan) = n
      BY <2>2
    <3>1. pc \in Pcs /\ run.step + 1 \in 1 .. 5
      BY <2>2, <3>0 DEF Pcs
    <3>2. run' = [Entered EXCEPT !.step = run.step + 1, !.pc = pc]
      BY <2>1
    <3> HIDE DEF pc
    <3>3. run' \in Runs /\ run'.step = run.step + 1 /\ run'.cmd = run.cmd /\ run'.pc = pc
      BY <2>0, <3>1, <3>2 DEF Runs
    <3> QED BY <3>3 DEF pc
  <2>4. Creating'
    BY <1>2, <1>p, <2>2, <2>3 DEF Create, Creating
  <2>5. live' \subseteq Resources
    BY <1>0, <1>2, MadeIsResource DEF Create
  <2> QED BY <1>2, <2>3, <2>4, <2>5 DEF Create, TypeInv, TypeOK, Runs, Pcs
<1>3. ASSUME run.pc \in {"create", "settle"}, NEW f \in BOOLEAN, RollBack(f),
             UNCHANGED <<cloud, ports, record, keys>>, count' \in Counts,
             live' \subseteq Resources, tainted' \in BOOLEAN
      PROVE  TypeInv'
  <2>1. run' \in Runs /\ run'.pc = "delete"
    BY <1>0, <1>3 DEF RollBack, Runs, Pcs
  <2>2. Creating'
    BY <2>1 DEF Creating
  <2> QED BY <1>3, <2>1, <2>2 DEF TypeInv, TypeOK, RollBack, Runs, Pcs, Counts
<1>4. CASE CreateRefused
  BY <1>0, <1>3, <1>4 DEF CreateRefused, TypeInv, TypeOK
<1>5. CASE CreateFails
  BY <1>0, <1>3, <1>5, FaultType DEF CreateFails, TypeInv, TypeOK
<1>6. CASE CreateLost
  BY <1>0, <1>3, <1>6, FaultType, MadeIsResource DEF CreateLost, TypeInv, TypeOK
<1>7. CASE Settle
  <2>1. run' \in Runs /\ run'.pc = "persist"
    BY <1>0, <1>7 DEF Settle, Runs, Pcs
  <2> QED BY <1>7, <2>1 DEF Settle, TypeInv, TypeOK, Creating, Runs, Pcs
<1>8. CASE SettleFails
  BY <1>0, <1>3, <1>8, FaultType DEF SettleFails, TypeInv, TypeOK
<1>9. ASSUME NEW ok \in BOOLEAN, NEW f \in BOOLEAN, End(ok, f),
             UNCHANGED <<cloud, ports>>, live' \subseteq Resources, keys' \in BOOLEAN,
             record' \in [known : BOOLEAN, res : SUBSET Resources],
             ~record'.known => record'.res = {},
             tainted' \in BOOLEAN, count' \in Counts
      PROVE  TypeInv'
  <2>1. run' = Idle /\ run' \in Runs /\ last' \in Lasts
    BY <1>9, EndType
  <2>2. Creating'
    BY <2>1 DEF Creating, Idle
  <2> QED BY <1>9, <2>1, <2>2 DEF TypeInv, TypeOK, Runs, Pcs, Lasts, Counts
<1>10. CASE Persist
  BY <1>0, <1>9, <1>10 DEF Persist, TypeInv, TypeOK, Runs, Pcs
<1>11. CASE PersistFails
  BY <1>0, <1>9, <1>11, FaultType DEF PersistFails, TypeInv, TypeOK
<1>12. CASE Destroy
  <2>1. record.res \in SUBSET Resources
    BY DEF TypeInv, TypeOK
  <2>2. run' \in Runs /\ run'.pc = "delete"
    BY <1>12, <2>1, StartType DEF Destroy, Pcs, Commands
  <2> QED BY <1>12, <2>2 DEF Destroy, TypeInv, TypeOK, Creating, Runs, Pcs
<1>13. CASE Deleted
  <2>1. CASE run.cmd = "up"
    BY <1>0, <1>9, <1>13, <2>1 DEF Deleted, TypeInv, TypeOK, Runs, Pcs
  <2>2. CASE run.cmd # "up"
    <3>1. run' \in Runs /\ run'.pc = "unlink"
      BY <1>0, <1>13, <2>2 DEF Deleted, Runs, Pcs
    <3> QED BY <1>13, <2>2, <3>1 DEF Deleted, TypeInv, TypeOK, Creating, Runs, Pcs
  <2> QED BY <2>1, <2>2
<1>14. CASE Unlink
  <2>1. run' \in Runs /\ run'.pc = "forget"
    BY <1>0, <1>14 DEF Unlink, Runs, Pcs
  <2> QED BY <1>14, <2>1 DEF Unlink, TypeInv, TypeOK, Creating, Runs, Pcs
<1>15. CASE UnlinkFails
  <2>1. run' \in Runs /\ run'.pc = "forget"
    BY <1>0, <1>15 DEF UnlinkFails, Runs, Pcs
  <2> QED BY <1>15, <2>1, FaultType DEF UnlinkFails, TypeInv, TypeOK, Creating, Runs, Pcs, Counts
<1>16. CASE Forget
  BY <1>0, <1>9, <1>16 DEF Forget, TypeInv, TypeOK, Runs, Pcs
<1>17. ASSUME NEW x \in Resources, Delete(x) PROVE TypeInv'
  <2>1. run' \in Runs /\ run'.pc = "delete"
    BY <1>0, <1>17 DEF Delete, Runs, Pcs
  <2> QED BY <1>17, <2>1 DEF Delete, TypeInv, TypeOK, Creating, Runs, Pcs
<1>18. ASSUME NEW x \in Resources, DeleteFails(x) PROVE TypeInv'
  <2>1. \E f \in BOOLEAN : End(FALSE, f)
    BY <1>0, <1>18 DEF DeleteFails, Runs, Pcs
  <2>2. count' \in Counts
    BY <1>0, <1>18, FaultType DEF DeleteFails
  <2> QED BY <1>0, <1>9, <1>18, <2>1, <2>2 DEF DeleteFails, TypeInv, TypeOK
<1>19. ASSUME NEW S \in SUBSET live, NEW force \in BOOLEAN, Adopt(S, force) PROVE TypeInv'
  <2>2. run' \in Runs /\ run'.pc = "persist"
    BY <1>0, <1>19, StartType DEF Adopt, Pcs, Commands
  <2> QED BY <1>19, <2>2 DEF Adopt, TypeInv, TypeOK, Creating, Runs, Pcs
<1>20. ASSUME NEW S \in SUBSET live, NEW x \in live, NEW force \in BOOLEAN,
              AdoptMisses(S, x, force)
       PROVE  TypeInv'
  <2>0. run' = [cmd |-> "adopt", pc |-> "persist", step |-> 1, ledger |-> S, rules |-> {},
                faulted |-> TRUE, before |-> live]
    BY <1>20 DEF AdoptMisses, Idle
  <2>1. run' \in Runs /\ run'.pc = "persist"
    BY <1>0, <2>0 DEF Runs, Pcs, Commands
  <2> QED BY <1>20, <2>1, FaultType
      DEF AdoptMisses, TypeInv, TypeOK, Creating, Runs, Pcs, Counts
<1>21. CASE Crash
  <2>1. run' = Idle /\ run' \in Runs /\ last' \in Lasts
    BY <1>0, <1>21 DEF Crash, Idle, Runs, Pcs, Lasts, Commands
  <2>2. count' \in Counts
    BY <1>0, <1>21, CloudAssumption DEF Crash, Counts
  <2>3. Creating'
    BY <2>1 DEF Creating, Idle
  <2> QED BY <1>21, <2>1, <2>2, <2>3 DEF Crash, TypeInv, TypeOK, Runs, Pcs, Lasts, Counts
<1>22. CASE UNCHANGED vars
  BY <1>22 DEF vars, TypeInv, TypeOK, Creating, Plan
<1> QED BY <1>1, <1>2, <1>4, <1>5, <1>6, <1>7, <1>8, <1>10, <1>11, <1>12, <1>13, <1>14,
           <1>15, <1>16, <1>17, <1>18, <1>19, <1>20, <1>21, <1>22 DEF Next

\* The types, in every reachable state.
LEMMA TypesHold == Spec => []TypeInv
  BY InitType, NextType, PTL DEF Spec

\* Every variable has its type: in particular each step of a plan makes a known
\* kind of resource, and a command that ends leaves nothing behind for the next.
THEOREM TypeCorrect == Spec => []TypeOK
<1>1. TypeInv => TypeOK
  BY DEF TypeInv
<1> QED BY <1>1, TypesHold, PTL

-----------------------------------------------------------------------------
(* Destroy *)

\* What the record names and still exists is in the ledger of a destroy, until
\* nothing of it exists.
ForgetInv ==
  /\ run.pc = "delete" /\ run.cmd # "up" => record.res \cap live \subseteq run.ledger
  /\ run.pc \in {"unlink", "forget"} => record.res \cap live = {}

\* Only a delete takes something from the ledger of a destroy, and it is gone then.
LEMMA NextForget == TypeInv /\ ForgetInv /\ [Next]_vars => ForgetInv'
<1> SUFFICES ASSUME TypeInv, ForgetInv, [Next]_vars PROVE ForgetInv'
  OBVIOUS
<1>0. run \in Runs
  BY DEF TypeInv, TypeOK, Runs, Pcs
<1>1. ASSUME run'.pc \notin {"delete", "unlink", "forget"} PROVE ForgetInv'
  BY <1>1 DEF ForgetInv
<1>2. ASSUME run' = Idle PROVE ForgetInv'
  BY <1>1, <1>2 DEF Idle
<1>3. ASSUME run.pc \in {"create", "settle"}, NEW f, RollBack(f) PROVE ForgetInv'
  <2>1. run'.pc = "delete" /\ run'.cmd = "up"
    BY <1>0, <1>3 DEF RollBack, TypeInv, Creating, Runs
  <2> QED BY <2>1 DEF ForgetInv
<1>4. CASE Up
  BY <1>1, <1>4, StartType DEF Up, Pcs, Commands
<1>5. CASE Create
  <2>1. Entered \in Runs
    BY <1>5, EnteredType DEF Create
  <2>2. run'.pc \in {"settle", "create"}
    BY <1>5, <2>1 DEF Create, Runs
  <2> QED BY <1>1, <2>2
<1>6. CASE CreateRefused \/ CreateFails \/ CreateLost \/ SettleFails
  BY <1>3, <1>6 DEF CreateRefused, CreateFails, CreateLost, SettleFails
<1>7. CASE Settle
  BY <1>0, <1>1, <1>7 DEF Settle, Runs
<1>8. CASE Persist \/ PersistFails \/ Forget \/ Crash
  BY <1>2, <1>8 DEF Persist, PersistFails, Forget, Crash, End
<1>9. CASE Destroy
  <2>1. run'.pc = "delete" /\ run'.ledger = record.res
    <3>1. record.res \in SUBSET Resources
      BY DEF TypeInv, TypeOK
    <3> QED BY <1>9, <3>1, StartType DEF Destroy, Pcs, Commands
  <2> QED BY <1>9, <2>1 DEF Destroy, ForgetInv
<1>10. CASE Deleted
  <2>1. CASE run.cmd = "up"
    BY <1>2, <1>10, <2>1 DEF Deleted, End
  <2>2. CASE run.cmd # "up"
    <3>1. record.res \cap live = {}
      BY <1>10, <2>2 DEF Deleted, ForgetInv
    <3>2. run'.pc = "unlink"
      BY <1>0, <1>10, <2>2 DEF Deleted, Runs
    <3> QED BY <1>10, <3>1, <3>2 DEF Deleted, ForgetInv
  <2> QED BY <2>1, <2>2
<1>11. CASE Unlink \/ UnlinkFails
  <2>1. run.pc = "unlink" /\ run'.pc = "forget" /\ UNCHANGED <<record, live>>
    BY <1>0, <1>11 DEF Unlink, UnlinkFails, Runs
  <2> QED BY <2>1 DEF ForgetInv
<1>12. ASSUME NEW x \in Resources, Delete(x) PROVE ForgetInv'
  <2>1. /\ run'.pc = "delete" /\ run'.cmd = run.cmd /\ run'.ledger = run.ledger \ {x}
        /\ run.pc = "delete" /\ live' = live \ {x} /\ record' = record
    BY <1>0, <1>12 DEF Delete, Runs
  <2> QED BY <2>1 DEF ForgetInv
<1>13. ASSUME NEW x \in Resources, DeleteFails(x) PROVE ForgetInv'
  BY <1>2, <1>13 DEF DeleteFails, End
<1>14. ASSUME NEW S \in SUBSET live, NEW force \in BOOLEAN, Adopt(S, force) PROVE ForgetInv'
  <2>1. S \in SUBSET Resources
    BY DEF TypeInv, TypeOK
  <2> QED BY <1>1, <1>14, <2>1, StartType DEF Adopt, Pcs, Commands
<1>15. ASSUME NEW S \in SUBSET live, NEW x \in live, NEW force \in BOOLEAN,
              AdoptMisses(S, x, force)
       PROVE  ForgetInv'
  BY <1>1, <1>15 DEF AdoptMisses, Idle
<1>16. CASE UNCHANGED vars
  BY <1>16 DEF vars, ForgetInv
<1> QED BY <1>4, <1>5, <1>6, <1>7, <1>8, <1>9, <1>10, <1>11, <1>12, <1>13, <1>14, <1>15,
           <1>16 DEF Next

\* The keys and the record of a deployment outlive every resource that the
\* record names.
THEOREM DestroyForgetsInOrder == Spec => DestroyInOrder
<1> DEFINE Step == (keys /\ ~keys') \/ (record.known /\ ~record'.known)
                     => record.res \cap live = {}
<1>1. Init => ForgetInv
  BY DEF Init, ForgetInv, Idle
<1>2. TypeInv /\ ForgetInv /\ [Next]_vars => [Step]_vars
  <2> SUFFICES ASSUME TypeInv, ForgetInv, Next PROVE Step
    OBVIOUS
  <2>1. CASE Unlink \/ Forget
    BY <2>1 DEF Unlink, Forget, ForgetInv
  <2>2. CASE Persist
    BY <2>2 DEF Persist
  <2>3. CASE Up
    BY <2>3 DEF Up
  <2>4. ASSUME UNCHANGED <<keys, record>> PROVE Step
    BY <2>4
  <2>5. CASE Create \/ CreateRefused \/ CreateFails \/ CreateLost
    BY <2>4, <2>5 DEF Create, CreateRefused, CreateFails, CreateLost
  <2>6. CASE Settle \/ SettleFails \/ PersistFails \/ Crash
    BY <2>4, <2>6 DEF Settle, SettleFails, PersistFails, Crash
  <2>7. CASE Destroy \/ Deleted \/ UnlinkFails
    BY <2>4, <2>7 DEF Destroy, Deleted, UnlinkFails
  <2>8. CASE \E x \in Resources : Delete(x) \/ DeleteFails(x)
    BY <2>4, <2>8 DEF Delete, DeleteFails
  <2>9. CASE \E S \in SUBSET live, force \in BOOLEAN :
               Adopt(S, force) \/ \E x \in live : AdoptMisses(S, x, force)
    BY <2>4, <2>9 DEF Adopt, AdoptMisses
  <2> QED BY <2>1, <2>2, <2>3, <2>5, <2>6, <2>7, <2>8, <2>9 DEF Next
<1> QED
  BY <1>1, <1>2, NextForget, TypesHold, PTL DEF Spec, DestroyInOrder

-----------------------------------------------------------------------------
(* Up on AWS *)

\* What existed before an up still does, is not in its ledger, and is older than
\* anything the up makes.
SpareInv ==
  /\ \A x \in live : x.id <= count.ups
  /\ cloud = "aws" /\ run.cmd = "up" =>
       /\ run.before \subseteq live
       /\ run.before \cap (run.ledger \cup run.rules) = {}
       /\ \A x \in run.before : x.id < count.ups

\* An AWS create makes something that did not exist when the up began.
LEMMA MadeIsNew ==
  ASSUME TypeInv, SpareInv, cloud = "aws", run.pc = "create", ~Collides
  PROVE  Made \notin run.before
<1>1. run.cmd = "up"
  BY DEF TypeInv, Creating
<1>2. CASE Kind = "key"
  <2>1. OfKind(live, "key") = {}
    BY <1>2 DEF Collides
  <2>2. Made.kind = "key"
    BY <1>2 DEF Made
  <2> QED BY <1>1, <2>1, <2>2 DEF SpareInv, OfKind
<1>3. CASE Kind # "key"
  <2>1. Made.id = count.ups /\ count.ups \in Nat
    BY <1>3, CloudAssumption DEF Made, TypeInv, TypeOK
  <2> QED BY <1>1, <2>1 DEF SpareInv
<1> QED BY <1>2, <1>3

\* An up on AWS deletes what it has made, and nothing else.
LEMMA NextSpare == TypeInv /\ SpareInv /\ [Next]_vars => SpareInv'
<1> SUFFICES ASSUME TypeInv, SpareInv, [Next]_vars PROVE SpareInv'
  OBVIOUS
<1>0. run \in Runs /\ count \in Counts /\ live \subseteq Resources
  BY DEF TypeInv, TypeOK, Runs, Pcs, Counts
<1>m. ASSUME run.pc = "create" PROVE Made.id <= count.ups
  <2>1. count.ups \in Nat
    BY <1>0, CloudAssumption DEF Counts
  <2> QED BY <2>1 DEF Made
<1>1. ASSUME live' \subseteq live, count'.ups = count.ups, run'.cmd # "up"
      PROVE  SpareInv'
  BY <1>1 DEF SpareInv
<1>2. ASSUME live' \subseteq live, count'.ups = count.ups, run' = Idle PROVE SpareInv'
  BY <1>1, <1>2 DEF Idle
<1>3. ASSUME NEW f, RollBack(f), cloud' = cloud, count'.ups = count.ups,
             run.pc \in {"create", "settle"},
             live' = live \/ (run.pc = "create" /\ live' = live \cup {Made})
      PROVE  SpareInv'
  <2>1. /\ run'.cmd = run.cmd /\ run'.before = run.before
        /\ run'.ledger = run.ledger /\ run'.rules = {}
    BY <1>0, <1>3 DEF RollBack, Runs
  <2>2. \A x \in live' : x.id <= count.ups
    BY <1>3, <1>m DEF SpareInv
  <2> QED BY <1>3, <2>1, <2>2 DEF SpareInv
<1>4. CASE Up
  <2>1. run'.before = live /\ run'.ledger = {} /\ run'.rules = {}
    BY <1>4, StartType DEF Up, Pcs, Commands
  <2>2. count'.ups = count.ups + 1 /\ count.ups \in Nat
    BY <1>0, <1>4, CloudAssumption DEF Up, Counts
  <2>3. \A x \in live : x.id \in Nat
    BY <1>0, CloudAssumption DEF Resources
  <2>4. \A x \in live : x.id < count'.ups /\ x.id <= count'.ups
    BY <2>2, <2>3 DEF SpareInv
  <2> QED BY <1>4, <2>1, <2>4 DEF Up, SpareInv
<1>5. CASE Create
  <2>1. /\ Entered \in Runs
        /\ Entered.cmd = run.cmd /\ Entered.before = run.before
        /\ Entered.ledger \cup Entered.rules = run.ledger \cup run.rules \cup {Made}
    BY <1>5, EnteredType DEF Create
  <2>2. /\ run'.cmd = run.cmd /\ run'.before = run.before
        /\ run'.ledger \cup run'.rules = run.ledger \cup run.rules \cup {Made}
    BY <1>5, <2>1 DEF Create, Runs
  <2>3. \A x \in live' : x.id <= count'.ups
    BY <1>5, <1>m DEF Create, SpareInv
  <2>4. cloud = "aws" => Made \notin run.before
    BY <1>5, MadeIsNew DEF Create
  <2>5. live \subseteq live' /\ UNCHANGED <<cloud, count>>
    BY <1>5 DEF Create
  <2> QED BY <2>2, <2>3, <2>4, <2>5 DEF SpareInv
<1>6. CASE CreateRefused
  BY <1>3, <1>6 DEF CreateRefused
<1>7. CASE CreateFails
  BY <1>3, <1>7, FaultType DEF CreateFails
<1>8. CASE CreateLost
  BY <1>3, <1>8, FaultType DEF CreateLost
<1>9. CASE SettleFails
  BY <1>3, <1>9, FaultType DEF SettleFails
<1>10. CASE Settle
  <2>1. /\ run'.cmd = run.cmd /\ run'.before = run.before
        /\ run'.ledger = run.ledger /\ run'.rules = run.rules
    BY <1>0, <1>10 DEF Settle, Runs
  <2> QED BY <1>10, <2>1 DEF Settle, SpareInv
<1>11. CASE Persist \/ Forget
  BY <1>2, <1>11 DEF Persist, Forget, End
<1>12. CASE PersistFails
  BY <1>2, <1>12, FaultType DEF PersistFails, End
<1>13. CASE Crash
  <2>1. count'.ups = count.ups
    BY <1>0, <1>13 DEF Crash, Counts
  <2> QED BY <1>2, <1>13, <2>1 DEF Crash
<1>14. CASE Destroy
  <2>1. run'.cmd = "destroy"
    <3>1. record.res \in SUBSET Resources
      BY DEF TypeInv, TypeOK
    <3> QED BY <1>14, <3>1, StartType DEF Destroy, Pcs, Commands
  <2> QED BY <1>1, <1>14, <2>1 DEF Destroy
<1>15. CASE Deleted
  <2>1. CASE run.cmd = "up"
    BY <1>2, <1>15, <2>1 DEF Deleted, End
  <2>2. CASE run.cmd # "up"
    <3>1. run'.cmd = run.cmd
      BY <1>0, <1>15, <2>2 DEF Deleted, Runs
    <3> QED BY <1>1, <1>15, <2>2, <3>1 DEF Deleted
  <2> QED BY <2>1, <2>2
<1>16. ASSUME NEW x \in Resources, Delete(x) PROVE SpareInv'
  <2>1. /\ run'.cmd = run.cmd /\ run'.before = run.before
        /\ run'.ledger = run.ledger \ {x} /\ run'.rules = run.rules
    BY <1>0, <1>16 DEF Delete, Runs
  <2>2. x \in run.ledger /\ live' = live \ {x} /\ UNCHANGED <<cloud, count>>
    BY <1>16 DEF Delete, Due
  <2> QED BY <2>1, <2>2 DEF SpareInv
<1>17. ASSUME NEW x \in Resources, DeleteFails(x) PROVE SpareInv'
  <2>1. run' = Idle /\ live' \subseteq live
    BY <1>17 DEF DeleteFails, End
  <2>2. count'.ups = count.ups
    BY <1>17, FaultType DEF DeleteFails
  <2> QED BY <1>2, <2>1, <2>2
<1>18. CASE Unlink
  <2>1. run.pc = "unlink" /\ run'.cmd = run.cmd /\ run'.before = run.before
        /\ run'.ledger = run.ledger /\ run'.rules = run.rules
    BY <1>0, <1>18 DEF Unlink, Runs
  <2> QED BY <1>18, <2>1 DEF Unlink, SpareInv
<1>19. CASE UnlinkFails
  <2>1. run.pc = "unlink" /\ run'.cmd = run.cmd /\ run'.before = run.before
        /\ run'.ledger = run.ledger /\ run'.rules = run.rules
    BY <1>0, <1>19 DEF UnlinkFails, Runs
  <2> QED BY <1>19, <2>1, FaultType DEF UnlinkFails, SpareInv
<1>20. ASSUME NEW S \in SUBSET live, NEW force \in BOOLEAN, Adopt(S, force) PROVE SpareInv'
  <2>1. S \in SUBSET Resources
    BY <1>0
  <2>2. run'.cmd = "adopt"
    BY <1>20, <2>1, StartType DEF Adopt, Pcs, Commands
  <2> QED BY <1>1, <1>20, <2>2 DEF Adopt
<1>21. ASSUME NEW S \in SUBSET live, NEW x \in live, NEW force \in BOOLEAN,
              AdoptMisses(S, x, force)
       PROVE  SpareInv'
  <2>1. run'.cmd = "adopt" /\ live' = live
    BY <1>21 DEF AdoptMisses, Idle
  <2>2. count'.ups = count.ups
    BY <1>21, FaultType DEF AdoptMisses
  <2> QED BY <1>1, <2>1, <2>2
<1>22. CASE UNCHANGED vars
  BY <1>22 DEF vars, SpareInv
<1> QED BY <1>4, <1>5, <1>6, <1>7, <1>8, <1>9, <1>10, <1>11, <1>12, <1>13, <1>14, <1>15,
           <1>16, <1>17, <1>18, <1>19, <1>20, <1>21, <1>22 DEF Next

\* An up on AWS, also one that fails and rolls back, deletes nothing that was
\* there when it began.
THEOREM UpSparesExisting == Spec => []AwsUpSparesExisting
<1>1. Init => SpareInv
  BY DEF Init, SpareInv, Idle
<1>2. SpareInv => AwsUpSparesExisting
  BY DEF SpareInv, AwsUpSparesExisting
<1> QED
  BY <1>1, <1>2, NextSpare, TypesHold, PTL DEF Spec

-----------------------------------------------------------------------------
(* The steps, field by field *)

\* An up begins.
UpBegins ==
  /\ run.pc = "idle" /\ run'.cmd = "up" /\ run'.pc = "create" /\ run'.step = 1
  /\ run'.ledger = {} /\ run'.rules = {}
  /\ count'.ups = count.ups + 1
  /\ UNCHANGED <<live, record, last, tainted>>

\* A resource is made and noted.
MakesOne ==
  /\ run.pc = "create" /\ ~Collides
  /\ live' = live \cup {Made}
  /\ run'.cmd = run.cmd /\ run'.step = run.step + 1
  /\ run'.pc = IF run.step = Len(Plan) THEN "settle" ELSE "create"
  /\ run'.ledger \cup run'.rules = run.ledger \cup run.rules \cup {Made}
  /\ run'.rules = IF Kind = "ssh" /\ ports THEN run.rules \cup {Made}
                  ELSE IF Kind \in {"ssh", "ports"} THEN {} ELSE run.rules
  /\ count'.ups = count.ups
  /\ UNCHANGED <<record, last, tainted>>

\* An up turns back, with or without a resource it does not know of.
TurnsBack ==
  /\ run.pc \in {"create", "settle"} /\ run'.pc = "delete"
  /\ run'.cmd = run.cmd /\ run'.ledger = run.ledger /\ run'.rules = {}
  /\ \/ UNCHANGED <<live, tainted>>
     \/ run.pc = "create" /\ live' = live \cup {Made} /\ tainted'
  /\ count'.ups = count.ups
  /\ UNCHANGED <<record, last>>

\* A command goes on to its next phase.
GoesOn ==
  /\ <<run.pc, run'.pc>> \in
       {<<"settle", "persist">>, <<"delete", "unlink">>, <<"unlink", "forget">>}
  /\ run.pc = "delete" => run.cmd # "up" /\ run.ledger = {}
  /\ run'.cmd = run.cmd /\ run'.step = run.step
  /\ run'.ledger = run.ledger /\ run'.rules = run.rules
  /\ count'.ups = count.ups
  /\ UNCHANGED <<live, record, last, tainted>>

\* A destroy or an adopt begins.
OtherBegins ==
  /\ run.pc = "idle" /\ run'.rules = {}
  /\ \/ run'.cmd = "destroy" /\ run'.pc = "delete" /\ run'.ledger = record.res
     \/ /\ run'.cmd = "adopt" /\ run'.pc = "persist" /\ run'.ledger \subseteq live
        /\ \/ /\ Found(run'.ledger) /\ ~run'.faulted /\ UNCHANGED tainted
              /\ \A x, y \in OfKind(live, "instance") : x = y
           \/ cloud = "gcp" /\ run'.faulted /\ tainted'
  /\ run'.cmd = "destroy" => UNCHANGED tainted
  /\ count'.ups = count.ups
  /\ UNCHANGED <<live, record, last>>

\* One resource of the ledger goes.
DeletesOne ==
  /\ run.pc = "delete" /\ run'.pc = "delete"
  /\ \E x \in Due : live' = live \ {x} /\ run'.ledger = run.ledger \ {x}
  /\ run'.cmd = run.cmd /\ run'.rules = run.rules
  /\ count'.ups = count.ups
  /\ UNCHANGED <<record, last, tainted>>

\* A command ends well.
EndsWell ==
  /\ run' = Idle /\ last' = [cmd |-> run.cmd, ok |-> TRUE, faulted |-> run.faulted]
  /\ \/ run.pc = "persist" /\ record' = [known |-> TRUE, res |-> run.ledger]
     \/ run.pc = "forget" /\ record' = [known |-> FALSE, res |-> {}]
  /\ count'.ups = count.ups
  /\ UNCHANGED <<live, tainted>>

\* A command fails or dies.  One that meets no fault is an up that has rolled
\* back, or is refused a delete.
EndsBadly ==
  /\ run.pc # "idle" /\ run' = Idle /\ last'.cmd = run.cmd /\ ~last'.ok
  /\ \/ last'.faulted
     \/ run.cmd = "up" /\ run.pc = "delete"
     \/ run.pc = "delete" /\ \E x \in Due : Blocked(x)
  /\ \/ live' = live
     \/ run.pc = "delete" /\ \E x \in Due : live' = live \ {x}
  /\ tainted' \/ (~tainted /\ run.cmd # "up")
     \/ (run.pc = "delete" /\ run.ledger = {} /\ UNCHANGED <<live, tainted>>)
  /\ count'.ups = count.ups
  /\ UNCHANGED record

Effect ==
  \/ UpBegins \/ MakesOne \/ TurnsBack \/ GoesOn \/ OtherBegins \/ DeletesOne
  \/ EndsWell \/ EndsBadly

\* Every step of a command is one of these.
LEMMA Effects == TypeInv /\ Next => Effect /\ UNCHANGED <<cloud, ports>>
<1> SUFFICES ASSUME TypeInv, Next PROVE Effect /\ UNCHANGED <<cloud, ports>>
  OBVIOUS
<1>0. run \in Runs /\ record.res \in SUBSET Resources /\ live \in SUBSET Resources
      /\ tainted \in BOOLEAN /\ run.faulted \in BOOLEAN
  BY DEF TypeInv, TypeOK, Runs, Pcs
<1>1. CASE Up
  BY <1>0, <1>1, StartType DEF Up, Pcs, Commands, Effect, UpBegins, TypeInv, TypeOK
<1>2. CASE Create
  <2>1. /\ Entered \in Runs
        /\ Entered.cmd = run.cmd /\ Entered.step = run.step
        /\ Entered.ledger \cup Entered.rules = run.ledger \cup run.rules \cup {Made}
    BY <1>2, EnteredType DEF Create
  <2>2. Entered.rules = IF Kind = "ssh" /\ ports THEN run.rules \cup {Made}
                        ELSE IF Kind \in {"ssh", "ports"} THEN {} ELSE run.rules
    BY <1>0 DEF Entered, Runs
  <2>3. /\ run'.cmd = run.cmd /\ run'.step = run.step + 1
        /\ run'.pc = IF run.step = Len(Plan) THEN "settle" ELSE "create"
        /\ run'.ledger = Entered.ledger /\ run'.rules = Entered.rules
    BY <1>2, <2>1 DEF Create, Runs
  <2>4. MakesOne
    BY <1>2, <2>1, <2>2, <2>3 DEF Create, MakesOne
  <2> QED BY <1>2, <2>4 DEF Create, Effect
<1>3. CASE CreateRefused \/ CreateFails \/ CreateLost \/ SettleFails
  <2>1. run.pc \in {"create", "settle"} /\ UNCHANGED <<cloud, ports, record, last>>
    BY <1>3 DEF CreateRefused, CreateFails, CreateLost, SettleFails, RollBack
  <2>2. /\ run'.pc = "delete" /\ run'.cmd = run.cmd
        /\ run'.ledger = run.ledger /\ run'.rules = {}
    BY <1>0, <1>3 DEF CreateRefused, CreateFails, CreateLost, SettleFails, RollBack, Runs
  <2>3. \/ UNCHANGED <<live, tainted>>
        \/ run.pc = "create" /\ live' = live \cup {Made} /\ tainted'
    BY <1>3 DEF CreateRefused, CreateFails, CreateLost, SettleFails
  <2>4. count'.ups = count.ups
    BY <1>3, FaultType DEF CreateRefused, CreateFails, CreateLost, SettleFails
  <2> QED BY <2>1, <2>2, <2>3, <2>4 DEF TurnsBack, Effect
<1>4. CASE Settle \/ Unlink \/ UnlinkFails
  <2>1. count'.ups = count.ups
    BY <1>4, FaultType DEF Settle, Unlink, UnlinkFails
  <2>2. GoesOn
    BY <1>0, <1>4, <2>1 DEF Settle, Unlink, UnlinkFails, Runs, GoesOn
  <2> QED BY <1>4, <2>2 DEF Settle, Unlink, UnlinkFails, Effect
<1>5. CASE Persist \/ Forget
  BY <1>5 DEF Persist, Forget, End, EndsWell, Effect
<1>6. CASE PersistFails
  <2>1. count'.ups = count.ups
    BY <1>6, FaultType DEF PersistFails
  <2>2. last'.cmd = run.cmd /\ ~last'.ok /\ last'.faulted
    BY <1>6 DEF PersistFails, End
  <2> QED BY <1>0, <1>6, <2>1, <2>2 DEF PersistFails, End, EndsBadly, Effect
<1>7. CASE Destroy
  BY <1>0, <1>7, StartType DEF Destroy, Pcs, Commands, OtherBegins, Effect
<1>8. CASE Deleted
  <2>1. CASE run.cmd = "up"
    <3>1. last'.cmd = run.cmd /\ ~last'.ok /\ run' = Idle
      BY <1>8, <2>1 DEF Deleted, End
    <3> QED BY <1>8, <2>1, <3>1 DEF Deleted, EndsBadly, Effect
  <2>2. CASE run.cmd # "up"
    BY <1>0, <1>8, <2>2 DEF Deleted, Runs, GoesOn, Effect
  <2> QED BY <2>1, <2>2
<1>9. ASSUME NEW x \in Resources, Delete(x)
      PROVE  Effect /\ UNCHANGED <<cloud, ports>>
  <2>1. /\ run'.pc = "delete" /\ run'.cmd = run.cmd
        /\ run'.ledger = run.ledger \ {x} /\ run'.rules = run.rules
    BY <1>0, <1>9 DEF Delete, Runs
  <2> QED BY <1>9, <2>1 DEF Delete, DeletesOne, Effect
<1>10. ASSUME NEW x \in Resources, DeleteFails(x)
       PROVE  Effect /\ UNCHANGED <<cloud, ports>>
  <2>1. count'.ups = count.ups
    BY <1>10, FaultType DEF DeleteFails
  <2>2. last'.cmd = run.cmd /\ ~last'.ok /\ run' = Idle /\ (last'.faulted \/ Blocked(x))
    BY <1>10 DEF DeleteFails, End
  <2>3. live' = live \/ live' = live \ {x}
    BY <1>10 DEF DeleteFails
  <2>4. tainted' \/ (~tainted /\ run.cmd # "up")
    BY <1>0, <1>10 DEF DeleteFails
  <2> QED BY <1>10, <2>1, <2>2, <2>3, <2>4 DEF DeleteFails, EndsBadly, Effect
<1>11. ASSUME NEW S \in SUBSET live, NEW force \in BOOLEAN, Adopt(S, force)
       PROVE  Effect /\ UNCHANGED <<cloud, ports>>
  <2>1. S \in SUBSET Resources
    BY <1>0
  <2>2. /\ run'.cmd = "adopt" /\ run'.pc = "persist" /\ run'.ledger = S /\ run'.rules = {}
    BY <1>11, <2>1, StartType DEF Adopt, Pcs, Commands
  <2>3. ~run'.faulted
    BY <1>11 DEF Adopt, Start, Idle
  <2> QED BY <1>11, <2>2, <2>3 DEF Adopt, OtherBegins, Effect
<1>12. ASSUME NEW S \in SUBSET live, NEW x \in live, NEW force \in BOOLEAN,
              AdoptMisses(S, x, force)
       PROVE  Effect /\ UNCHANGED <<cloud, ports>>
  <2>1. count'.ups = count.ups
    BY <1>12, FaultType DEF AdoptMisses
  <2>2. /\ run'.cmd = "adopt" /\ run'.pc = "persist" /\ run'.ledger = S
        /\ run'.rules = {} /\ run'.faulted
    BY <1>12 DEF AdoptMisses, Idle
  <2> QED BY <1>12, <2>1, <2>2 DEF AdoptMisses, OtherBegins, Effect
<1>13. CASE Crash
  <2>1. count'.ups = count.ups
    BY <1>13 DEF Crash, TypeInv, TypeOK
  <2>2. last'.cmd = run.cmd /\ ~last'.ok /\ last'.faulted
    BY <1>13 DEF Crash
  <2> QED BY <1>0, <1>13, <2>1, <2>2 DEF Crash, EndsBadly, Effect
<1> QED BY <1>1, <1>2, <1>3, <1>4, <1>5, <1>6, <1>7, <1>8, <1>9, <1>10, <1>11, <1>12, <1>13
    DEF Next

-----------------------------------------------------------------------------
(* What the commands find and leave *)

\* The resource of kind k that the latest up makes.
Thing(k) == [kind |-> k, id |-> IF cloud = "gcp" \/ k = "key" THEN 0 ELSE count.ups]

PlanKinds == {Plan[i] : i \in 1 .. Len(Plan)}

\* An up has made the steps of its plan so far, no more and no less, and all of it
\* past the creates, and all of it exists; only the ssh rule of a GCP plan with
\* open ports waits.
UpInv ==
  /\ run.cmd = "up" /\ run.pc \in {"create", "settle", "persist"} =>
       /\ run.ledger \cup run.rules = {Thing(Plan[i]) : i \in 1 .. run.step - 1}
       /\ run.pc # "create" => run.step = Len(Plan) + 1
       /\ run.ledger \cup run.rules \subseteq live
  /\ run.rules # {} =>
       /\ cloud = "gcp" /\ ports /\ run.pc = "create" /\ run.step = 3
       /\ \A x \in run.rules : x.kind = "ssh"

\* Each command has its own phases.
PhaseInv ==
  /\ run.pc = "idle" <=> run.cmd = "none"
  /\ run.pc = "delete" => run.cmd \in {"up", "destroy"}
  /\ run.pc \in {"unlink", "forget"} => run.cmd = "destroy"
  /\ run.pc = "persist" => run.cmd \in {"up", "adopt"}

\* Only what plans make exists; on GCP one resource of a kind.
KindInv == \A x \in live : x.kind \in PlanKinds /\ (cloud = "gcp" => x.id = 0)

InstanceOf(x) == [x EXCEPT !.kind = "instance"]

\* A set of resources that has, with a group, the instance that uses it.
Whole(R) == \A x \in R : x.kind = "sg" /\ InstanceOf(x) \in live => InstanceOf(x) \in R

\* Records, and the ledgers they come from and go to, are whole; a new up makes no
\* instance for a group of the record.
NameInv ==
  /\ \A x \in record.res \cup run.ledger : x.id <= count.ups
  /\ cloud = "aws" /\ run.cmd = "up" =>
       \A x \in record.res : x.kind = "sg" => x.id < count.ups
  /\ cloud = "aws" => Whole(record.res)
  /\ cloud = "aws" /\ run.cmd \in {"destroy", "adopt"} => Whole(run.ledger)

\* A search without a fault has found one resource of each kind there is.
AdoptInv ==
  /\ run.cmd = "adopt" /\ ~run.faulted =>
       run.ledger \subseteq live /\ \A x \in live : OfKind(run.ledger, x.kind) # {}
  /\ AdoptTracksAll

\* The ssh rule that a failed up on GCP leaves.
Stray(x) == cloud = "gcp" /\ ports /\ x.kind = "ssh"

Key == [kind |-> "key", id |-> 0]

\* Without crashes and lost answers, whatever exists is in the record or the
\* ledger of an up, and what exists on AWS was made by one up, the key first.
CleanInv ==
  ~tainted =>
    /\ \A x \in live : x \in record.res \/ (run.cmd = "up" /\ x \in run.ledger) \/ Stray(x)
    /\ \A x, y \in live : x.kind = y.kind => x = y
    /\ cloud = "aws" => (live # {} => Key \in live)
    /\ cloud = "aws" /\ run.cmd = "up" /\ run.ledger # {} => live \subseteq run.ledger
    /\ run.cmd = "adopt" => ~run.faulted

\* All of it together.
FateInv ==
  TypeInv /\ ForgetInv /\ SpareInv /\ PhaseInv /\ UpInv /\ KindInv /\ NameInv /\ AdoptInv
    /\ DestroyResumes /\ CleanInv

\* A command is in one of its own phases.
LEMMA NextPhase == TypeInv /\ PhaseInv /\ [Next]_vars => PhaseInv'
<1> SUFFICES ASSUME TypeInv, PhaseInv, [Next]_vars PROVE PhaseInv'
  OBVIOUS
<1>1. CASE UNCHANGED vars
  BY <1>1 DEF vars, PhaseInv
<1>2. CASE Next
  <2>1. Effect
    BY <1>2, Effects
  <2>2. run.pc \in {"create", "settle"} => run.cmd = "up"
    BY DEF TypeInv, Creating
  <2> QED BY <2>1, <2>2 DEF Effect, UpBegins, MakesOne, TurnsBack, GoesOn, OtherBegins,
                            DeletesOne, EndsWell, EndsBadly, Idle, PhaseInv
<1> QED BY <1>1, <1>2

\* The plan, step by step, and what a step of an up makes.
LEMMA PlanParts ==
  ASSUME TypeInv
  PROVE  /\ cloud = "aws" => /\ Len(Plan) = 4 /\ Plan[1] = "key" /\ Plan[2] = "sg"
                             /\ Plan[3] = "instance" /\ Plan[4] = "eip"
         /\ cloud = "gcp" /\ ports => /\ Len(Plan) = 4 /\ Plan[1] = "ip" /\ Plan[2] = "ssh"
                                      /\ Plan[3] = "ports" /\ Plan[4] = "instance"
         /\ cloud = "gcp" /\ ~ports => /\ Len(Plan) = 3 /\ Plan[1] = "ip"
                                       /\ Plan[2] = "ssh" /\ Plan[3] = "instance"
         /\ cloud \in {"aws", "gcp"} /\ ports \in BOOLEAN
         /\ Made = Thing(Kind)
         /\ run.pc = "create" => run.step \in 1 .. Len(Plan) /\ run.cmd = "up"
<1>1. cloud \in {"aws", "gcp"} /\ ports \in BOOLEAN
  BY DEF TypeInv, TypeOK
<1>2. /\ cloud = "aws" => Plan = <<"key", "sg", "instance", "eip">>
      /\ cloud = "gcp" /\ ports => Plan = <<"ip", "ssh", "ports", "instance">>
      /\ cloud = "gcp" /\ ~ports => Plan = <<"ip", "ssh", "instance">>
  BY DEF Plan
<1>3. Made = Thing(Kind)
  BY DEF Made, Thing
<1>4. run.pc = "create" => run.step \in 1 .. Len(Plan) /\ run.cmd = "up"
  BY DEF TypeInv, Creating
<1> QED BY <1>1, <1>2, <1>3, <1>4

\* The ledger of an up follows its plan.
LEMMA NextUp == TypeInv /\ UpInv /\ PhaseInv /\ [Next]_vars => UpInv'
<1> SUFFICES ASSUME TypeInv, UpInv, PhaseInv, [Next]_vars PROVE UpInv'
  OBVIOUS
<1>1. CASE UNCHANGED vars
  BY <1>1 DEF vars, UpInv, Thing, Plan
<1>2. CASE Next
  <2>1. Effect /\ UNCHANGED <<cloud, ports>>
    BY <1>2, Effects
  <2>2. Plan' = Plan
    BY <2>1 DEF Plan
  <2>3. run.step \in Nat
    BY DEF TypeInv, TypeOK
  <2>4. CASE UpBegins
    BY <2>1, <2>2, <2>4 DEF UpBegins, UpInv
  <2>5. CASE MakesOne
    <3>1. run.cmd = "up" /\ run.step \in 1 .. Len(Plan) /\ Made = Thing(Plan[run.step])
          /\ Len(Plan) \in Nat
      BY <2>5, PlanParts DEF MakesOne, Kind
    <3>3. run.ledger \cup run.rules = {Thing(Plan[i]) : i \in 1 .. run.step - 1}
      BY <2>5, <3>1 DEF UpInv, MakesOne
    <3>4. run'.ledger \cup run'.rules = {Thing(Plan[i]) : i \in 1 .. run.step}
      <4>1. \A i : i \in 1 .. run.step <=> i \in 1 .. run.step - 1 \/ i = run.step
        BY <3>1
      <4> QED BY <2>5, <3>1, <3>3, <4>1 DEF MakesOne
    <3>5. run'.ledger \cup run'.rules = {Thing(Plan[i]) : i \in 1 .. run.step - 1}'
      <4>1. \A i : Thing(Plan[i])' = Thing(Plan[i])
        BY <2>1, <2>2, <2>5 DEF MakesOne, Thing
      <4>2. run'.step - 1 = run.step
        BY <2>3, <2>5 DEF MakesOne
      <4> QED BY <3>4, <4>1, <4>2
    <3>6. run'.pc # "create" => run'.step = Len(Plan') + 1
      BY <2>2, <2>5 DEF MakesOne
    <3>7. run'.rules # {} =>
            /\ cloud = "gcp" /\ ports /\ run'.pc = "create" /\ run'.step = 3
            /\ \A x \in run'.rules : x.kind = "ssh"
      <4>1. CASE Kind = "ssh" /\ ports
        <5>1. cloud = "gcp" /\ run.step = 2 /\ Len(Plan) = 4
          BY <3>1, <4>1, PlanParts DEF Kind
        <5>2. run.rules = {}
          BY <5>1 DEF UpInv
        <5>3. Made.kind = "ssh"
          BY <4>1 DEF Made
        <5> QED BY <2>5, <4>1, <5>1, <5>2, <5>3 DEF MakesOne
      <4>2. CASE Kind # "ssh" \/ ~ports
        <5>1. CASE Kind \in {"ssh", "ports"}
          BY <2>5, <4>2, <5>1 DEF MakesOne
        <5>2. CASE Kind \notin {"ssh", "ports"}
          <6>1. run'.rules = run.rules
            BY <2>5, <5>2 DEF MakesOne
          <6>2. run.rules # {} => Kind = "ports"
            BY PlanParts DEF UpInv, Kind
          <6> QED BY <5>2, <6>1, <6>2
        <5> QED BY <5>1, <5>2
      <4> QED BY <4>1, <4>2
    <3>8. run'.ledger \cup run'.rules \subseteq live'
      BY <2>5, <3>1 DEF UpInv, MakesOne
    <3> QED BY <2>1, <3>5, <3>6, <3>7, <3>8 DEF UpInv
  <2>6. CASE TurnsBack
    BY <2>6 DEF TurnsBack, UpInv
  <2>7. CASE GoesOn
    <3>1. \A k : Thing(k)' = Thing(k)
      BY <2>1, <2>7 DEF GoesOn, Thing
    <3> QED BY <2>1, <2>2, <2>7, <3>1 DEF GoesOn, UpInv
  <2>8. CASE OtherBegins
    BY <2>8 DEF OtherBegins, UpInv
  <2>9. CASE DeletesOne
    BY <2>9 DEF DeletesOne, UpInv
  <2>10. CASE EndsWell \/ EndsBadly
    BY <2>10 DEF EndsWell, EndsBadly, UpInv, Idle
  <2> QED BY <2>1, <2>4, <2>5, <2>6, <2>7, <2>8, <2>9, <2>10 DEF Effect
<1> QED BY <1>1, <1>2

\* Only an up makes resources, those of its plan.
LEMMA NextKind == TypeInv /\ KindInv /\ [Next]_vars => KindInv'
<1> SUFFICES ASSUME TypeInv, KindInv, [Next]_vars PROVE KindInv'
  OBVIOUS
<1>1. CASE UNCHANGED vars
  BY <1>1 DEF vars, KindInv, PlanKinds, Plan
<1>2. CASE Next
  <2>1. Effect /\ UNCHANGED <<cloud, ports>>
    BY <1>2, Effects
  <2>2. PlanKinds' = PlanKinds
    BY <2>1 DEF PlanKinds, Plan
  <2>3. live' \subseteq live \/ (run.pc = "create" /\ live' = live \cup {Made})
    BY <2>1 DEF Effect, UpBegins, MakesOne, TurnsBack, GoesOn, OtherBegins, DeletesOne,
                EndsWell, EndsBadly
  <2>4. ASSUME run.pc = "create"
        PROVE  Made.kind \in PlanKinds /\ (cloud = "gcp" => Made.id = 0)
    <3>1. Made = Thing(Plan[run.step]) /\ run.step \in 1 .. Len(Plan)
      BY <2>4, PlanParts DEF Kind
    <3> QED BY <3>1 DEF Thing, PlanKinds
  <2> QED BY <2>1, <2>2, <2>3, <2>4 DEF KindInv
<1> QED BY <1>1, <1>2

\* A set that is whole stays so when resources go.
LEMMA StaysWhole ==
  ASSUME NEW R, Whole(R), live' \subseteq live
  PROVE  \A x \in R : x.kind = "sg" /\ InstanceOf(x) \in live' => InstanceOf(x) \in R
BY DEF Whole

\* What an AWS up has when it persists has an instance for its group.
LEMMA UpIsWhole ==
  ASSUME TypeInv, UpInv, PhaseInv, run.pc = "persist", run.cmd = "up"
  PROVE  /\ run.ledger = {Thing(Plan[i]) : i \in 1 .. Len(Plan)}
         /\ cloud = "aws" => Whole(run.ledger)
         /\ \A x \in run.ledger : x.id <= count.ups
<1>1. run.rules = {} /\ run.step = Len(Plan) + 1 /\ Len(Plan) \in {3, 4}
  BY PlanParts DEF UpInv
<1>2. run.ledger = {Thing(Plan[i]) : i \in 1 .. Len(Plan)}
  BY <1>1 DEF UpInv
<1>3. count.ups \in Nat
  BY CloudAssumption DEF TypeInv, TypeOK
<1>4. \A x \in run.ledger : x.id <= count.ups
  BY <1>2, <1>3 DEF Thing
<1>5. ASSUME cloud = "aws", NEW x \in run.ledger, x.kind = "sg"
      PROVE  InstanceOf(x) \in run.ledger
  <2>1. x = Thing("sg") /\ Thing("instance") \in run.ledger
    BY <1>2, <1>5, PlanParts DEF Thing
  <2>2. InstanceOf(x) = Thing("instance")
    BY <1>5, <2>1 DEF InstanceOf, Thing
  <2> QED BY <2>1, <2>2
<1> QED BY <1>2, <1>4, <1>5 DEF Whole

\* The record names no group without the instance that uses it.
LEMMA NextName ==
  TypeInv /\ SpareInv /\ UpInv /\ PhaseInv /\ NameInv /\ [Next]_vars => NameInv'
<1> SUFFICES ASSUME TypeInv, SpareInv, UpInv, PhaseInv, NameInv, [Next]_vars PROVE NameInv'
  OBVIOUS
<1>1. CASE UNCHANGED vars
  BY <1>1 DEF vars, NameInv, Whole, InstanceOf
<1>2. CASE Next
  <2>1. Effect /\ UNCHANGED <<cloud, ports>>
    BY <1>2, Effects
  <2>2. count.ups \in Nat /\ \A x \in record.res : x \in Resources /\ x.id \in Nat
    BY CloudAssumption DEF TypeInv, TypeOK, Resources
  <2>i. run.pc = "create" => Made.id <= count.ups
    BY <2>2 DEF Made
  <2>3. ASSUME NEW R, Whole(R), live' \subseteq live
        PROVE  Whole(R)'
    BY <2>3, StaysWhole DEF Whole, InstanceOf
  <2>4. CASE UpBegins
    <3>1. \A x \in record.res : x.id < count'.ups /\ x.id <= count'.ups
      BY <2>2, <2>4 DEF UpBegins, NameInv
    <3>2. cloud = "aws" => Whole(record.res)'
      BY <2>3, <2>4 DEF UpBegins, NameInv, Whole
    <3> QED BY <2>1, <2>4, <3>1, <3>2 DEF UpBegins, NameInv
  <2>5. ASSUME run.pc = "create", live' = live \cup {Made}, UNCHANGED record,
               run'.ledger \subseteq run.ledger \cup run.rules \cup {Made},
               count'.ups = count.ups, run'.cmd = run.cmd
        PROVE  NameInv'
    <3>1. run.cmd = "up" /\ (cloud = "aws" /\ Made.kind = "instance" => Made.id = count.ups)
      BY <2>5, PlanParts DEF Made
    <3>2. ASSUME cloud = "aws", NEW x \in record.res, x.kind = "sg", InstanceOf(x) \in live'
          PROVE  InstanceOf(x) \in record.res
      <4>1. InstanceOf(x).kind = "instance" /\ InstanceOf(x).id = x.id
        BY <2>2, <3>2 DEF InstanceOf, Resources
      <4>2. x.id < count.ups
        BY <3>1, <3>2 DEF NameInv
      <4>3. InstanceOf(x) # Made
        BY <2>2, <3>1, <3>2, <4>1, <4>2
      <4> QED BY <2>5, <3>2, <4>3 DEF NameInv, Whole
    <3>3. \A x \in run'.ledger : x.id <= count.ups
      <4>1. \A x \in run.rules : x.id <= count.ups
        <5>1. run.ledger \cup run.rules = {Thing(Plan[i]) : i \in 1 .. run.step - 1}
          BY <2>5, <3>1 DEF UpInv
        <5> QED BY <2>2, <5>1 DEF Thing
      <4> QED BY <2>5, <2>i, <4>1 DEF NameInv
    <3> QED BY <2>1, <2>5, <3>1, <3>2, <3>3 DEF NameInv, Whole, InstanceOf
  <2>6. CASE MakesOne
    BY <2>5, <2>6 DEF MakesOne
  <2>7. CASE TurnsBack
    <3>1. CASE UNCHANGED live
      <4>1. run'.cmd = "up"
        BY <2>7, PlanParts DEF TurnsBack, TypeInv, Creating
      <4>2. cloud = "aws" => Whole(record.res)'
        BY <2>3, <2>7, <3>1 DEF TurnsBack, NameInv, Whole
      <4> QED BY <2>1, <2>7, <4>1, <4>2 DEF TurnsBack, NameInv, TypeInv, Creating
    <3>2. CASE run.pc = "create" /\ live' = live \cup {Made}
      BY <2>5, <2>7, <3>2 DEF TurnsBack
    <3> QED BY <2>7, <3>1, <3>2 DEF TurnsBack
  <2>8. CASE GoesOn
    BY <2>1, <2>8 DEF GoesOn, NameInv, Whole, InstanceOf
  <2>9. CASE OtherBegins
    <3>1. cloud = "aws" => Whole(record.res)'
      BY <2>9 DEF OtherBegins, NameInv, Whole, InstanceOf
    <3>2. ASSUME cloud = "aws", run'.cmd = "adopt" PROVE Whole(run.ledger)'
      <4>1. /\ run'.ledger \subseteq live /\ Found(run'.ledger) /\ live' = live
            /\ \A x, y \in OfKind(live, "instance") : x = y
        BY <2>9, <3>2 DEF OtherBegins
      <4>2. ASSUME NEW x \in run'.ledger, x.kind = "sg", InstanceOf(x) \in live
            PROVE  InstanceOf(x) \in run'.ledger
        <5>1. x \in Resources
          BY <4>1, <4>2 DEF TypeInv, TypeOK
        <5>2. InstanceOf(x).kind = "instance"
          BY <5>1 DEF InstanceOf, Resources
        <5>3. OfKind(live, "instance") # {} /\ "instance" \in AwsKinds
          BY <4>2, <5>2 DEF OfKind, AwsKinds
        <5>4. PICK y \in run'.ledger : y.kind = "instance"
          BY <4>1, <5>3 DEF Found, OfKind
        <5>5. y = InstanceOf(x)
          BY <4>1, <4>2, <5>2, <5>4 DEF OfKind
        <5> QED BY <5>4, <5>5
      <4> QED BY <4>1, <4>2 DEF Whole, InstanceOf
    <3>3. ASSUME cloud = "aws", run'.cmd = "destroy" PROVE Whole(run.ledger)'
      BY <2>9, <3>1, <3>3 DEF OtherBegins, Whole, InstanceOf
    <3>4. \A x \in run'.ledger : x.id <= count.ups
      BY <2>9 DEF OtherBegins, NameInv, SpareInv
    <3> QED BY <2>1, <2>9, <3>1, <3>2, <3>3, <3>4 DEF OtherBegins, NameInv
  <2>10. CASE DeletesOne
    <3>1. PICK x \in Due : live' = live \ {x} /\ run'.ledger = run.ledger \ {x}
      BY <2>10 DEF DeletesOne
    <3>2. cloud = "aws" => Whole(record.res)'
      BY <2>3, <2>10, <3>1 DEF DeletesOne, NameInv, Whole
    <3>3. cloud = "aws" /\ run.cmd = "destroy" => Whole(run.ledger)'
      BY <3>1 DEF NameInv, Whole, InstanceOf
    <3> QED BY <2>1, <2>10, <3>2, <3>3 DEF DeletesOne, NameInv, PhaseInv
  <2>11. CASE EndsWell
    <3>1. CASE run.pc = "forget"
      BY <2>1, <2>11, <3>1 DEF EndsWell, NameInv, Idle, Whole
    <3>2. CASE run.pc = "persist"
      <4>1. record'.res = run.ledger /\ live' = live /\ count'.ups = count.ups
            /\ run'.cmd = "none" /\ run'.ledger = {}
        BY <2>11, <3>2 DEF EndsWell, Idle
      <4>2. cloud = "aws" => Whole(run.ledger)
        BY <3>2, UpIsWhole DEF NameInv, PhaseInv
      <4>3. \A x \in run.ledger : x.id <= count.ups
        BY DEF NameInv
      <4> QED BY <2>1, <4>1, <4>2, <4>3 DEF NameInv, Whole, InstanceOf
    <3> QED BY <2>11, <3>1, <3>2 DEF EndsWell
  <2>12. CASE EndsBadly
    <3>1. cloud = "aws" => Whole(record.res)'
      BY <2>3, <2>12 DEF EndsBadly, NameInv, Whole
    <3> QED BY <2>1, <2>12, <3>1 DEF EndsBadly, NameInv, Idle
  <2> QED BY <2>1, <2>4, <2>6, <2>7, <2>8, <2>9, <2>10, <2>11, <2>12 DEF Effect
<1> QED BY <1>1, <1>2

\* A search without a fault ends in a record that has all there is.
LEMMA NextAdopt ==
  TypeInv /\ PhaseInv /\ AdoptInv /\ [Next]_vars => AdoptInv'
<1> SUFFICES ASSUME TypeInv, PhaseInv, AdoptInv, [Next]_vars PROVE AdoptInv'
  OBVIOUS
<1>1. CASE UNCHANGED vars
  BY <1>1 DEF vars, AdoptInv, AdoptTracksAll, OfKind
<1>2. CASE Next
  <2>1. Effect
    BY <1>2, Effects
  <2>2. ASSUME run'.pc # "idle", run'.cmd # "adopt" PROVE AdoptInv'
    BY <2>2 DEF AdoptInv, AdoptTracksAll
  <2>3. CASE UpBegins
    BY <2>2, <2>3 DEF UpBegins
  <2>4. CASE MakesOne \/ TurnsBack
    <3>1. run'.cmd = "up" /\ run'.pc # "idle"
      BY <2>4 DEF MakesOne, TurnsBack, TypeInv, Creating
    <3> QED BY <2>2, <3>1
  <2>5. CASE GoesOn \/ DeletesOne
    <3>1. run'.cmd # "adopt" /\ run'.pc # "idle"
      BY <2>5 DEF GoesOn, DeletesOne, PhaseInv, TypeInv, Creating
    <3> QED BY <2>2, <3>1
  <2>6. CASE OtherBegins
    <3>1. CASE run'.cmd = "adopt" /\ ~run'.faulted
      <4>1. run'.pc # "idle" /\ run'.ledger \subseteq live /\ live' = live /\ Found(run'.ledger)
        BY <2>6, <3>1 DEF OtherBegins
      <4>2. \A x \in live : x.kind \in AwsKinds \cup GcpKinds
        BY DEF TypeInv, TypeOK, Resources
      <4>3. \A x \in live : OfKind(run'.ledger, x.kind) # {}
        BY <4>1, <4>2 DEF Found, OfKind
      <4> QED BY <4>1, <4>3 DEF AdoptInv, AdoptTracksAll, OfKind
    <3>2. CASE run'.cmd # "adopt" \/ run'.faulted
      BY <2>6, <3>2 DEF OtherBegins, AdoptInv, AdoptTracksAll
    <3> QED BY <3>1, <3>2
  <2>7. CASE EndsWell
    <3>1. /\ run' = Idle /\ live' = live
          /\ last' = [cmd |-> run.cmd, ok |-> TRUE, faulted |-> run.faulted]
      BY <2>7 DEF EndsWell
    <3>2. run.cmd = "adopt" => record'.res = run.ledger
      BY <2>7 DEF EndsWell, PhaseInv
    <3> QED BY <3>1, <3>2 DEF AdoptInv, AdoptTracksAll, OfKind, Idle
  <2>8. CASE EndsBadly
    BY <2>8 DEF EndsBadly, AdoptInv, AdoptTracksAll, Idle
  <2> QED BY <2>1, <2>3, <2>4, <2>5, <2>6, <2>7, <2>8 DEF Effect
<1> QED BY <1>1, <1>2

\* No group whose turn it is in a destroy is in use.
LEMMA NotBlocked ==
  ASSUME TypeInv, NameInv, KindInv, run.pc = "delete", run.cmd = "destroy",
         NEW x \in Due
  PROVE  ~Blocked(x)
<1> SUFFICES ASSUME Blocked(x) PROVE FALSE
  OBVIOUS
<1>1. x \in run.ledger /\ x.kind = "sg" /\ x \in live /\ InstanceOf(x) \in live
      /\ x \in Resources
  BY DEF Blocked, Due, InstanceOf, TypeInv, TypeOK
<1>2. cloud = "aws"
  <2>1. x.kind \in PlanKinds
    BY <1>1 DEF KindInv
  <2> QED BY <1>1, <2>1, PlanParts DEF PlanKinds
<1>3. InstanceOf(x) \in run.ledger
  BY <1>1, <1>2 DEF NameInv, Whole
<1>4. InstanceOf(x).kind = "instance"
  BY <1>1 DEF InstanceOf, Resources
<1>5. Teardown = <<"instance", "eip", "sg", "key">>
  BY <1>2 DEF Teardown
<1>6. PICK i \in 1 .. 4 : /\ Teardown[i] = "sg"
                          /\ \A j \in 1 .. i - 1 : OfKind(run.ledger, Teardown[j]) = {}
  BY <1>1, <1>5 DEF Due
<1>7. OfKind(run.ledger, "instance") = {}
  BY <1>5, <1>6
<1> QED BY <1>3, <1>4, <1>7 DEF OfKind

\* A destroy that fails has met a fault.
LEMMA NextResumes ==
  TypeInv /\ PhaseInv /\ KindInv /\ NameInv /\ DestroyResumes /\ [Next]_vars
    => DestroyResumes'
<1> SUFFICES ASSUME TypeInv, PhaseInv, KindInv, NameInv, DestroyResumes, [Next]_vars
             PROVE  DestroyResumes'
  OBVIOUS
<1>1. CASE UNCHANGED last
  BY <1>1 DEF DestroyResumes
<1>2. CASE Next
  <2>1. Effect
    BY <1>2, Effects
  <2>2. CASE EndsBadly
    BY <2>2, NotBlocked DEF EndsBadly, DestroyResumes
  <2>3. CASE EndsWell
    BY <2>3 DEF EndsWell, DestroyResumes
  <2> QED BY <1>1, <2>1, <2>2, <2>3 DEF Effect, UpBegins, MakesOne, TurnsBack, GoesOn,
                                       OtherBegins, DeletesOne
<1> QED BY <1>1, <1>2 DEF vars

\* When the turn is the key's on AWS, nothing else is left.
LEMMA KeyIsLast ==
  ASSUME TypeInv, ForgetInv, PhaseInv, KindInv, CleanInv, ~tainted,
         cloud = "aws", run.pc = "delete", Key \in Due
  PROVE  live \subseteq {Key}
<1>1. Teardown = <<"instance", "eip", "sg", "key">>
  BY DEF Teardown
<1>2. PICK i \in 1 .. 4 : /\ Teardown[i] = "key"
                          /\ \A j \in 1 .. i - 1 : OfKind(run.ledger, Teardown[j]) = {}
  BY <1>1 DEF Due, Key
<1>3. /\ OfKind(run.ledger, "instance") = {}
      /\ OfKind(run.ledger, "eip") = {}
      /\ OfKind(run.ledger, "sg") = {}
  BY <1>1, <1>2
<1>4. live \subseteq run.ledger
  <2>1. CASE run.cmd = "up"
    BY <2>1 DEF CleanInv, Due
  <2>2. CASE run.cmd # "up"
    BY <2>2 DEF CleanInv, ForgetInv, Stray
  <2> QED BY <2>1, <2>2
<1>5. ASSUME NEW y \in live PROVE y = Key
  <2>1. y.kind \in AwsKinds
    BY PlanSteps DEF KindInv, PlanKinds, TypeInv, TypeOK
  <2>2. y.kind = "key"
    BY <1>3, <1>4, <2>1 DEF OfKind, AwsKinds
  <2>3. Key \in live /\ Key.kind = "key"
    BY DEF CleanInv, Key
  <2> QED BY <2>2, <2>3 DEF CleanInv
<1> QED BY <1>5

\* A delete leaves what CleanInv says of the record and of the key.
LEMMA CleanDelete ==
  ASSUME TypeInv, ForgetInv, PhaseInv, KindInv, CleanInv, ~tainted, run.pc = "delete",
         NEW x \in Due
  PROVE  /\ \A y, z \in live \ {x} : y.kind = z.kind => y = z
         /\ cloud = "aws" => (live \ {x} # {} => Key \in live \ {x})
BY KeyIsLast DEF CleanInv

\* A create of an AWS up adds to what the same up has made, from nothing.
LEMMA CleanCreate ==
  ASSUME TypeInv, PhaseInv, UpInv, CleanInv, ~tainted, cloud = "aws", MakesOne
  PROVE  /\ live' = run.ledger \cup {Made}
         /\ Key \in live'
         /\ run'.ledger = run.ledger \cup {Made}
         /\ \A x, y \in live' : x.kind = y.kind => x = y
<1>1. /\ run.cmd = "up" /\ run.step \in 1 .. 4 /\ Made = Thing(Plan[run.step])
      /\ Plan[1] = "key" /\ Thing("key") = Key
  BY PlanParts DEF MakesOne, Kind, Thing, Key
<1>2. /\ run.rules = {} /\ run.ledger = {Thing(Plan[i]) : i \in 1 .. run.step - 1}
      /\ run.ledger \subseteq live
  BY <1>1 DEF UpInv, MakesOne
<1>3. run.ledger = live
  <2>1. CASE run.step = 1
    <3>1. OfKind(live, "key") = {}
      BY <1>1, <2>1 DEF MakesOne, Collides, Kind
    <3>2. live = {}
      BY <3>1 DEF CleanInv, OfKind, Key
    <3> QED BY <1>2, <3>2
  <2>2. CASE run.step # 1
    <3>1. 1 \in 1 .. run.step - 1
      BY <1>1, <2>2
    <3>2. run.ledger # {}
      BY <1>2, <3>1
    <3> QED BY <1>1, <1>2, <3>2 DEF CleanInv
  <2> QED BY <2>1, <2>2
<1>4. Key \in live'
  <2>1. CASE run.step = 1
    BY <1>1, <2>1 DEF MakesOne
  <2>2. CASE run.step # 1
    <3>1. 1 \in 1 .. run.step - 1
      BY <1>1, <2>2
    <3>2. Key \in run.ledger
      BY <1>1, <1>2, <3>1
    <3> QED BY <1>3, <3>2 DEF MakesOne
  <2> QED BY <2>1, <2>2
<1>5. run'.rules = {} /\ run'.ledger = run.ledger \cup {Made}
  <2>1. run'.rules = {}
    BY <1>1, <1>2, PlanParts DEF MakesOne, Kind
  <2> QED BY <1>2, <2>1 DEF MakesOne
<1>6. \A x \in live' : x = Thing(x.kind)
  <2>1. \A k : Thing(k).kind = k
    BY DEF Thing
  <2> QED BY <1>1, <1>2, <1>3, <2>1 DEF MakesOne
<1> QED BY <1>3, <1>4, <1>5, <1>6 DEF MakesOne

\* What a persist writes names all there is, but a stray rule.
LEMMA CleanPersist ==
  ASSUME TypeInv, PhaseInv, UpInv, KindInv, AdoptInv, CleanInv, ~tainted,
         run.pc = "persist"
  PROVE  live \subseteq run.ledger
<1>1. CASE run.cmd = "adopt"
  <2>1. run.ledger \subseteq live /\ \A x \in live : OfKind(run.ledger, x.kind) # {}
    BY <1>1 DEF AdoptInv, CleanInv
  <2> QED BY <2>1 DEF CleanInv, OfKind
<1>2. CASE run.cmd = "up"
  <2>1. run.ledger = {Thing(Plan[i]) : i \in 1 .. Len(Plan)}
    BY <1>2, UpIsWhole
  <2>2. CASE cloud = "aws"
    <3>1. Thing(Plan[1]) \in run.ledger
      BY <2>1, <2>2, PlanParts
    <3> QED BY <1>2, <2>2, <3>1 DEF CleanInv
  <2>3. CASE cloud = "gcp"
    <3>1. ASSUME NEW x \in live PROVE x = Thing(x.kind) /\ x.kind \in PlanKinds
      BY <2>3 DEF TypeInv, TypeOK, Resources, KindInv, Thing
    <3>2. \A k \in PlanKinds : Thing(k) \in run.ledger
      BY <2>1 DEF PlanKinds
    <3> QED BY <3>1, <3>2
  <2> QED BY <2>2, <2>3, PlanParts
<1> QED BY <1>1, <1>2 DEF PhaseInv

\* Steps keep what exists in the record or in the ledger of the up under way.
LEMMA NextClean ==
  /\ TypeInv /\ ForgetInv /\ PhaseInv /\ UpInv /\ KindInv /\ AdoptInv /\ CleanInv
  /\ [Next]_vars
  => CleanInv'
<1> SUFFICES ASSUME TypeInv, ForgetInv, PhaseInv, UpInv, KindInv, AdoptInv, CleanInv,
                    [Next]_vars
             PROVE  CleanInv'
  OBVIOUS
<1>1. CASE UNCHANGED vars
  BY <1>1 DEF vars, CleanInv, Stray
<1>2. CASE Next
  <2>. SUFFICES ASSUME ~tainted'
                PROVE  CleanInv'
    BY DEF CleanInv
  <2>1. Effect /\ UNCHANGED <<cloud, ports>>
    BY <1>2, Effects
  <2>2. ~tainted
    BY <2>1 DEF Effect, UpBegins, MakesOne, TurnsBack, GoesOn, OtherBegins, DeletesOne,
                EndsWell, EndsBadly
  <2>3. \A x : Stray(x)' <=> Stray(x)
    BY <2>1 DEF Stray
  <2>4. UpInv' /\ KindInv' /\ TypeInv'
    BY NextUp, NextKind, NextType
  <2>5. CASE UpBegins
    BY <2>1, <2>2, <2>3, <2>5 DEF UpBegins, CleanInv, PhaseInv
  <2>6. CASE MakesOne
    <3>1. /\ live' = live \cup {Made} /\ UNCHANGED record
          /\ run'.ledger \cup run'.rules = run.ledger \cup run.rules \cup {Made}
          /\ run'.cmd = "up" /\ run.cmd = "up"
      BY <2>6, PlanParts DEF MakesOne
    <3>2. \A x \in run.rules \cup run'.rules : Stray(x)
      BY <2>1, <2>4 DEF UpInv, Stray
    <3>3. \A x \in live' : x \in record.res \/ x \in run'.ledger \/ Stray(x)
      BY <2>2, <3>1, <3>2 DEF CleanInv
    <3>4. CASE cloud = "aws"
      <4>1. /\ live' = run.ledger \cup {Made} /\ Key \in live'
            /\ run'.ledger = run.ledger \cup {Made}
            /\ \A x, y \in live' : x.kind = y.kind => x = y
        BY <2>2, <2>6, <3>4, CleanCreate
      <4> QED BY <2>1, <2>3, <3>1, <3>3, <4>1 DEF CleanInv
    <3>5. CASE cloud # "aws"
      <4>1. \A x, y \in live' : x.kind = y.kind => x = y
        <5>1. cloud' = "gcp"
          BY <2>1, <3>5 DEF TypeInv, TypeOK
        <5>2. \A x \in live' : x = [kind |-> x.kind, id |-> 0]
          BY <2>4, <5>1 DEF TypeInv, TypeOK, Resources, KindInv
        <5> QED BY <5>2
      <4> QED BY <2>1, <2>3, <3>1, <3>3, <3>5, <4>1 DEF CleanInv
    <3> QED BY <3>4, <3>5
  <2>7. CASE TurnsBack
    <3>1. run.cmd = "up" /\ UNCHANGED live
      BY <2>7 DEF TurnsBack, TypeInv, Creating
    <3> QED BY <2>1, <2>2, <2>3, <2>7, <3>1 DEF TurnsBack, CleanInv
  <2>8. CASE GoesOn
    <3>1. run.cmd # "adopt"
      BY <2>8 DEF GoesOn, PhaseInv, TypeInv, Creating
    <3> QED BY <2>1, <2>2, <2>3, <2>8, <3>1 DEF GoesOn, CleanInv
  <2>9. CASE OtherBegins
    <3>1. \A x \in live : x \in record.res \/ Stray(x)
      BY <2>2, <2>9 DEF OtherBegins, CleanInv, PhaseInv
    <3>2. run'.cmd = "adopt" => ~run'.faulted
      BY <2>9 DEF OtherBegins
    <3> QED BY <2>1, <2>2, <2>3, <2>9, <3>1, <3>2 DEF OtherBegins, CleanInv
  <2>10. CASE DeletesOne
    <3>1. PICK x \in Due : live' = live \ {x} /\ run'.ledger = run.ledger \ {x}
      BY <2>10 DEF DeletesOne
    <3>2. /\ \A y, z \in live' : y.kind = z.kind => y = z
          /\ cloud = "aws" => (live' # {} => Key \in live')
      BY <2>2, <2>10, <3>1, CleanDelete DEF DeletesOne
    <3>3. run'.cmd # "adopt" /\ run'.cmd = run.cmd /\ UNCHANGED record
      BY <2>10 DEF DeletesOne, PhaseInv
    <3>4. \A y \in live' : y \in record.res \/ (run.cmd = "up" /\ y \in run'.ledger) \/ Stray(y)
      BY <2>2, <3>1 DEF CleanInv
    <3> QED BY <2>1, <2>2, <2>3, <3>1, <3>2, <3>3, <3>4 DEF CleanInv
  <2>11. CASE EndsWell
    <3>1. run'.cmd = "none" /\ run'.ledger = {} /\ live' = live
      BY <2>11 DEF EndsWell, Idle
    <3>2. \A x \in live : x \in record'.res \/ Stray(x)
      <4>1. CASE run.pc = "persist"
        BY <2>2, <2>11, <4>1, CleanPersist DEF EndsWell
      <4>2. CASE run.pc = "forget"
        BY <2>2, <2>11, <4>2 DEF EndsWell, ForgetInv, CleanInv, PhaseInv
      <4> QED BY <2>11, <4>1, <4>2 DEF EndsWell
    <3> QED BY <2>1, <2>2, <2>3, <3>1, <3>2 DEF CleanInv
  <2>12. CASE EndsBadly
    <3>1. run'.cmd = "none" /\ run'.ledger = {} /\ UNCHANGED record
      BY <2>12 DEF EndsBadly, Idle
    <3>2. run.cmd # "up" \/ (run.pc = "delete" /\ run.ledger = {} /\ live' = live)
      BY <2>12 DEF EndsBadly
    <3>3. /\ live' \subseteq live
          /\ \A y, z \in live' : y.kind = z.kind => y = z
          /\ cloud = "aws" => (live' # {} => Key \in live')
      BY <2>2, <2>12, CleanDelete DEF EndsBadly, CleanInv
    <3>4. \A x \in live : x \in record.res \/ Stray(x)
      BY <2>2, <3>2 DEF CleanInv
    <3> QED BY <2>1, <2>2, <2>3, <3>1, <3>3, <3>4 DEF CleanInv
  <2> QED BY <2>1, <2>5, <2>6, <2>7, <2>8, <2>9, <2>10, <2>11, <2>12 DEF Effect
<1> QED BY <1>1, <1>2

\* Before the first command.
LEMMA InitFate == Init => FateInv
<1> SUFFICES ASSUME Init PROVE FateInv
  OBVIOUS
<1>1. TypeInv
  BY InitType
<1>2. ForgetInv /\ SpareInv /\ PhaseInv /\ UpInv /\ KindInv
  BY DEF Init, Idle, ForgetInv, SpareInv, PhaseInv, UpInv, KindInv
<1>3. NameInv /\ AdoptInv /\ DestroyResumes /\ CleanInv
  BY DEF Init, Idle, NameInv, Whole, AdoptInv, AdoptTracksAll, DestroyResumes, CleanInv
<1> QED BY <1>1, <1>2, <1>3 DEF FateInv

\* The invariants, in every reachable state.
LEMMA FatesHold == Spec => []FateInv
<1>1. FateInv /\ [Next]_vars => FateInv'
  BY NextType, NextForget, NextSpare, NextPhase, NextUp, NextKind, NextName, NextAdopt,
     NextResumes, NextClean
  DEF FateInv
<1> QED BY <1>1, InitFate, PTL DEF Spec

\* What a failed up leaves behind, unless it crashed, lost an answer or failed in
\* its rollback, is at most the ssh rule of a GCP deployment with open ports.
THEOREM RollbackIsClean == Spec => []RollbackLeavesSshRuleOnly
<1>1. FateInv => RollbackLeavesSshRuleOnly
  BY DEF FateInv, CleanInv, PhaseInv, Stray, RollbackLeavesSshRuleOnly
<1> QED BY <1>1, FatesHold, PTL

\* A destroy can always be run again: it fails of a fault of its own only, never of
\* what earlier commands have left, and no group is in the way of its instance.
THEOREM DestroyCanResume == Spec => []DestroyResumes
<1>1. FateInv => DestroyResumes
  BY DEF FateInv
<1> QED BY <1>1, FatesHold, PTL

\* An adopt without a fault leaves a record of all there is.
THEOREM AdoptIsComplete == Spec => []AdoptTracksAll
<1>1. FateInv => AdoptTracksAll
  BY DEF FateInv, AdoptInv
<1> QED BY <1>1, FatesHold, PTL

===============================================================================
