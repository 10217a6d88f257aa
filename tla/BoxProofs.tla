------------------------------- MODULE BoxProofs -------------------------------
(***************************************************************************)
(* Proofs about Box, for any number of requests, sessions, rebuilds and    *)
(* commands, any rules and addresses, and any scenes: who works on the box *)
(* together.  What the dashboard does is proved about in AgentRoutesProofs;*)
(* here are the commands and the firewall, first by themselves, then the   *)
(* rebuilds, that nobody disturbs the others, what is left of the plan of  *)
(* a reconciliation, the pages, and the types of the whole box.            *)
(***************************************************************************)
EXTENDS Box, AgentRoutesProofs

-------------------------------------------------------------------------------
(* The firewall: an undisturbed reconciliation ends with the declared rules, *)
(* and no call of one locks the operator out.                                *)

NetworkNext == BeginAny \/ NetworkStep

-------------------------------------------------------------------------------
(* Invariants *)

\* The phases of a reconciliation are its provider's, and past the address the
\* rules asked for have one for SSH.
PhasesOf(v) ==
  /\ v.pc \in {"list", "add", "revoke"} => cloud = "aws"
  /\ v.pc \in {"ssh", "ports"} => cloud = "gcp"
  /\ v.pc \notin {"idle", "detect"} => SshRules(v.want) # {}
  /\ v.pc \in {"add", "revoke"} => v.revoke \cap v.want = {}

\* While nobody else changes the rules s, those in force and the calls still to
\* make add up to the rules asked for.
BalanceOf(v, s) ==
  v.alone =>
    /\ v.pc = "add" => (s \ v.revoke) \cup v.add = v.want
    /\ v.pc = "revoke" => s \ v.revoke = v.want
    /\ v.pc = "ports" => SshRules(s) = SshRules(v.want)
    /\ v.pc \in {"ssh", "ports"} /\ v.told => (v.named <=> PortRules(s) # {})

\* What is asked for is in force before anything is revoked.
CoveredBy(v, s) ==
  /\ v.pc = "add" => v.want \subseteq s \cup v.add
  /\ v.pc = "revoke" => v.want \subseteq s

NetPhases == \A c \in Cmds : PhasesOf(cmd[c])

NetBalance == \A c \in Cmds : BalanceOf(cmd[c], rules)

\* Of commands that never overlapped one is under way, and rules made by hand
\* beside it only add to what it has.
NetCalm ==
  net.calm =>
    /\ \A c, d \in Cmds : cmd[c].pc # "idle" /\ cmd[d].pc # "idle" => c = d
    /\ \A c \in Cmds : CoveredBy(cmd[c], rules)

NetInv == NetworkTypeOK /\ NetPhases /\ NetBalance /\ NetCalm

-------------------------------------------------------------------------------
(* Rules *)

\* The rules of SSH and those of the ports are all the rules, and what is asked
\* for, once the address is known, has a rule for SSH.
LEMMA RuleParts ==
  /\ \A s : SshRules(s) \cup PortRules(s) = s
  /\ \A s, t : SshRules(PortRules(s) \cup SshRules(t)) = SshRules(t)
  /\ \A s, t : PortRules(PortRules(s) \cup SshRules(t)) = PortRules(s)
  /\ \A s, t : SshRules(SshRules(s) \cup PortRules(t)) = SshRules(s)
BY DEF SshRules, PortRules

\* The rules asked for are rules.
LEMMA WantedRules ==
  /\ \A c \in Config : DeclaredRules(c) \in SUBSET Rule
  /\ \A s \in SUBSET Rule, a \in Addresses :
       Desired(s, a) \in SUBSET Rule /\ SshRules(Desired(s, a)) # {}
<1>1. \A a \in Addresses \cup {Anyone} : Ssh(a) \in Rule /\ Ssh(a).port = SshPort
  BY DEF Ssh, Rule
<1>2. \A p \in Ports \cup WebPorts : [port |-> p, cidr |-> Anyone] \in Rule
  BY DEF Rule
<1>3. \A c \in Config : AllInbound(c) \subseteq Ports \cup WebPorts
  BY DEF Config, AllInbound
<1>4. \A c \in Config : Open(AllInbound(c)) \subseteq Rule
  BY <1>2, <1>3 DEF Open
<1>5. \A c \in Config : DeclaredRules(c) \in SUBSET Rule
  BY <1>1, <1>4 DEF DeclaredRules
<1>6. ASSUME NEW s \in SUBSET Rule, NEW a \in Addresses
      PROVE  Desired(s, a) \in SUBSET Rule /\ SshRules(Desired(s, a)) # {}
  BY <1>1 DEF Desired, SshRules
<1>. QED
  BY <1>5, <1>6

\* A command that admits an address does so by its SSH rules.
LEMMA AdmittedBySsh ==
  \A s, a : Admits(s, a) <=> Admits(SshRules(s), a)
BY DEF Admits, SshRules, Ssh

\* A command's own step replaces its state, and another that is under way stays
\* alone exactly if the rules are the same.
LEMMA StepOfCmd ==
  ASSUME cmd \in [Cmds -> Cmd], NEW c \in Cmds, NEW new \in Cmd, Step(c, new)
  PROVE  /\ cmd' \in [Cmds -> Cmd]
         /\ cmd'[c] = new
         /\ \A k \in Cmds : k # c =>
              /\ cmd'[k].pc = cmd[k].pc /\ cmd'[k].named = cmd[k].named
              /\ cmd'[k].want = cmd[k].want /\ cmd'[k].add = cmd[k].add
              /\ cmd'[k].revoke = cmd[k].revoke /\ cmd'[k].told = cmd[k].told
              /\ cmd'[k].settled = cmd[k].settled
              /\ cmd'[k].alone => /\ cmd[k].alone
                                  /\ rules' = rules \/ cmd[k].pc = "idle"
<1> DEFINE other(k) == [cmd[k] EXCEPT !.alone = @ /\ (rules' = rules \/ cmd[k].pc = "idle")]
<1>1. \A k \in Cmds : other(k) \in Cmd
  BY DEF Cmd
<1>2. \A k \in Cmds : cmd'[k] = IF k = c THEN new ELSE other(k)
  BY DEF Step
<1>3. cmd' \in [Cmds -> Cmd]
  BY <1>1 DEF Step
<1>4. \A k \in Cmds : cmd[k].alone \in BOOLEAN
  BY DEF Cmd
<1>. QED
  BY <1>2, <1>3, <1>4 DEF Cmd

\* A step of one command keeps the invariants of the others: it changes nothing of
\* them, or they are no longer alone.
LEMMA OwnStep ==
  ASSUME NetInv, NEW c \in Cmds, NEW new \in Cmd, Step(c, new), cloud' = cloud,
         PhasesOf(new), BalanceOf(new, rules'),
         net'.calm => /\ net.calm /\ CoveredBy(new, rules')
                      /\ \A k \in Cmds : k # c => cmd[k].pc = "idle"
  PROVE  NetPhases' /\ NetBalance' /\ NetCalm'
<1> USE DEF NetInv, NetworkTypeOK
<1>1. /\ cmd'[c] = new
      /\ \A k \in Cmds : k # c =>
           /\ cmd'[k].pc = cmd[k].pc /\ cmd'[k].named = cmd[k].named
           /\ cmd'[k].want = cmd[k].want /\ cmd'[k].add = cmd[k].add
           /\ cmd'[k].revoke = cmd[k].revoke /\ cmd'[k].told = cmd[k].told
           /\ cmd'[k].alone => cmd[k].alone /\ (rules' = rules \/ cmd[k].pc = "idle")
  BY StepOfCmd
<1>2. NetPhases'
  BY <1>1 DEF NetPhases, PhasesOf
<1>3. NetBalance'
  BY <1>1 DEF NetBalance, BalanceOf
<1>4. NetCalm'
  BY <1>1 DEF NetCalm, CoveredBy
<1>. QED
  BY <1>2, <1>3, <1>4

\* At first the rules are those of an up and no command is under way.
LEMMA NetInvInit == NetworkInit => NetInv
<1> SUFFICES ASSUME NetworkInit
             PROVE  NetInv
  OBVIOUS
<1>1. IdleCmd \in Cmd
  BY DEF IdleCmd, Cmd
<1>2. Ssh(address) \in Rule /\ Open(conf.ports) \subseteq Rule
  BY DEF NetworkInit, Ssh, Open, Rule, Config
<1>3. NetworkTypeOK
  <2>1. net \in [changes : 0..MaxChanges, faults : 0..MaxFaults, calm : BOOLEAN]
    <3>1. PICK n \in 0..MaxChanges, m \in {MaxFaults}, b \in {TRUE} :
            net = [changes |-> n, faults |-> m, calm |-> b]
      BY DEF NetworkInit
    <3>2. MaxFaults \in 0..MaxFaults
      BY NetworkAssumption
    <3>. QED
      BY <3>1, <3>2
  <2>2. named \in BOOLEAN
    BY DEF NetworkInit
  <2>. QED
    BY <1>1, <1>2, <2>1, <2>2 DEF NetworkInit, NetworkTypeOK, Config
<1>4. \A c \in Cmds : cmd[c].pc = "idle"
  BY DEF NetworkInit, IdleCmd
<1>. QED
  BY <1>3, <1>4 DEF NetInv, NetPhases, NetBalance, NetCalm, PhasesOf, BalanceOf, CoveredBy

\* Every step of a command or of the world keeps the invariants.
LEMMA NetInvStep == NetInv /\ [NetworkNext]_netVars => NetInv'
<1> SUFFICES ASSUME NetInv, [NetworkNext]_netVars
             PROVE  NetInv'
  OBVIOUS
<1> USE DEF NetInv, NetworkTypeOK, World, At
<1>i. IdleCmd \in Cmd /\ PhasesOf(IdleCmd) /\ \A s : BalanceOf(IdleCmd, s) /\ CoveredBy(IdleCmd, s)
  BY DEF IdleCmd, Cmd, PhasesOf, BalanceOf, CoveredBy
<1>c. \A c \in Cmds : net.calm /\ cmd[c].pc # "idle" =>
        \A k \in Cmds : k # c => cmd[k].pc = "idle"
  BY DEF NetCalm
<1>1. ASSUME NEW c \in Cmds, BeginNetwork(c)
      PROVE  NetInv'
  <2> DEFINE new == [IdleCmd EXCEPT !.pc = "detect", !.named = named,
                                    !.want = DeclaredRules(conf)]
  <2>1. new \in Cmd /\ new.pc = "detect"
    BY <1>i, WantedRules DEF Cmd, IdleCmd
  <2>2. PhasesOf(new) /\ BalanceOf(new, rules') /\ CoveredBy(new, rules')
    BY <2>1 DEF PhasesOf, BalanceOf, CoveredBy
  <2>3. Step(c, new) /\ rules' = rules /\ UNCHANGED <<cloud, conf, address, named>>
    BY <1>1 DEF BeginNetwork
  <2>4. net'.calm => net.calm /\ \A k \in Cmds : cmd[k].pc = "idle"
    BY <1>1 DEF BeginNetwork
  <2>5. net' \in [changes : 0..MaxChanges, faults : 0..MaxFaults, calm : BOOLEAN]
    BY <1>1 DEF BeginNetwork
  <2> HIDE DEF new
  <2>6. NetPhases' /\ NetBalance' /\ NetCalm'
    BY <2>1, <2>2, <2>3, <2>4, OwnStep
  <2>7. cmd' \in [Cmds -> Cmd]
    BY <2>1, <2>3, StepOfCmd
  <2>. QED
    BY <2>3, <2>5, <2>6, <2>7
<1>2. ASSUME NEW c \in Cmds, Detect(c)
      PROVE  NetInv'
  <2> DEFINE want == Desired(cmd[c].want, address)
             new == [cmd[c] EXCEPT !.pc = IF cloud = "aws" THEN "list" ELSE "ssh",
                                   !.want = want,
                                   !.told = RecordTrue(cmd[c].named),
                                   !.settled = rules = want]
  <2>1. want \in SUBSET Rule /\ SshRules(want) # {}
    BY WantedRules DEF Cmd
  <2>2. new \in Cmd
    <3>1. /\ RecordTrue(cmd[c].named) \in BOOLEAN
          /\ (rules = want) \in BOOLEAN
      BY DEF RecordTrue
    <3>2. cmd[c] \in Cmd
      OBVIOUS
    <3> DEFINE told == RecordTrue(cmd[c].named)
               settled == rules = want
    <3>3. /\ told \in BOOLEAN /\ settled \in BOOLEAN
          /\ new = [cmd[c] EXCEPT !.pc = IF cloud = "aws" THEN "list" ELSE "ssh",
                                  !.want = want, !.told = told, !.settled = settled]
      BY <3>1
    <3> HIDE DEF told, settled, want, new
    <3>. QED
      BY <2>1, <3>2, <3>3 DEF Cmd
  <2>3. /\ new.pc = IF cloud = "aws" THEN "list" ELSE "ssh"
        /\ new.want = want /\ new.told = RecordTrue(cmd[c].named)
        /\ new.named = cmd[c].named
    BY DEF Cmd
  <2>4. PhasesOf(new) /\ BalanceOf(new, rules) /\ CoveredBy(new, rules)
    <3>1. new.pc = "ssh" /\ new.told => (new.named <=> PortRules(rules) # {})
      <4>1. new.pc = "ssh" => cloud = "gcp"
        BY <2>3 DEF Clouds
      <4>2. new.told => RecordTrue(new.named)
        BY <2>3
      <4>. QED
        BY <4>1, <4>2 DEF RecordTrue
    <3>. QED
      BY <2>1, <2>3, <3>1 DEF PhasesOf, BalanceOf, CoveredBy, Clouds
  <2>5. Step(c, new) /\ rules' = rules /\ UNCHANGED World
    BY <1>2 DEF Detect
  <2> HIDE DEF new, want
  <2>6. NetPhases' /\ NetBalance' /\ NetCalm'
    BY <1>2, <1>c, <2>2, <2>4, <2>5, OwnStep DEF Detect
  <2>. QED
    BY <2>2, <2>5, <2>6, StepOfCmd
<1>3. ASSUME NEW c \in Cmds, ListRules(c)
      PROVE  NetInv'
  <2> DEFINE new == [cmd[c] EXCEPT !.pc = "add", !.add = cmd[c].want \ rules,
                                   !.revoke = ToRevoke(cmd[c].want)]
  <2>1. new \in Cmd
    BY DEF Cmd, ToRevoke
  <2>2. /\ new.pc = "add" /\ new.add = cmd[c].want \ rules
        /\ new.revoke = rules \ cmd[c].want /\ new.want = cmd[c].want
    BY DEF Cmd, ToRevoke
  <2>3. PhasesOf(new)
    BY <1>3, <2>2 DEF ListRules, PhasesOf, NetPhases
  <2>4. BalanceOf(new, rules) /\ CoveredBy(new, rules)
    BY <2>2 DEF BalanceOf, CoveredBy
  <2>5. Step(c, new) /\ rules' = rules /\ UNCHANGED World
    BY <1>3 DEF ListRules
  <2> HIDE DEF new
  <2>6. NetPhases' /\ NetBalance' /\ NetCalm'
    BY <1>3, <1>c, <2>1, <2>3, <2>4, <2>5, OwnStep DEF ListRules
  <2>. QED
    BY <2>1, <2>5, <2>6, StepOfCmd
<1>4. ASSUME NEW c \in Cmds, Add(c)
      PROVE  NetInv'
  <2>1. PICK r \in cmd[c].add :
          /\ rules' = rules \cup {r}
          /\ IF r \in rules THEN End(c) ELSE Step(c, [cmd[c] EXCEPT !.add = @ \ {r}])
    BY <1>4 DEF Add
  <2>2. rules' \in SUBSET Rule /\ cmd[c].pc = "add" /\ UNCHANGED World
    BY <1>4, <2>1 DEF Add, Cmd
  <2>3. CASE r \in rules
    BY <2>1, <2>2, <2>3, <1>i, <1>c, OwnStep, StepOfCmd DEF End
  <2>4. CASE r \notin rules
    <3> DEFINE new == [cmd[c] EXCEPT !.add = @ \ {r}]
    <3>1. new \in Cmd
      BY DEF Cmd
    <3>2. /\ new.pc = "add" /\ new.add = cmd[c].add \ {r} /\ new.want = cmd[c].want
          /\ new.revoke = cmd[c].revoke /\ new.alone = cmd[c].alone
      BY <2>2 DEF Cmd
    <3>3. PhasesOf(new)
      BY <2>2, <3>2 DEF PhasesOf, NetPhases
    <3>4. BalanceOf(new, rules')
      BY <2>1, <2>2, <2>4, <3>2 DEF BalanceOf, NetBalance, PhasesOf, NetPhases
    <3>5. net.calm => CoveredBy(new, rules')
      BY <2>1, <2>2, <3>2 DEF CoveredBy, NetCalm
    <3>6. Step(c, new)
      BY <2>1, <2>4
    <3> HIDE DEF new
    <3>. QED
      BY <2>2, <3>1, <3>3, <3>4, <3>5, <3>6, <1>c, OwnStep, StepOfCmd
  <2>. QED
    BY <2>3, <2>4
<1>5. ASSUME NEW c \in Cmds, Added(c)
      PROVE  NetInv'
  <2> DEFINE new == [cmd[c] EXCEPT !.pc = "revoke"]
  <2>1. /\ cmd[c].pc = "add" /\ cmd[c].add = {} /\ rules' = rules /\ UNCHANGED World
        /\ Step(c, new)
    BY <1>5 DEF Added
  <2>2. /\ new \in Cmd /\ new.pc = "revoke" /\ new.want = cmd[c].want
        /\ new.revoke = cmd[c].revoke /\ new.alone = cmd[c].alone
    BY DEF Cmd
  <2>3. PhasesOf(new) /\ BalanceOf(new, rules) /\ (net.calm => CoveredBy(new, rules))
    BY <2>1, <2>2 DEF PhasesOf, NetPhases, BalanceOf, NetBalance, CoveredBy, NetCalm
  <2> HIDE DEF new
  <2>. QED
    BY <2>1, <2>2, <2>3, <1>c, OwnStep, StepOfCmd
<1>6. ASSUME NEW c \in Cmds, Revoke(c)
      PROVE  NetInv'
  <2>1. PICK r \in cmd[c].revoke :
          /\ rules' = rules \ {r}
          /\ Step(c, [cmd[c] EXCEPT !.revoke = @ \ {r}])
    BY <1>6 DEF Revoke
  <2> DEFINE new == [cmd[c] EXCEPT !.revoke = @ \ {r}]
  <2>2. cmd[c].pc = "revoke" /\ rules' \in SUBSET Rule /\ UNCHANGED World
    BY <1>6, <2>1 DEF Revoke
  <2>3. /\ new \in Cmd /\ new.pc = "revoke" /\ new.want = cmd[c].want
        /\ new.revoke = cmd[c].revoke \ {r} /\ new.alone = cmd[c].alone
    BY <2>2 DEF Cmd
  <2>4. cmd[c].revoke \cap cmd[c].want = {} /\ PhasesOf(cmd[c])
    BY <2>2 DEF PhasesOf, NetPhases
  <2>5. PhasesOf(new)
    BY <2>2, <2>3, <2>4 DEF PhasesOf
  <2>6. BalanceOf(new, rules')
    BY <2>1, <2>2, <2>3, <2>4 DEF BalanceOf, NetBalance
  <2>7. net.calm => CoveredBy(new, rules')
    BY <2>1, <2>2, <2>3, <2>4 DEF CoveredBy, NetCalm
  <2> HIDE DEF new
  <2>. QED
    BY <2>1, <2>2, <2>3, <2>5, <2>6, <2>7, <1>c, OwnStep, StepOfCmd DEF new
<1>7. ASSUME NEW c \in Cmds, PatchSsh(c)
      PROVE  NetInv'
  <2> DEFINE new == [cmd[c] EXCEPT !.pc = "ports"]
  <2>1. /\ cmd[c].pc = "ssh" /\ UNCHANGED World /\ Step(c, new)
        /\ rules' = PortRules(rules) \cup SshRules(cmd[c].want)
    BY <1>7 DEF PatchSsh
  <2>2. rules' \in SUBSET Rule
    BY <2>1 DEF PortRules, SshRules, Cmd
  <2>3. /\ new \in Cmd /\ new.pc = "ports" /\ new.want = cmd[c].want
        /\ new.named = cmd[c].named /\ new.told = cmd[c].told /\ new.alone = cmd[c].alone
    BY DEF Cmd
  <2>4. PhasesOf(new) /\ CoveredBy(new, rules')
    BY <2>1, <2>3 DEF PhasesOf, NetPhases, CoveredBy
  <2>5. BalanceOf(new, rules')
    <3>1. SshRules(rules') = SshRules(cmd[c].want) /\ PortRules(rules') = PortRules(rules)
      BY <2>1, RuleParts
    <3>2. BalanceOf(cmd[c], rules)
      BY DEF NetBalance
    <3> HIDE DEF new
    <3>. QED
      BY <2>1, <2>3, <3>1, <3>2 DEF BalanceOf
  <2> HIDE DEF new
  <2>. QED
    BY <2>1, <2>2, <2>3, <2>4, <2>5, <1>c, OwnStep, StepOfCmd
<1>8. ASSUME NEW c \in Cmds, Reconciled(c)
      PROVE  NetInv'
  <2>1. rules' \in SUBSET Rule
    BY <1>8 DEF Reconciled, PortsAfter, PortRules, SshRules, Cmd
  <2>2. cmd[c].pc # "idle" /\ Step(c, IdleCmd) /\ UNCHANGED World
    BY <1>8 DEF Reconciled, End
  <2>. QED
    BY <2>1, <2>2, <1>i, <1>c, OwnStep, StepOfCmd
<1>9. ASSUME NEW c \in Cmds, CallRefused(c)
      PROVE  NetInv'
  <2>1. cmd[c].pc # "idle" /\ rules' = rules /\ Step(c, IdleCmd) /\ UNCHANGED World
    BY <1>9 DEF CallRefused, End
  <2>. QED
    BY <2>1, <1>i, <1>c, OwnStep, StepOfCmd
<1>10. ASSUME NEW c \in Cmds, FailNetwork(c)
       PROVE  NetInv'
  <2>1. rules' \in SUBSET Rule
    BY <1>10 DEF FailNetwork, CallEffect, PortsAfter, PortRules, SshRules, Cmd
  <2>2. /\ cmd[c].pc # "idle" /\ Step(c, IdleCmd)
        /\ UNCHANGED <<cloud, conf, address, named>> /\ net' = [net EXCEPT !.faults = @ - 1]
        /\ net.faults > 0
    BY <1>10 DEF FailNetwork, End
  <2>3. /\ net' \in [changes : 0..MaxChanges, faults : 0..MaxFaults, calm : BOOLEAN]
        /\ net'.calm = net.calm
    BY <2>2, NetworkAssumption
  <2>. QED
    BY <2>1, <2>2, <2>3, <1>i, <1>c, OwnStep, StepOfCmd
<1>s. ASSUME Spend
      PROVE  /\ net' \in [changes : 0..MaxChanges, faults : 0..MaxFaults, calm : BOOLEAN]
             /\ net'.calm = net.calm
  BY <1>s, NetworkAssumption DEF Spend
<1>11. CASE EditToml
  BY <1>11, <1>s DEF EditToml, NetPhases, NetBalance, NetCalm, PhasesOf, BalanceOf, CoveredBy
<1>12. CASE Move
  BY <1>12, <1>s DEF Move, NetPhases, NetBalance, NetCalm, PhasesOf, BalanceOf, CoveredBy
<1>13. CASE HandMade
  <2>1. PICK r \in ByHand : rules' = rules \cup {r}
    BY <1>13 DEF HandMade
  <2>2. /\ cmd' = [k \in Cmds |-> [cmd[k] EXCEPT !.alone = @ /\ At(k, "idle")]]
        /\ UNCHANGED <<cloud, conf, address, named>> /\ Spend
    BY <1>13 DEF HandMade
  <2>3. rules' \in SUBSET Rule
    BY <2>1, ByHandAssumption
  <2>4. \A k \in Cmds : cmd[k].alone \in BOOLEAN
    BY DEF Cmd
  <2>5. cmd' \in [Cmds -> Cmd]
    <3>1. ASSUME NEW k \in Cmds
          PROVE  [cmd[k] EXCEPT !.alone = @ /\ At(k, "idle")] \in Cmd
      <4> DEFINE alone == cmd[k].alone /\ At(k, "idle")
      <4>1. alone \in BOOLEAN
        BY <2>4
      <4>2. cmd[k] \in Cmd
        OBVIOUS
      <4>3. [cmd[k] EXCEPT !.alone = @ /\ At(k, "idle")] = [cmd[k] EXCEPT !.alone = alone]
        OBVIOUS
      <4> HIDE DEF alone
      <4>. QED
        BY <4>1, <4>2, <4>3 DEF Cmd
    <3>. QED
      BY <2>2, <3>1
  <2>6. \A k \in Cmds :
          /\ cmd'[k].pc = cmd[k].pc /\ cmd'[k].named = cmd[k].named
          /\ cmd'[k].want = cmd[k].want /\ cmd'[k].add = cmd[k].add
          /\ cmd'[k].revoke = cmd[k].revoke /\ cmd'[k].told = cmd[k].told
          /\ cmd'[k].alone => cmd[k].pc = "idle"
    BY <2>2, <2>4 DEF Cmd
  <2>7. NetPhases' /\ NetBalance'
    <3>1. \A k \in Cmds : PhasesOf(cmd[k]) => PhasesOf(cmd[k])'
      BY <2>2, <2>6 DEF PhasesOf
    <3>2. \A k \in Cmds : BalanceOf(cmd[k], rules)'
      BY <2>6 DEF BalanceOf
    <3>. QED
      BY <3>1, <3>2 DEF NetPhases, NetBalance
  <2>8. NetCalm'
    <3>1. net'.calm = net.calm
      BY <1>s, <2>2
    <3>2. \A k \in Cmds : CoveredBy(cmd[k], rules) => CoveredBy(cmd'[k], rules')
      BY <2>1, <2>6 DEF CoveredBy
    <3>. QED
      BY <2>6, <3>1, <3>2 DEF NetCalm
  <2>. QED
    BY <1>s, <2>2, <2>3, <2>5, <2>7, <2>8
<1>14. CASE AdoptRules
  BY <1>14, <1>s DEF AdoptRules, NetPhases, NetBalance, NetCalm, PhasesOf, BalanceOf, CoveredBy
<1>15. CASE UNCHANGED netVars
  BY <1>15 DEF netVars, NetPhases, NetBalance, NetCalm, PhasesOf, BalanceOf, CoveredBy
<1>. QED
  BY <1>1, <1>2, <1>3, <1>4, <1>5, <1>6, <1>7, <1>8, <1>9, <1>10, <1>11, <1>12, <1>13,
     <1>14, <1>15 DEF NetworkNext, BeginAny, BeginSsh, NetworkStep

-------------------------------------------------------------------------------
(* The theorems *)

\* A command's network phase that ends well and was not disturbed leaves the rules
\* asked for, whatever an earlier one left half done.
LEMMA ConvergesStep == NetInv /\ [NetworkNext]_netVars => ConvergeStep
<1> SUFFICES ASSUME NetInv, NEW c \in Cmds, Reconciled(c), cmd[c].alone, cmd[c].told
             PROVE  rules' = cmd[c].want
  BY DEF ConvergeStep
<1> USE DEF NetInv
<1>1. CASE At(c, "revoke") /\ cmd[c].revoke = {} /\ rules' = rules
  BY <1>1 DEF At, NetBalance, BalanceOf
<1>2. CASE At(c, "ports") /\ ~PortsRefused(c) /\ rules' = PortsAfter(c)
  <2>1. /\ SshRules(rules) = SshRules(cmd[c].want)
        /\ cmd[c].named <=> PortRules(rules) # {}
    BY <1>2 DEF At, NetBalance, BalanceOf
  <2>2. CASE cmd[c].named \/ PortRules(cmd[c].want) # {}
    BY <1>2, <2>1, <2>2, RuleParts DEF PortsAfter
  <2>3. CASE ~cmd[c].named /\ PortRules(cmd[c].want) = {}
    <3>1. PortRules(rules) = PortRules(cmd[c].want) /\ rules' = rules
      BY <1>2, <2>1, <2>3 DEF PortsAfter
    <3>. QED
      BY <2>1, <3>1, RuleParts
  <2>. QED
    BY <2>2, <2>3
<1>. QED
  BY <1>1, <1>2 DEF Reconciled

\* No call of a command that runs by itself takes away the operator's way in.
LEMMA LockoutsStep == NetInv /\ [NetworkNext]_netVars => LockoutStep
<1> SUFFICES ASSUME NetInv, [NetworkNext]_netVars, net'.calm, Admits(rules, address),
                    \A c \in Cmds : cmd[c].want # {} => Admits(cmd[c].want, address)
             PROVE  Admits(rules', address)
  BY DEF LockoutStep
<1> USE DEF NetInv, At
<1>w. \A c \in Cmds : cmd[c].pc \notin {"idle", "detect"} => Admits(cmd[c].want, address)
  BY DEF NetPhases, PhasesOf, SshRules
<1>s. \A s, t : Admits(s, address) /\ s \subseteq t => Admits(t, address)
  BY DEF Admits
<1>g. CASE rules \subseteq rules'
  BY <1>g, <1>s
<1>r. ASSUME net.calm, NEW c \in Cmds, NEW r \in cmd[c].revoke, cmd[c].pc = "revoke",
             rules' = rules \ {r}
      PROVE  Admits(rules', address)
  <2>1. cmd[c].want \subseteq rules
    BY <1>r DEF NetCalm, CoveredBy
  <2>2. cmd[c].want \subseteq rules'
    BY <1>r, <2>1 DEF NetPhases, PhasesOf
  <2>. QED
    BY <1>r, <1>w, <1>s, <2>2
<1>p. ASSUME NEW c \in Cmds, cmd[c].pc = "ssh",
             rules' = PortRules(rules) \cup SshRules(cmd[c].want)
      PROVE  Admits(rules', address)
  BY <1>p, <1>w, AdmittedBySsh, RuleParts
<1>q. ASSUME NEW c \in Cmds, rules' = PortsAfter(c)
      PROVE  Admits(rules', address)
  BY <1>q, AdmittedBySsh, RuleParts DEF PortsAfter
<1>1. ASSUME NEW c \in Cmds, BeginNetwork(c)
      PROVE  Admits(rules', address)
  BY <1>1 DEF BeginNetwork
<1>2. ASSUME NEW c \in Cmds, Detect(c) \/ ListRules(c) \/ Added(c) \/ CallRefused(c)
      PROVE  Admits(rules', address)
  BY <1>2 DEF Detect, ListRules, Added, CallRefused
<1>3. ASSUME NEW c \in Cmds, Add(c)
      PROVE  Admits(rules', address)
  BY <1>3, <1>g DEF Add
<1>4. ASSUME NEW c \in Cmds, Revoke(c)
      PROVE  Admits(rules', address)
  BY <1>4, <1>r DEF Revoke, World
<1>5. ASSUME NEW c \in Cmds, PatchSsh(c)
      PROVE  Admits(rules', address)
  BY <1>5, <1>p DEF PatchSsh
<1>6. ASSUME NEW c \in Cmds, Reconciled(c)
      PROVE  Admits(rules', address)
  BY <1>6, <1>q DEF Reconciled
<1>7. ASSUME NEW c \in Cmds, FailNetwork(c)
      PROVE  Admits(rules', address)
  <2>1. net.calm /\ rules' \in CallEffect(c)
    BY <1>7 DEF FailNetwork, NetworkTypeOK
  <2>2. \/ rules \subseteq rules'
        \/ cmd[c].pc = "revoke" /\ \E r \in cmd[c].revoke : rules' = rules \ {r}
        \/ cmd[c].pc = "ssh" /\ rules' = PortRules(rules) \cup SshRules(cmd[c].want)
        \/ rules' = PortsAfter(c)
    BY <2>1 DEF CallEffect
  <2>. QED
    BY <2>1, <2>2, <1>g, <1>r, <1>p, <1>q
<1>8. CASE EditToml \/ Move \/ AdoptRules \/ UNCHANGED netVars
  BY <1>8 DEF EditToml, Move, AdoptRules, netVars
<1>9. CASE HandMade
  BY <1>9, <1>g DEF HandMade
<1>. QED
  BY <1>1, <1>2, <1>3, <1>4, <1>5, <1>6, <1>7, <1>8, <1>9
  DEF NetworkNext, BeginAny, BeginSsh, NetworkStep

\* The invariants hold of every run of the commands.
THEOREM NetworkSafe == NetworkSpec => []NetInv
<1>1. NetworkSpec => NetworkInit /\ [][NetworkNext]_netVars
  BY DEF NetworkSpec, NetworkNext
<1>. QED
  BY <1>1, NetInvInit, NetInvStep, PTL

\* Where the record names the rules there are and nobody else changes them
\* meanwhile, a reconciliation that does not throw ends with exactly the declared
\* rules, on both clouds and after any earlier failures.
THEOREM RulesConverge == NetworkSpec => NetworkConverges
<1>1. NetworkSpec => NetworkInit /\ [][NetworkNext]_netVars
  BY DEF NetworkSpec, NetworkNext
<1>. QED
  BY <1>1, NetworkSafe, ConvergesStep, PTL DEF NetworkConverges

\* Commands that do not overlap keep the operator's way in after every single
\* call: what admits is added before anything is revoked.
THEOREM OperatorKeepsAccess == NetworkSpec => NeverLockedOut
<1>1. NetworkSpec => NetworkInit /\ [][NetworkNext]_netVars
  BY DEF NetworkSpec, NetworkNext
<1>. QED
  BY <1>1, NetworkSafe, LockoutsStep, PTL DEF NeverLockedOut

-------------------------------------------------------------------------------
(* Invariants *)

\* A run that is waiting for the build it started, with nobody else's build on
\* the box since.
OnItsOwn(r) == r \in Waiting /\ build[r] # "none" /\ r \notin overlap

\* The marker such a run finds is its own build's, once its own command has
\* removed what was there before; what it has read from one is its own code.
RebuildInv ==
  /\ RebuildTypeOK
  /\ \A r \in Runs :
       /\ caller[r].pc = "idle" => build[r] = "none"
       /\ caller[r].pc = "read" => build[r] # "started"
       /\ OnItsOwn(r) =>
            /\ Unfinished \subseteq {r}
            /\ build[r] # "started" => marker.by \in {NoRun, r}
  /\ VerdictIsOwn

\* jobs.json is never part of a file, and stays a record of its fields.
FileInv ==
  /\ jobs = [f \in {"shape", "list"} |-> jobs[f]]
  /\ jobs.shape # "torn"

RunFields == {"pc", "decl", "todo", "alive", "ok", "quiet"}

\* A reconciliation is a record of its fields.
RunInv == run = [f \in RunFields |-> run[f]]

\* The dashboard's part, whoever else works on the box.
DashboardInv == RouteInv /\ CacheInv /\ LinkInv /\ LineInv /\ UploadInv /\ SkillInv

BoxInv ==
  /\ DashboardInv
  /\ FileInv
  /\ RunInv
  /\ RebuildInv
  /\ OnlyDashboard => EditInv

-------------------------------------------------------------------------------
(* Rebuilds *)

\* Nobody has started anything.
LEMMA RebuildInvInit == RebuildInit => RebuildInv
<1>. SUFFICES ASSUME RebuildInit
              PROVE  RebuildInv
  OBVIOUS
<1>1. RebuildTypeOK
  BY RebuildAssumption DEF RebuildInit, RebuildTypeOK, NoMarker, Codes
<1>. QED
  BY <1>1 DEF RebuildInit, RebuildInv, OnItsOwn, VerdictIsOwn

\* A step of a rebuild keeps its variables in their types.
LEMMA RebuildTypes == RebuildTypeOK /\ RebuildNext => RebuildTypeOK'
<1>. SUFFICES ASSUME RebuildTypeOK, NEW r \in Runs,
                     \/ StartBuild(r) \/ RemoveMarkers(r) \/ EndBuild(r)
                     \/ PollFindsExit(r) \/ ReturnResult(r) \/ ReadFails(r)
                     \/ GiveUp(r) \/ Forget(r)
              PROVE  RebuildTypeOK'
  BY DEF RebuildNext
<1>. USE RebuildAssumption DEF RebuildTypeOK, NoMarker, Codes
<1>1. CASE StartBuild(r)
  <2>1. overlap' \subseteq Runs
    BY <1>1 DEF StartBuild, Waiting
  <2>2. caller' \in [Runs -> [pc : {"idle", "polling", "read", "done", "threw"},
                              saw : Runs \cup {NoRun}, code : Codes]]
    BY <1>1 DEF StartBuild
  <2>3. build' \in [Runs -> {"none", "started", "building", "ended"}] /\ dead' \in 0..MaxDead
    BY <1>1 DEF StartBuild
  <2>. QED
    BY <1>1, <2>1, <2>2, <2>3 DEF StartBuild
<1>2. CASE RemoveMarkers(r) \/ EndBuild(r)
  BY <1>2 DEF RemoveMarkers, EndBuild
<1>3. CASE PollFindsExit(r)
  BY <1>3 DEF PollFindsExit
<1>4. CASE ReturnResult(r)
  BY <1>4 DEF ReturnResult
<1>5. CASE ReadFails(r) \/ GiveUp(r)
  BY <1>5 DEF ReadFails, GiveUp
<1>6. CASE Forget(r)
  BY <1>6 DEF Forget
<1>. QED
  BY <1>1, <1>2, <1>3, <1>4, <1>5, <1>6

\* The build of a run that starts beside another's, or while another waits, puts
\* all of them in `overlap`; in one that is in none, the marker is its own.
LEMMA RebuildInvStep == RebuildInv /\ RebuildNext => RebuildInv'
<1>. SUFFICES ASSUME RebuildInv, NEW r \in Runs,
                     \/ StartBuild(r) \/ RemoveMarkers(r) \/ EndBuild(r)
                     \/ PollFindsExit(r) \/ ReturnResult(r) \/ ReadFails(r)
                     \/ GiveUp(r) \/ Forget(r)
              PROVE  RebuildInv'
  BY DEF RebuildNext
<1>0. RebuildTypeOK'
  BY RebuildTypes DEF RebuildInv, RebuildNext
<1>. SUFFICES ASSUME NEW s \in Runs
              PROVE  /\ caller'[s].pc = "idle" => build'[s] = "none"
                     /\ caller'[s].pc = "read" => build'[s] # "started"
                     /\ OnItsOwn(s)' =>
                          /\ Unfinished' \subseteq {s}
                          /\ build'[s] # "started" => marker'.by \in {NoRun, s}
                     /\ /\ caller'[s].pc \in {"read", "done"}
                        /\ build'[s] # "none" /\ s \notin overlap'
                        => caller'[s].saw = s
  BY <1>0 DEF RebuildInv, VerdictIsOwn
<1>. USE DEF RebuildInv, RebuildTypeOK, VerdictIsOwn, OnItsOwn, Waiting, Unfinished
<1>1. CASE StartBuild(r)
  BY <1>1 DEF StartBuild
<1>2. CASE RemoveMarkers(r)
  BY <1>2 DEF RemoveMarkers, NoMarker
<1>3. CASE EndBuild(r)
  BY <1>3 DEF EndBuild
<1>4. CASE PollFindsExit(r)
  BY <1>4 DEF PollFindsExit
<1>5. CASE ReturnResult(r)
  BY <1>5 DEF ReturnResult, NoMarker
<1>6. CASE ReadFails(r) \/ GiveUp(r)
  BY <1>6 DEF ReadFails, GiveUp
<1>7. CASE Forget(r)
  BY <1>7 DEF Forget
<1>. QED
  BY <1>1, <1>2, <1>3, <1>4, <1>5, <1>6, <1>7

-------------------------------------------------------------------------------
(* The parties *)

\* The dashboard's first state.
LEMMA DashboardInvInit == LinkInit /\ RoutesInit => DashboardInv /\ EditInv
<1>1. LinkInit => CacheInv
  BY DEF LinkInit, CacheInv, Empty
<1>. QED
  BY <1>1, RouteInvInit, LinkInvInit, LineInvInit, UploadInvInit, SkillInvInit, EditInvInit
  DEF DashboardInv

\* The parties beside the dashboard leave its requests, sessions and uploads alone.
LEMMA DashboardInvApart == DashboardInv /\ UNCHANGED <<linkVars, routeVars>> => DashboardInv'
<1>. SUFFICES ASSUME DashboardInv, UNCHANGED <<linkVars, routeVars>>
              PROVE  DashboardInv'
  OBVIOUS
<1>0. /\ UNCHANGED <<cache, open, call, breaks, raced, cut>>
      /\ UNCHANGED <<req, tail, tmp, skill>>
  BY DEF linkVars, routeVars
<1>1. RouteInv'
  <2>1. \A r \in Reqs : Control(r)' <=> Control(r)
    BY <1>0 DEF Control
  <2>. QED
    BY <1>0, <2>1 DEF DashboardInv, RouteInv, Records
<1>2. CacheInv' /\ LinkInv'
  BY <1>0 DEF DashboardInv, CacheInv, LinkInv
<1>3. LineInv'
  <2>1. \A r : InLine(r)' <=> InLine(r)
    BY <1>0 DEF InLine
  <2>2. \A r : InLock(r)' <=> InLock(r)
    BY <1>0 DEF InLock
  <2>3. \A q, n : LineUp(q, n)' <=> LineUp(q, n)
    BY <1>0, <2>1, <2>2 DEF LineUp
  <2>. QED
    BY <1>0, <2>1, <2>3 DEF DashboardInv, LineInv
<1>4. UploadInv'
  BY <1>0 DEF DashboardInv, UploadInv
<1>5. SkillInv'
  BY <1>0 DEF DashboardInv, SkillInv, SkillOpen
<1>. QED
  BY <1>1, <1>2, <1>3, <1>4, <1>5 DEF DashboardInv

\* Nor do those of them that leave jobs.json alone disturb an edit.
LEMMA EditInvApart ==
  EditInv /\ UNCHANGED <<linkVars, routeVars, jobs>> => EditInv'
BY DEF EditInv, linkVars, routeVars

\* What the dashboard does in the scene is what AgentRoutesProofs is about.
LEMMA DashboardSteps == DashboardStep => [DashboardNext]_RoutesVars
<1>. SUFFICES ASSUME DashboardStep
              PROVE  DashboardNext
  OBVIOUS
<1>1. CASE \E r \in Reqs : PostAny(r, crew \cap Ops)
  BY <1>1, AskedIs DEF PostAny, DashboardNext
<1>2. CASE \E r \in Reqs : RequestStep(r)
  BY <1>2 DEF DashboardNext
<1>3. CASE (Expire \/ Break) /\ UNCHANGED <<boxVars, routeVars>>
  BY <1>3 DEF DashboardNext
<1>. QED
  BY <1>1, <1>2, <1>3 DEF DashboardStep

\* And it keeps what is said of it.
LEMMA DashboardInvStep ==
  DashboardInv /\ [DashboardNext]_RoutesVars => DashboardInv' /\ (EditInv => EditInv')
BY RouteInvStep, CacheInvStep, LinkInvStep, LineInvStep, UploadInvStep, SkillInvStep,
   EditInvStep
DEF DashboardInv

\* The agent's own writes of jobs.json are whole files.
LEMMA FileInvOthers ==
  FileInv /\ (SchedulerSave \/ ReconcileStep \/ \E d : BeginReconcile(d)) => FileInv'
<1>. SUFFICES ASSUME FileInv
              PROVE  SchedulerSave \/ ReconcileStep \/ (\E d : BeginReconcile(d)) => FileInv'
  OBVIOUS
<1>1. ASSUME NEW list, CliWrites(list)
      PROVE  FileInv'
  BY <1>1 DEF CliWrites, FileInv
<1>2. CASE UNCHANGED jobs
  BY <1>2 DEF FileInv
<1>3. CASE SchedulerSave
  BY <1>3 DEF SchedulerSave, FileInv
<1>4. CASE Apply
  <2>1. jobs' = jobs \/ \E list : CliWrites(list)
    BY <1>4 DEF Apply, CliRemove, CliCreate, CliEdit
  <2>. QED
    BY <1>1, <1>2, <2>1
<1>5. CASE SetEnabled
  BY <1>1, <1>5 DEF SetEnabled, CliEnable
<1>. QED
  BY <1>2, <1>3, <1>4, <1>5
  DEF ReconcileStep, BeginReconcile, GatewayStopped, StopFails, CommandFails, EndApply,
      EndPause, GatewayStarted, StartFails, Disconnect, boxVars

\* A reconciliation starts and goes on as a record.
LEMMA RunInvStep ==
  RunInv /\ (ReconcileStep \/ (\E d : BeginReconcile(d)) \/ Noticed) => RunInv'
<1>. SUFFICES ASSUME RunInv, ReconcileStep \/ (\E d : BeginReconcile(d)) \/ Noticed
              PROVE  RunInv'
  OBVIOUS
<1>1. CASE run' = Idle \/ \E ok : run' = Ended(ok)
  BY <1>1 DEF RunInv, Ended, Idle, RunFields
<1>2. CASE \E d : BeginReconcile(d)
  <2>1. PICK d : BeginReconcile(d)
    BY <1>2
  <2>2. CASE Plan(d, BoxCrons(jobs)) = <<>>
    BY <1>1, <2>1, <2>2 DEF BeginReconcile
  <2>3. CASE Plan(d, BoxCrons(jobs)) # <<>>
    <3>. DEFINE quiet == gateway => sched = jobs.list
    <3>1. run' = [pc |-> "stop", decl |-> d, todo |-> Plan(d, BoxCrons(jobs)),
                  alive |-> TRUE, ok |-> TRUE, quiet |-> quiet]
      BY <2>1, <2>3 DEF BeginReconcile
    <3>. HIDE DEF quiet
    <3>. QED
      BY <3>1 DEF RunInv, RunFields
  <2>. QED
    BY <2>2, <2>3
<1>3. CASE ReconcileStep
  <2>. SUFFICES ASSUME ~\E ok : run' = Ended(ok)
                PROVE  RunInv'
    BY <1>1
  <2>1. \/ \E pc : run' = [run EXCEPT !.pc = pc]
        \/ \E todo : run' = [run EXCEPT !.todo = todo]
        \/ \E pc, todo : run' = [run EXCEPT !.pc = pc, !.todo = todo]
        \/ run' = [run EXCEPT !.pc = "start", !.ok = FALSE, !.todo = <<>>]
        \/ run' = [run EXCEPT !.alive = FALSE]
    BY <1>3 DEF ReconcileStep, GatewayStopped, StopFails, Apply, CommandFails, EndApply,
                SetEnabled, EndPause, GatewayStarted, StartFails, Disconnect
  <2>. QED
    BY <2>1 DEF RunInv, RunFields
<1>4. CASE Noticed
  BY <1>4 DEF Noticed, RunInv, RunFields
<1>. QED
  BY <1>2, <1>3, <1>4

-------------------------------------------------------------------------------
(* The commands of a reconciliation *)

\* Lists of declared jobs, no two of one name.
DeclLists ==
  {s \in Seq(Declared) : \A i, j \in DOMAIN s : s[i].name = s[j].name => i = j}

\* A reconciliation is a record of its fields, and so are its commands.
RunTyped ==
  /\ RunInv
  /\ run.pc \in {"idle", "stop", "apply", "pause", "start"}
  /\ run.decl \in DeclLists /\ run.todo \in Seq(Command)
  /\ run.alive \in BOOLEAN /\ run.ok \in BOOLEAN /\ run.quiet \in BOOLEAN
  /\ lost \in 0..MaxLost

\* What may be declared is a list, in which a name stands for one entry.
LEMMA DeclaredIs ==
  /\ Lists \subseteq DeclLists /\ <<>> \in DeclLists
  /\ \A decl \in DeclLists :
       /\ \A i \in DOMAIN decl : EntryOf(decl, decl[i].name) = decl[i]
       /\ \A n \in NamesIn(decl) : EntryOf(decl, n) \in Declared /\ EntryOf(decl, n).name = n
<1>1. <<>> \in DeclLists
  BY EmptySeq DEF DeclLists
<1>2. ASSUME NEW s \in Lists
      PROVE  s \in DeclLists
  <2>1. PICK n \in 0..Cardinality(JobNames) : s \in [1..n -> Declared]
    BY DEF Lists
  <2>2. s \in Seq(Declared)
    BY <2>1, IsASeq
  <2>. QED
    BY <2>2 DEF Lists, DeclLists
<1>3. ASSUME NEW decl \in DeclLists, NEW i \in DOMAIN decl
      PROVE  EntryOf(decl, decl[i].name) = decl[i]
  BY DEF DeclLists, EntryOf
<1>4. ASSUME NEW decl \in DeclLists, NEW n \in NamesIn(decl)
      PROVE  EntryOf(decl, n) \in Declared /\ EntryOf(decl, n).name = n
  <2>1. PICK i \in DOMAIN decl : decl[i].name = n
    BY DEF NamesIn
  <2>2. decl[i] \in Declared
    BY ElementOfSeq DEF DeclLists
  <2>. QED
    BY <1>3, <2>1, <2>2
<1>. QED
  BY <1>1, <1>2, <1>3, <1>4

\* There is an entry and an id to fill a command with.
LEMMA AnyIs == AnyEntry \in Declared /\ AnyId \in Ids
<1>1. PICK i \in Ids, n \in JobNames, b \in Bodies : TRUE
  BY BoxAssumption
<1>2. [name |-> n, body |-> b, enabled |-> TRUE] \in Declared
  BY DEF Declared
<1>. QED
  BY <1>1, <1>2 DEF AnyEntry, AnyId

\* c is e of the entries of s at the positions S, each once.
Rewrites(c, s, S, e) ==
  \E h \in [DOMAIN c -> S] :
    /\ \A k \in DOMAIN c : c[k] = e[s[h[k]]]
    /\ \A k, l \in DOMAIN c : h[k] = h[l] => k = l
    /\ \A i \in S : \E k \in DOMAIN c : h[k] = i

\* c is the picked entries of a list, rewritten one by one into members of U.
Rewritten(c, s, S, e, U) ==
  /\ \A i \in S : e[s[i]] \in U
  /\ c = [k \in DOMAIN Picked(s, S) |-> e[Picked(s, S)[k]]]

LEMMA RewrittenIs ==
  ASSUME NEW T, NEW U, NEW s \in Seq(T), NEW S \in SUBSET DOMAIN s, NEW e, NEW c,
         Rewritten(c, s, S, e, U)
  PROVE  c \in Seq(U) /\ (S = {} => c = <<>>) /\ Rewrites(c, s, S, e)
<1>. DEFINE p == Picked(s, S)
<1>0. c = [k \in DOMAIN p |-> e[p[k]]] /\ \A i \in S : e[s[i]] \in U
  BY DEF Rewritten
<1>1. p \in Seq(T) /\ (S = {} => p = <<>>) /\ Picks(p, s, S)
  BY PickedIs
<1>. HIDE DEF p
<1>2. PICK h \in [DOMAIN p -> S] :
        /\ \A k \in DOMAIN p : p[k] = s[h[k]]
        /\ \A k, l \in DOMAIN p : h[k] = h[l] => k = l
        /\ \A i \in S : \E k \in DOMAIN p : h[k] = i
  BY <1>1 DEF Picks
<1>3. DOMAIN c = DOMAIN p /\ \A k \in DOMAIN c : c[k] = e[s[h[k]]] /\ c[k] \in U
  BY <1>0, <1>2
<1>4. DOMAIN p = 1..Len(p) /\ Len(p) \in Nat
  BY <1>1, LenProperties
<1>5. c \in Seq(U)
  <2>1. c = [k \in 1..Len(p) |-> e[p[k]]]
    BY <1>0, <1>4
  <2>2. \A k \in 1..Len(p) : e[p[k]] \in U
    BY <1>0, <1>2, <1>4
  <2>. QED
    BY <1>4, <2>1, <2>2, IsASeq
<1>6. S = {} => c = <<>>
  <2>. SUFFICES ASSUME S = {}
                PROVE  c = <<>>
    OBVIOUS
  <2>1. DOMAIN c = {}
    BY <1>2, <1>3
  <2>2. Len(c) = 0
    BY <1>5, <2>1, LenProperties
  <2>. QED
    BY <1>5, <2>2, EmptySeq
<1>7. Rewrites(c, s, S, e)
  <2>1. /\ h \in [DOMAIN c -> S]
        /\ \A k \in DOMAIN c : c[k] = e[s[h[k]]]
        /\ \A k, l \in DOMAIN c : h[k] = h[l] => k = l
        /\ \A i \in S : \E k \in DOMAIN c : h[k] = i
    BY <1>2, <1>3
  <2>. QED
    BY <2>1, Zenon DEF Rewrites
<1>. QED
  BY <1>5, <1>6, <1>7

\* A list after another: where each entry is.
LEMMA ConcatIs ==
  ASSUME NEW T, NEW s \in Seq(T), NEW t \in Seq(T)
  PROVE  /\ s \o t \in Seq(T)
         /\ \A k \in DOMAIN (s \o t) :
              \/ k \in DOMAIN s /\ (s \o t)[k] = s[k]
              \/ k - Len(s) \in DOMAIN t /\ k \notin DOMAIN s /\ (s \o t)[k] = t[k - Len(s)]
         /\ \A k \in DOMAIN s : k \in DOMAIN (s \o t) /\ (s \o t)[k] = s[k]
         /\ \A k \in DOMAIN t : k + Len(s) \in DOMAIN (s \o t) /\ (s \o t)[k + Len(s)] = t[k]
         /\ s = <<>> /\ t = <<>> => s \o t = <<>>
<1>1. /\ DOMAIN s = 1..Len(s) /\ Len(s) \in Nat
      /\ DOMAIN t = 1..Len(t) /\ Len(t) \in Nat
  BY LenProperties
<1>2. /\ s \o t \in Seq(T) /\ Len(s \o t) = Len(s) + Len(t)
      /\ \A k \in 1..(Len(s) + Len(t)) :
           (s \o t)[k] = IF k <= Len(s) THEN s[k] ELSE t[k - Len(s)]
  BY ConcatProperties
<1>3. DOMAIN (s \o t) = 1..(Len(s) + Len(t))
  BY <1>2, LenProperties
<1>4. s = <<>> /\ t = <<>> => s \o t = <<>>
  BY <1>2, EmptySeq
<1>5. \A k \in DOMAIN (s \o t) :
        \/ k \in DOMAIN s /\ (s \o t)[k] = s[k]
        \/ k - Len(s) \in DOMAIN t /\ k \notin DOMAIN s /\ (s \o t)[k] = t[k - Len(s)]
  BY <1>1, <1>2, <1>3
<1>6. \A k \in DOMAIN s : k \in DOMAIN (s \o t) /\ (s \o t)[k] = s[k]
  BY <1>1, <1>2, <1>3
<1>7. \A k \in DOMAIN t : k + Len(s) \in DOMAIN (s \o t) /\ (s \o t)[k + Len(s)] = t[k]
  <2>. SUFFICES ASSUME NEW k \in 1..Len(t)
                PROVE  k + Len(s) \in DOMAIN (s \o t) /\ (s \o t)[k + Len(s)] = t[k]
    BY <1>1
  <2>1. k + Len(s) \in 1..(Len(s) + Len(t)) /\ ~(k + Len(s) <= Len(s))
        /\ k + Len(s) - Len(s) = k
    BY <1>1
  <2>. QED
    BY <1>2, <1>3, <2>1
<1>. QED
  BY <1>2, <1>4, <1>5, <1>6, <1>7

\* The rest of a list: its entries but for the first.
LEMMA TailIs ==
  ASSUME NEW T, NEW s \in Seq(T), s # <<>>
  PROVE  /\ Tail(s) \in Seq(T) /\ 1 \in DOMAIN s /\ Head(s) = s[1] /\ Head(s) \in T
         /\ \A k \in DOMAIN Tail(s) :
              k + 1 \in DOMAIN s /\ k + 1 # 1 /\ Tail(s)[k] = s[k + 1]
         /\ \A k \in DOMAIN s : k # 1 => k - 1 \in DOMAIN Tail(s) /\ Tail(s)[k - 1] = s[k]
         /\ \A k, l \in DOMAIN Tail(s) : k + 1 = l + 1 => k = l
<1>1. DOMAIN s = 1..Len(s) /\ Len(s) \in Nat
  BY LenProperties
<1>2. /\ Len(s) # 0
      /\ Head(s) \in T /\ Tail(s) \in Seq(T) /\ Head(s) = s[1]
      /\ Len(Tail(s)) = Len(s) - 1
      /\ \A i \in 1..(Len(s) - 1) : Tail(s)[i] = s[i + 1]
  <2>1. Len(s) # 0
    BY EmptySeq
  <2>2. Head(s) = s[1]
    OBVIOUS
  <2>. QED
    BY <2>1, <2>2, HeadTailProperties
<1>3. DOMAIN Tail(s) = 1..(Len(s) - 1)
  BY <1>2, LenProperties
<1>. QED
  BY <1>1, <1>2, <1>3

\* What the CLI finds in the file, as a list and in the file it leaves.
LEMMA CliReadsIs ==
  ASSUME FilesTyped
  PROVE  /\ CliReads \in JobLists /\ CliReads \in Seq(Job) /\ CliReads = BoxCrons(jobs)
         /\ \A list : CliWrites(list) => BoxCrons(jobs') = list
         /\ \A list \in JobLists : CliWrites(list) => jobs' \in Files
<1>1. CliReads \in JobLists
  BY JobListsPicked DEF FilesTyped, Files, CliReads
<1>2. CliReads = BoxCrons(jobs) /\ CliReads \in Seq(Job)
  BY <1>1 DEF CliReads, BoxCrons, JobLists
<1>3. \A list : CliWrites(list) => BoxCrons(jobs') = list
  BY DEF CliWrites, BoxCrons
<1>4. \A list \in JobLists : CliWrites(list) => jobs' \in Files
  BY DEF CliWrites, Files, Shapes
<1>. QED
  BY <1>1, <1>2, <1>3, <1>4

\* hermes cron remove: the jobs without the id stay, in their order.
LEMMA CliRemoves ==
  ASSUME FilesTyped, NEW id, CliRemove(id)
  PROVE  /\ jobs' \in Files
         /\ Picks(BoxCrons(jobs'), BoxCrons(jobs),
                  {i \in DOMAIN BoxCrons(jobs) : BoxCrons(jobs)[i].id # id})
<1>. DEFINE S == {i \in DOMAIN CliReads : CliReads[i].id # id}
            list == Picked(CliReads, S)
<1>1. CliReads \in JobLists /\ CliReads \in Seq(Job) /\ CliReads = BoxCrons(jobs)
  BY CliReadsIs
<1>2. CliWrites(list)
  BY DEF CliRemove
<1>3. S \in SUBSET DOMAIN CliReads
  OBVIOUS
<1>. HIDE DEF S
<1>4. list \in JobLists /\ Picks(list, CliReads, S)
  BY <1>1, <1>3, JobListsPicked, PickedIs
<1>. HIDE DEF list
<1>5. BoxCrons(jobs') = list /\ jobs' \in Files
  BY <1>2, <1>4, CliReadsIs
<1>. QED
  BY <1>1, <1>4, <1>5 DEF S

\* hermes cron create: a job of a new id comes to the end.
LEMMA CliCreates ==
  ASSUME FilesTyped, NEW d \in Declared, CliCreate(d)
  PROVE  /\ jobs' \in Files
         /\ \E j \in Job :
              /\ BoxCrons(jobs') = Append(BoxCrons(jobs), j)
              /\ j.id \notin IdsIn(BoxCrons(jobs))
              /\ j.name = d.name /\ j.body = d.body
<1>. DEFINE free == Ids \ (IdsIn(CliReads) \cup IdsIn(sched))
            id == CHOOSE i \in free : TRUE
            j == [id |-> id, name |-> d.name, body |-> d.body, enabled |-> TRUE]
<1>1. CliReads \in JobLists /\ CliReads = BoxCrons(jobs)
  BY CliReadsIs
<1>2. free # {} /\ CliWrites(Append(CliReads, j))
  BY DEF CliCreate
<1>3. id \in Ids /\ id \notin IdsIn(CliReads)
  BY <1>2
<1>. HIDE DEF free, id
<1>4. j \in Job /\ j.id = id /\ j.name = d.name /\ j.body = d.body
  BY <1>3 DEF Job, Declared
<1>. HIDE DEF j
<1>5. Append(CliReads, j) \in JobLists
  BY <1>1, <1>3, <1>4, JobListsAppended
<1>6. BoxCrons(jobs') = Append(CliReads, j) /\ jobs' \in Files
  BY <1>2, <1>5, CliReadsIs
<1>. QED
  BY <1>1, <1>3, <1>4, <1>6

\* list and the list before it have the same jobs by id and name.
SameJobs(before, list) ==
  /\ DOMAIN list = DOMAIN before
  /\ \A i \in DOMAIN before : list[i].id = before[i].id /\ list[i].name = before[i].name

\* hermes cron edit: the job with the id gets the body.
LEMMA CliEdits ==
  ASSUME FilesTyped, NEW id, NEW d \in Declared, CliEdit(id, d)
  PROVE  /\ jobs' \in Files
         /\ SameJobs(BoxCrons(jobs), BoxCrons(jobs'))
         /\ \A i \in DOMAIN BoxCrons(jobs) :
              BoxCrons(jobs')[i].body = IF BoxCrons(jobs)[i].id = id THEN d.body
                                        ELSE BoxCrons(jobs)[i].body
<1>. DEFINE new(i) == IF CliReads[i].id = id THEN [CliReads[i] EXCEPT !.body = d.body]
                      ELSE CliReads[i]
            list == [i \in DOMAIN CliReads |-> new(i)]
<1>1. CliReads \in JobLists /\ CliReads \in Seq(Job) /\ CliReads = BoxCrons(jobs)
  BY CliReadsIs
<1>2. CliWrites(list)
  BY DEF CliEdit
<1>3. DOMAIN CliReads = 1..Len(CliReads) /\ Len(CliReads) \in Nat
  BY <1>1, LenProperties
<1>4. ASSUME NEW i \in DOMAIN CliReads
      PROVE  /\ new(i) \in Job
             /\ new(i).id = CliReads[i].id /\ new(i).name = CliReads[i].name
             /\ new(i).body = IF CliReads[i].id = id THEN d.body ELSE CliReads[i].body
  <2>1. CliReads[i] \in Job
    BY <1>1, <1>3, ElementOfSeq
  <2>. QED
    BY <2>1 DEF Job, Declared
<1>. HIDE DEF new
<1>5. list \in Seq(Job)
  BY <1>3, <1>4, IsASeq
<1>6. list \in JobLists
  BY <1>1, <1>4, <1>5, JobListsChanged
<1>7. BoxCrons(jobs') = list /\ jobs' \in Files
  BY <1>2, <1>6, CliReadsIs
<1>. QED
  BY <1>1, <1>4, <1>7 DEF SameJobs

\* hermes cron pause and resume: the job with the id is as enabled as asked for.
LEMMA CliEnables ==
  ASSUME FilesTyped, NEW id, NEW on \in BOOLEAN, CliEnable(id, on)
  PROVE  /\ jobs' \in Files
         /\ SameJobs(BoxCrons(jobs), BoxCrons(jobs'))
         /\ \A i \in DOMAIN BoxCrons(jobs) :
              /\ BoxCrons(jobs')[i].body = BoxCrons(jobs)[i].body
              /\ BoxCrons(jobs)[i].id = id => BoxCrons(jobs')[i].enabled = on
              /\ BoxCrons(jobs)[i].id # id =>
                   BoxCrons(jobs')[i].enabled = BoxCrons(jobs)[i].enabled
<1>. DEFINE new(i) == IF CliReads[i].id = id THEN [CliReads[i] EXCEPT !.enabled = on]
                      ELSE CliReads[i]
            list == [i \in DOMAIN CliReads |-> new(i)]
<1>1. CliReads \in JobLists /\ CliReads \in Seq(Job) /\ CliReads = BoxCrons(jobs)
  BY CliReadsIs
<1>2. CliWrites(list)
  BY DEF CliEnable
<1>3. DOMAIN CliReads = 1..Len(CliReads) /\ Len(CliReads) \in Nat
  BY <1>1, LenProperties
<1>4. ASSUME NEW i \in DOMAIN CliReads
      PROVE  /\ new(i) \in Job
             /\ new(i).id = CliReads[i].id /\ new(i).name = CliReads[i].name
             /\ new(i).body = CliReads[i].body
             /\ CliReads[i].id = id => new(i).enabled = on
             /\ CliReads[i].id # id => new(i).enabled = CliReads[i].enabled
  <2>1. CliReads[i] \in Job
    BY <1>1, <1>3, ElementOfSeq
  <2>2. CASE CliReads[i].id # id
    BY <2>1, <2>2
  <2>3. CASE CliReads[i].id = id
    <3>. DEFINE x == [CliReads[i] EXCEPT !.enabled = on]
    <3>1. x \in Job
      BY <2>1 DEF Job
    <3>2. x.id = CliReads[i].id /\ x.name = CliReads[i].name /\ x.body = CliReads[i].body
      BY <2>1 DEF Job
    <3>3. x.enabled = on
      BY <2>1 DEF Job
    <3>4. new(i) = x
      BY <2>3
    <3>. HIDE DEF x, new
    <3>. QED
      BY <2>3, <3>1, <3>2, <3>3, <3>4
  <2>. QED
    BY <2>2, <2>3
<1>. HIDE DEF new
<1>5. list \in Seq(Job)
  BY <1>3, <1>4, IsASeq
<1>6. list \in JobLists
  BY <1>1, <1>4, <1>5, JobListsChanged
<1>7. \A i \in DOMAIN CliReads : list[i] = new(i)
  OBVIOUS
<1>8. BoxCrons(jobs') = list /\ jobs' \in Files /\ DOMAIN list = DOMAIN CliReads
  BY <1>2, <1>6, CliReadsIs
<1>. HIDE DEF list
<1>9. SameJobs(CliReads, list)
  BY <1>4, <1>7, <1>8 DEF SameJobs
<1>10. \A i \in DOMAIN CliReads :
         /\ list[i].body = CliReads[i].body
         /\ CliReads[i].id = id => list[i].enabled = on
         /\ CliReads[i].id # id => list[i].enabled = CliReads[i].enabled
  BY <1>4, <1>7
<1>. QED
  BY <1>1, <1>8, <1>9, <1>10, Zenon

-------------------------------------------------------------------------------
(* The plan of a reconciliation *)

\* The jobs to remove, the entries to make a job of, the jobs to edit, and those
\* to pause or resume, by their places; and the command for each.
Leaving(decl, list) == {i \in DOMAIN list : ~Stays(decl, list, i)}

Missing(decl, list) == {i \in DOMAIN decl : decl[i].name \notin NamesIn(list)}

Drifted(decl, list) ==
  {i \in DOMAIN list :
     Stays(decl, list, i) /\ Changed(EntryOf(decl, list[i].name), list[i])}

Misset(decl, list) ==
  {i \in DOMAIN list : /\ list[i].name \in NamesIn(decl)
                       /\ EntryOf(decl, list[i].name).enabled # list[i].enabled}

RemovalOf == [x \in Job |-> [kind |-> "remove", id |-> x.id, job |-> AnyEntry]]

CreationOf == [d \in Declared |-> [kind |-> "create", id |-> AnyId, job |-> d]]

EditOf(decl) ==
  [x \in Job |-> [kind |-> IF EntryOf(decl, x.name).body = x.body THEN "same" ELSE "edit",
                  id |-> x.id, job |-> EntryOf(decl, x.name)]]

SettingOf(decl) ==
  [x \in Job |-> [kind |-> "enable", id |-> x.id, job |-> EntryOf(decl, x.name)]]

\* The parts of a plan have one command for each of those.
LEMMA PartsAre ==
  ASSUME NEW decl \in DeclLists, NEW list \in JobLists
  PROVE  /\ /\ Removes(decl, list) \in Seq(Command)
            /\ Leaving(decl, list) = {} => Removes(decl, list) = <<>>
            /\ Rewrites(Removes(decl, list), list, Leaving(decl, list), RemovalOf)
         /\ /\ Creates(decl, list) \in Seq(Command)
            /\ Missing(decl, list) = {} => Creates(decl, list) = <<>>
            /\ Rewrites(Creates(decl, list), decl, Missing(decl, list), CreationOf)
         /\ /\ Edits(decl, list) \in Seq(Command)
            /\ Drifted(decl, list) = {} => Edits(decl, list) = <<>>
            /\ Rewrites(Edits(decl, list), list, Drifted(decl, list), EditOf(decl))
         /\ /\ Toggles(decl, list) \in Seq(Command)
            /\ Rewrites(Toggles(decl, list), list, Misset(decl, list), SettingOf(decl))
<1>1. list \in Seq(Job) /\ decl \in Seq(Declared)
  BY DEF JobLists, DeclLists
<1>2. (\A i \in DOMAIN list : list[i] \in Job) /\ (\A i \in DOMAIN decl : decl[i] \in Declared)
  BY <1>1, ElementOfSeq, LenProperties
<1>3. \A i \in DOMAIN list : list[i].name \in NamesIn(decl) =>
        EntryOf(decl, list[i].name) \in Declared
  BY DeclaredIs
<1>4. /\ Leaving(decl, list) \in SUBSET DOMAIN list
      /\ Missing(decl, list) \in SUBSET DOMAIN decl
      /\ Drifted(decl, list) \in SUBSET DOMAIN list
      /\ Misset(decl, list) \in SUBSET DOMAIN list
  BY DEF Leaving, Missing, Drifted, Misset
<1>5. /\ Removes(decl, list) \in Seq(Command)
      /\ Leaving(decl, list) = {} => Removes(decl, list) = <<>>
      /\ Rewrites(Removes(decl, list), list, Leaving(decl, list), RemovalOf)
  <2>. DEFINE S == Leaving(decl, list)
              p == Picked(list, S)
  <2>1. \A i \in S : RemovalOf[list[i]] \in Command
    BY <1>2, <1>4, AnyIs DEF RemovalOf, Command, Job
  <2>2. p \in Seq(Job)
    BY <1>1, <1>4, PickedIs
  <2>3. \A k \in DOMAIN p : p[k] \in Job
    BY <2>2, ElementOfSeq, LenProperties
  <2>4. Removes(decl, list) = [k \in DOMAIN p |-> RemovalOf[p[k]]]
    BY <2>3 DEF Removes, RemovalOf, Leaving
  <2>5. S \in SUBSET DOMAIN list
    BY <1>4
  <2>6. Rewritten(Removes(decl, list), list, S, RemovalOf, Command)
    BY <2>1, <2>4 DEF Rewritten
  <2>. HIDE DEF S
  <2>7. /\ Removes(decl, list) \in Seq(Command)
        /\ S = {} => Removes(decl, list) = <<>>
        /\ Rewrites(Removes(decl, list), list, S, RemovalOf)
    BY <1>1, <2>5, <2>6, RewrittenIs
  <2>. QED
    BY <2>7 DEF S
<1>6. /\ Creates(decl, list) \in Seq(Command)
      /\ Missing(decl, list) = {} => Creates(decl, list) = <<>>
      /\ Rewrites(Creates(decl, list), decl, Missing(decl, list), CreationOf)
  <2>. DEFINE S == Missing(decl, list)
              p == Picked(decl, S)
  <2>1. \A i \in S : CreationOf[decl[i]] \in Command
    BY <1>2, <1>4, AnyIs DEF CreationOf, Command
  <2>2. p \in Seq(Declared)
    BY <1>1, <1>4, PickedIs
  <2>3. \A k \in DOMAIN p : p[k] \in Declared
    BY <2>2, ElementOfSeq, LenProperties
  <2>4. Creates(decl, list) = [k \in DOMAIN p |-> CreationOf[p[k]]]
    BY <2>3 DEF Creates, CreationOf, Missing
  <2>5. S \in SUBSET DOMAIN decl
    BY <1>4
  <2>6. Rewritten(Creates(decl, list), decl, S, CreationOf, Command)
    BY <2>1, <2>4 DEF Rewritten
  <2>. HIDE DEF S
  <2>7. /\ Creates(decl, list) \in Seq(Command)
        /\ S = {} => Creates(decl, list) = <<>>
        /\ Rewrites(Creates(decl, list), decl, S, CreationOf)
    BY <1>1, <2>5, <2>6, RewrittenIs
  <2>. QED
    BY <2>7 DEF S
<1>7. /\ Edits(decl, list) \in Seq(Command)
      /\ Drifted(decl, list) = {} => Edits(decl, list) = <<>>
      /\ Rewrites(Edits(decl, list), list, Drifted(decl, list), EditOf(decl))
  <2>. DEFINE S == Drifted(decl, list)
              p == Picked(list, S)
  <2>1. \A i \in S : EditOf(decl)[list[i]] \in Command
    <3>. SUFFICES ASSUME NEW i \in S
                  PROVE  EditOf(decl)[list[i]] \in Command
      OBVIOUS
    <3>1. i \in DOMAIN list /\ list[i].name \in NamesIn(decl)
      BY DEF Drifted, Stays
    <3>2. list[i] \in Job /\ list[i].id \in Ids /\ EntryOf(decl, list[i].name) \in Declared
      BY <1>2, <1>3, <3>1 DEF Job
    <3>. QED
      BY <3>2 DEF EditOf, Command
  <2>2. p \in Seq(Job)
    BY <1>1, <1>4, PickedIs
  <2>3. \A k \in DOMAIN p : p[k] \in Job
    BY <2>2, ElementOfSeq, LenProperties
  <2>4. Edits(decl, list) = [k \in DOMAIN p |-> EditOf(decl)[p[k]]]
    BY <2>3 DEF Edits, EditOf, Drifted
  <2>5. S \in SUBSET DOMAIN list
    BY <1>4
  <2>6. Rewritten(Edits(decl, list), list, S, EditOf(decl), Command)
    BY <2>1, <2>4 DEF Rewritten
  <2>. HIDE DEF S
  <2>7. /\ Edits(decl, list) \in Seq(Command)
        /\ S = {} => Edits(decl, list) = <<>>
        /\ Rewrites(Edits(decl, list), list, S, EditOf(decl))
    BY <1>1, <2>5, <2>6, RewrittenIs
  <2>. QED
    BY <2>7 DEF S
<1>8. /\ Toggles(decl, list) \in Seq(Command)
      /\ Rewrites(Toggles(decl, list), list, Misset(decl, list), SettingOf(decl))
  <2>. DEFINE S == Misset(decl, list)
              p == Picked(list, S)
  <2>1. \A i \in S : SettingOf(decl)[list[i]] \in Command
    <3>. SUFFICES ASSUME NEW i \in S
                  PROVE  SettingOf(decl)[list[i]] \in Command
      OBVIOUS
    <3>1. i \in DOMAIN list /\ list[i].name \in NamesIn(decl)
      BY DEF Misset
    <3>2. list[i] \in Job /\ list[i].id \in Ids /\ EntryOf(decl, list[i].name) \in Declared
      BY <1>2, <1>3, <3>1 DEF Job
    <3>. QED
      BY <3>2 DEF SettingOf, Command
  <2>2. p \in Seq(Job)
    BY <1>1, <1>4, PickedIs
  <2>3. \A k \in DOMAIN p : p[k] \in Job
    BY <2>2, ElementOfSeq, LenProperties
  <2>4. Toggles(decl, list) = [k \in DOMAIN p |-> SettingOf(decl)[p[k]]]
    BY <2>3 DEF Toggles, SettingOf, Misset
  <2>5. S \in SUBSET DOMAIN list
    BY <1>4
  <2>6. Rewritten(Toggles(decl, list), list, S, SettingOf(decl), Command)
    BY <2>1, <2>4 DEF Rewritten
  <2>. HIDE DEF S
  <2>7. /\ Toggles(decl, list) \in Seq(Command)
        /\ Rewrites(Toggles(decl, list), list, S, SettingOf(decl))
    BY <1>1, <2>5, <2>6, RewrittenIs
  <2>. QED
    BY <2>7 DEF S
<1>. QED
  BY <1>5, <1>6, <1>7, <1>8

\* The plan is its parts, one after the other; it is empty if all of them are.
LEMMA PlanIs ==
  ASSUME NEW decl \in DeclLists, NEW list \in JobLists
  PROVE  /\ Plan(decl, list) \in Seq(Command)
         /\ Leaving(decl, list) = {} /\ Missing(decl, list) = {} /\ Drifted(decl, list) = {}
              => Plan(decl, list) = <<>>
         /\ \A k \in DOMAIN Plan(decl, list) :
              \/ k \in DOMAIN Removes(decl, list) /\ Plan(decl, list)[k] = Removes(decl, list)[k]
              \/ \E m \in DOMAIN Creates(decl, list) :
                   /\ k = m + Len(Removes(decl, list))
                   /\ Plan(decl, list)[k] = Creates(decl, list)[m]
              \/ \E m \in DOMAIN Edits(decl, list) : Plan(decl, list)[k] = Edits(decl, list)[m]
         /\ \A k \in DOMAIN Removes(decl, list) :
              \E m \in DOMAIN Plan(decl, list) : Plan(decl, list)[m] = Removes(decl, list)[k]
         /\ \A k \in DOMAIN Creates(decl, list) :
              \E m \in DOMAIN Plan(decl, list) : Plan(decl, list)[m] = Creates(decl, list)[k]
         /\ \A k \in DOMAIN Edits(decl, list) :
              \E m \in DOMAIN Plan(decl, list) : Plan(decl, list)[m] = Edits(decl, list)[k]
<1>. DEFINE R == Removes(decl, list)
            C == Creates(decl, list)
            E == Edits(decl, list)
            RC == R \o C
            P == RC \o E
<1>1. /\ R \in Seq(Command) /\ C \in Seq(Command) /\ E \in Seq(Command)
      /\ Leaving(decl, list) = {} => R = <<>>
      /\ Missing(decl, list) = {} => C = <<>>
      /\ Drifted(decl, list) = {} => E = <<>>
  BY PartsAre
<1>2. Plan(decl, list) = P
  BY DEF Plan
<1>. HIDE DEF R, C, E
<1>3. /\ RC \in Seq(Command)
      /\ \A k \in DOMAIN RC :
           \/ k \in DOMAIN R /\ RC[k] = R[k]
           \/ k - Len(R) \in DOMAIN C /\ k \notin DOMAIN R /\ RC[k] = C[k - Len(R)]
      /\ \A k \in DOMAIN R : k \in DOMAIN RC /\ RC[k] = R[k]
      /\ \A k \in DOMAIN C : k + Len(R) \in DOMAIN RC /\ RC[k + Len(R)] = C[k]
      /\ R = <<>> /\ C = <<>> => RC = <<>>
  BY <1>1, ConcatIs
<1>. HIDE DEF RC
<1>4. /\ P \in Seq(Command)
      /\ \A k \in DOMAIN P :
           \/ k \in DOMAIN RC /\ P[k] = RC[k]
           \/ k - Len(RC) \in DOMAIN E /\ k \notin DOMAIN RC /\ P[k] = E[k - Len(RC)]
      /\ \A k \in DOMAIN RC : k \in DOMAIN P /\ P[k] = RC[k]
      /\ \A k \in DOMAIN E : k + Len(RC) \in DOMAIN P /\ P[k + Len(RC)] = E[k]
      /\ RC = <<>> /\ E = <<>> => P = <<>>
  <2>1. RC \in Seq(Command) /\ E \in Seq(Command)
    BY <1>1, <1>3
  <2>. QED
    BY <2>1, ConcatIs
<1>. HIDE DEF P
<1>5. Len(R) \in Nat /\ DOMAIN RC = 1..Len(RC) /\ Len(RC) \in Nat
  BY <1>1, <1>3, LenProperties
<1>6. \A k \in DOMAIN P :
        \/ k \in DOMAIN R /\ P[k] = R[k]
        \/ \E m \in DOMAIN C : k = m + Len(R) /\ P[k] = C[m]
        \/ \E m \in DOMAIN E : P[k] = E[m]
  <2>. SUFFICES ASSUME NEW k \in DOMAIN P
                PROVE  \/ k \in DOMAIN R /\ P[k] = R[k]
                       \/ \E m \in DOMAIN C : k = m + Len(R) /\ P[k] = C[m]
                       \/ \E m \in DOMAIN E : P[k] = E[m]
    OBVIOUS
  <2>1. CASE k \in DOMAIN RC /\ P[k] = RC[k]
    <3>1. k \in Nat /\ k = (k - Len(R)) + Len(R)
      BY <1>5, <2>1
    <3>. QED
      BY <1>3, <2>1, <3>1
  <2>2. CASE k - Len(RC) \in DOMAIN E /\ P[k] = E[k - Len(RC)]
    BY <2>2
  <2>. QED
    BY <1>4, <2>1, <2>2
<1>7. \A k \in DOMAIN R : \E m \in DOMAIN P : P[m] = R[k]
  BY <1>3, <1>4
<1>8. \A k \in DOMAIN C : \E m \in DOMAIN P : P[m] = C[k]
  BY <1>3, <1>4
<1>9. \A k \in DOMAIN E : \E m \in DOMAIN P : P[m] = E[k]
  BY <1>4
<1>10. Leaving(decl, list) = {} /\ Missing(decl, list) = {} /\ Drifted(decl, list) = {}
         => P = <<>>
  BY <1>1, <1>3, <1>4
<1>. QED
  BY <1>2, <1>4, <1>6, <1>7, <1>8, <1>9, <1>10 DEF R, C, E

-------------------------------------------------------------------------------
(* What a reconciliation leads to *)

\* The jobs of a list, and that an id stands for one of them.
JobsIn(list) == {list[i] : i \in DOMAIN list}

Apart(J) == \A x, y \in J : x.id = y.id => x = y

\* The jobs that a command of todo is still to remove, and the others.
Doomed(todo, id) == \E k \in DOMAIN todo : todo[k].kind = "remove" /\ todo[k].id = id

Kept(todo, J) == {x \in J : ~Doomed(todo, x.id)}

\* Each of the others has a declared name, once, and its body or an edit to come.
KeptRight(decl, todo, J) ==
  \A x \in Kept(todo, J) :
    /\ x.name \in NamesIn(decl)
    /\ \A y \in Kept(todo, J) : x.name = y.name => x = y
    /\ \/ x.body = EntryOf(decl, x.name).body
       \/ \E k \in DOMAIN todo : todo[k].kind = "edit" /\ todo[k].id = x.id

\* A declared job is one of them or is still to be made.
NoneMissing(decl, todo, J) ==
  \A n \in NamesIn(decl) :
    \/ \E x \in Kept(todo, J) : x.name = n
    \/ \E k \in DOMAIN todo : todo[k].kind = "create" /\ todo[k].job.name = n

\* The commands still to come are about jobs that are there, or are not there yet.
CommandRight(decl, todo, J, c) ==
  /\ c.kind \in {"remove", "create", "edit", "same"}
  /\ c.kind = "remove" => \E x \in J : x.id = c.id
  /\ c.kind = "create" =>
       /\ \E i \in DOMAIN decl : c.job = decl[i]
       /\ \A x \in Kept(todo, J) : x.name # c.job.name
  /\ c.kind = "edit" =>
       \E x \in Kept(todo, J) : c.id = x.id /\ c.job = EntryOf(decl, x.name)

CommandsRight(decl, todo, J) == \A k \in DOMAIN todo : CommandRight(decl, todo, J, todo[k])

\* None of them comes twice.
Alike(c, d) ==
  \/ c.kind = "remove" /\ d.kind = "remove" /\ c.id = d.id
  \/ c.kind = "create" /\ d.kind = "create" /\ c.job.name = d.job.name

CommandsOnce(todo) == \A k, l \in DOMAIN todo : Alike(todo[k], todo[l]) => k = l

\* Where the commands of todo, done in their order, lead from the jobs J: to exactly
\* the declared ones, but for what is said of `enabled`.
Leads(decl, todo, J) ==
  /\ KeptRight(decl, todo, J)
  /\ NoneMissing(decl, todo, J)
  /\ CommandsRight(decl, todo, J)
  /\ CommandsOnce(todo)

\* A job is as enabled as declared, or todo has a command that makes it so.
Settles(decl, todo, J) ==
  /\ \A x \in J : \/ x.enabled = EntryOf(decl, x.name).enabled
                  \/ \E k \in DOMAIN todo : todo[k].id = x.id
  /\ \A x \in J, k \in DOMAIN todo :
       todo[k].id = x.id => todo[k].job.enabled = EntryOf(decl, x.name).enabled

\* A run that nobody else disturbs: the plan is the one for what is on the box, and
\* once the gateway is stopped, what is left of it leads to the declared jobs.
ReconcileInv ==
  run.quiet =>
    LET J == JobsIn(BoxCrons(jobs)) IN
    /\ run.pc = "stop" =>
         /\ run.todo = Plan(run.decl, BoxCrons(jobs))
         /\ gateway => sched = jobs.list
    /\ run.pc \in {"apply", "pause", "start"} => ~gateway
    /\ run.pc = "apply" => Leads(run.decl, run.todo, J)
    /\ run.pc = "pause" => Leads(run.decl, <<>>, J) /\ Settles(run.decl, run.todo, J)
    /\ run.pc = "start" /\ run.ok => Leads(run.decl, <<>>, J) /\ Settles(run.decl, <<>>, J)

\* Of the jobs of a name, one comes first.
LEMMA FirstIs ==
  ASSUME NEW list \in Seq(Job), NEW n \in NamesIn(list)
  PROVE  \E i \in DOMAIN list : list[i].name = n /\ IsFirst(list, i)
<1>. DEFINE S == {i \in DOMAIN list : list[i].name = n}
<1>1. DOMAIN list = 1..Len(list) /\ Len(list) \in Nat
  BY LenProperties
<1>2. S \in SUBSET Nat /\ IsFiniteSet(S)
  <2>1. IsFiniteSet(1..Len(list))
    BY <1>1, FS_Interval
  <2>2. S \subseteq 1..Len(list)
    BY <1>1
  <2>3. IsFiniteSet(S)
    BY <2>1, <2>2, FS_Subset
  <2>. QED
    BY <1>1, <2>2, <2>3
<1>3. PICK m \in S : TRUE
  BY DEF NamesIn
<1>. HIDE DEF S
<1>4. /\ Cardinality(S) \in Nat
      /\ \A i \in S : Rank(S, i) \in 1..Cardinality(S)
      /\ \A i, j \in S : Rank(S, i) = Rank(S, j) => i = j
      /\ \A k \in 1..Cardinality(S) : \E i \in S : Rank(S, i) = k
  BY <1>2, RankIs
<1>5. 1 \in 1..Cardinality(S)
  BY <1>3, <1>4
<1>6. PICK i \in S : Rank(S, i) = 1
  BY <1>4, <1>5
<1>7. ASSUME NEW j \in S, j < i
      PROVE  FALSE
  <2>. DEFINE A == {x \in S : x <= j}
              B == {x \in S : x <= i}
  <2>1. A \subseteq B
    <3>1. i \in Nat /\ j \in Nat /\ \A x \in S : x \in Nat
      BY <1>2
    <3>2. \A x \in Nat : x <= j => x <= i
      BY <1>7, <3>1
    <3>. QED
      BY <3>1, <3>2
  <2>2. IsFiniteSet(B)
    BY <1>2, FS_Subset
  <2>3. Cardinality(A) <= Cardinality(B)
    BY <2>1, <2>2, FS_Subset
  <2>4. Rank(S, j) <= Rank(S, i)
    BY <2>3 DEF Rank
  <2>5. Rank(S, j) = 1
    BY <1>4, <1>6, <2>4
  <2>6. j = i
    BY <1>4, <1>6, <2>5
  <2>. QED
    BY <1>2, <1>7, <2>6
<1>8. i \in DOMAIN list /\ list[i].name = n
  BY DEF S
<1>9. ASSUME NEW j \in 1..(i - 1), list[j].name = n
      PROVE  FALSE
  <2>1. i \in 1..Len(list)
    BY <1>1, <1>8
  <2>2. j \in 1..Len(list) /\ j < i
    BY <1>1, <2>1
  <2>3. j \in S
    BY <1>1, <1>9, <2>2 DEF S
  <2>. QED
    BY <1>7, <2>2, <2>3
<1>. QED
  BY <1>8, <1>9 DEF IsFirst

\* The jobs of a list as a set.
LEMMA JobsInIs ==
  ASSUME NEW list \in JobLists
  PROVE  /\ JobsIn(list) \subseteq Job /\ Apart(JobsIn(list))
         /\ \A i \in DOMAIN list : list[i] \in JobsIn(list)
         /\ \A i, j \in DOMAIN list : list[i] = list[j] => i = j
<1>1. list \in Seq(Job) /\ \A i, j \in DOMAIN list : list[i].id = list[j].id => i = j
  BY DEF JobLists
<1>2. \A i \in DOMAIN list : list[i] \in Job
  BY <1>1, ElementOfSeq, LenProperties
<1>. QED
  BY <1>1, <1>2 DEF JobsIn, Apart

\* A plan has one command for each job to remove, entry to make a job of, and job to
\* edit, and no others.
LEMMA PlanHas ==
  ASSUME NEW decl \in DeclLists, NEW list \in JobLists
  PROVE  /\ \A k \in DOMAIN Plan(decl, list) :
              \/ \E i \in Leaving(decl, list) : Plan(decl, list)[k] = RemovalOf[list[i]]
              \/ \E i \in Missing(decl, list) : Plan(decl, list)[k] = CreationOf[decl[i]]
              \/ \E i \in Drifted(decl, list) : Plan(decl, list)[k] = EditOf(decl)[list[i]]
         /\ \A i \in Leaving(decl, list) : \E k \in DOMAIN Plan(decl, list) :
              Plan(decl, list)[k] = RemovalOf[list[i]]
         /\ \A i \in Missing(decl, list) : \E k \in DOMAIN Plan(decl, list) :
              Plan(decl, list)[k] = CreationOf[decl[i]]
         /\ \A i \in Drifted(decl, list) : \E k \in DOMAIN Plan(decl, list) :
              Plan(decl, list)[k] = EditOf(decl)[list[i]]
<1>. DEFINE P == Plan(decl, list)
            R == Removes(decl, list)
            C == Creates(decl, list)
            E == Edits(decl, list)
<1>1. /\ \A k \in DOMAIN P :
           \/ k \in DOMAIN R /\ P[k] = R[k]
           \/ \E m \in DOMAIN C : k = m + Len(R) /\ P[k] = C[m]
           \/ \E m \in DOMAIN E : P[k] = E[m]
      /\ \A k \in DOMAIN R : \E m \in DOMAIN P : P[m] = R[k]
      /\ \A k \in DOMAIN C : \E m \in DOMAIN P : P[m] = C[k]
      /\ \A k \in DOMAIN E : \E m \in DOMAIN P : P[m] = E[k]
  BY PlanIs
<1>. HIDE DEF P, R, C, E
<1>2. PICK h \in [DOMAIN R -> Leaving(decl, list)] :
        /\ \A k \in DOMAIN R : R[k] = RemovalOf[list[h[k]]]
        /\ \A i \in Leaving(decl, list) : \E k \in DOMAIN R : h[k] = i
  <2>1. Rewrites(R, list, Leaving(decl, list), RemovalOf)
    BY PartsAre DEF R
  <2>. QED
    BY <2>1, Zenon DEF Rewrites
<1>3. PICK g \in [DOMAIN C -> Missing(decl, list)] :
        /\ \A k \in DOMAIN C : C[k] = CreationOf[decl[g[k]]]
        /\ \A i \in Missing(decl, list) : \E k \in DOMAIN C : g[k] = i
  <2>1. Rewrites(C, decl, Missing(decl, list), CreationOf)
    BY PartsAre DEF C
  <2>. QED
    BY <2>1, Zenon DEF Rewrites
<1>4. PICK f \in [DOMAIN E -> Drifted(decl, list)] :
        /\ \A k \in DOMAIN E : E[k] = EditOf(decl)[list[f[k]]]
        /\ \A i \in Drifted(decl, list) : \E k \in DOMAIN E : f[k] = i
  <2>1. Rewrites(E, list, Drifted(decl, list), EditOf(decl))
    BY PartsAre DEF E
  <2>. QED
    BY <2>1, Zenon DEF Rewrites
<1>5. ASSUME NEW k \in DOMAIN P
      PROVE  \/ \E i \in Leaving(decl, list) : P[k] = RemovalOf[list[i]]
             \/ \E i \in Missing(decl, list) : P[k] = CreationOf[decl[i]]
             \/ \E i \in Drifted(decl, list) : P[k] = EditOf(decl)[list[i]]
  <2>1. CASE k \in DOMAIN R /\ P[k] = R[k]
    BY <1>2, <2>1
  <2>2. CASE \E m \in DOMAIN C : P[k] = C[m]
    BY <1>3, <2>2
  <2>3. CASE \E m \in DOMAIN E : P[k] = E[m]
    BY <1>4, <2>3
  <2>. QED
    BY <1>1, <2>1, <2>2, <2>3
<1>6. \A i \in Leaving(decl, list) : \E k \in DOMAIN P : P[k] = RemovalOf[list[i]]
  BY <1>1, <1>2
<1>7. \A i \in Missing(decl, list) : \E k \in DOMAIN P : P[k] = CreationOf[decl[i]]
  BY <1>1, <1>3
<1>8. \A i \in Drifted(decl, list) : \E k \in DOMAIN P : P[k] = EditOf(decl)[list[i]]
  BY <1>1, <1>4
<1>. QED
  BY <1>5, <1>6, <1>7, <1>8 DEF P

\* What the commands say.
LEMMA CommandsAre ==
  ASSUME NEW decl
  PROVE  /\ \A x \in Job : RemovalOf[x].kind = "remove" /\ RemovalOf[x].id = x.id
         /\ \A d \in Declared : CreationOf[d].kind = "create" /\ CreationOf[d].job = d
         /\ \A x \in Job :
              /\ EditOf(decl)[x].kind =
                   IF EntryOf(decl, x.name).body = x.body THEN "same" ELSE "edit"
              /\ EditOf(decl)[x].id = x.id /\ EditOf(decl)[x].job = EntryOf(decl, x.name)
         /\ \A x \in Job :
              SettingOf(decl)[x].id = x.id /\ SettingOf(decl)[x].job = EntryOf(decl, x.name)
BY DEF RemovalOf, CreationOf, EditOf, SettingOf

\* No two commands of a plan remove the same job or make one of the same entry.
LEMMA PlanOnce ==
  ASSUME NEW decl \in DeclLists, NEW list \in JobLists
  PROVE  CommandsOnce(Plan(decl, list))
<1>. DEFINE P == Plan(decl, list)
            R == Removes(decl, list)
            C == Creates(decl, list)
            E == Edits(decl, list)
<1>1. \A k \in DOMAIN P :
        \/ k \in DOMAIN R /\ P[k] = R[k]
        \/ \E m \in DOMAIN C : k = m + Len(R) /\ P[k] = C[m]
        \/ \E m \in DOMAIN E : P[k] = E[m]
  BY PlanIs
<1>2. /\ \A i \in DOMAIN list : list[i] \in Job
      /\ \A i, j \in DOMAIN list : list[i].id = list[j].id => i = j
  BY ElementOfSeq, LenProperties DEF JobLists
<1>3. /\ \A i \in DOMAIN decl : decl[i] \in Declared
      /\ \A i, j \in DOMAIN decl : decl[i].name = decl[j].name => i = j
  BY ElementOfSeq, LenProperties DEF DeclLists
<1>4. /\ Leaving(decl, list) \subseteq DOMAIN list
      /\ Missing(decl, list) \subseteq DOMAIN decl
      /\ Drifted(decl, list) \subseteq DOMAIN list
  BY DEF Leaving, Missing, Drifted
<1>5. /\ \A k \in DOMAIN R : R[k].kind = "remove"
      /\ \A k, l \in DOMAIN R : R[k].id = R[l].id => k = l
  <2>1. Rewrites(R, list, Leaving(decl, list), RemovalOf)
    BY PartsAre
  <2>. HIDE DEF R
  <2>2. PICK h \in [DOMAIN R -> Leaving(decl, list)] :
          /\ \A k \in DOMAIN R : R[k] = RemovalOf[list[h[k]]]
          /\ \A k, l \in DOMAIN R : h[k] = h[l] => k = l
    BY <2>1, Zenon DEF Rewrites
  <2>3. \A k \in DOMAIN R : list[h[k]] \in Job /\ h[k] \in DOMAIN list
    BY <1>2, <1>4, <2>2
  <2>4. \A k \in DOMAIN R : R[k].kind = "remove" /\ R[k].id = list[h[k]].id
    BY <2>2, <2>3, CommandsAre
  <2>. QED
    BY <1>2, <2>2, <2>3, <2>4
<1>6. /\ \A k \in DOMAIN C : C[k].kind = "create"
      /\ \A k, l \in DOMAIN C : C[k].job.name = C[l].job.name => k = l
  <2>1. Rewrites(C, decl, Missing(decl, list), CreationOf)
    BY PartsAre
  <2>. HIDE DEF C
  <2>2. PICK h \in [DOMAIN C -> Missing(decl, list)] :
          /\ \A k \in DOMAIN C : C[k] = CreationOf[decl[h[k]]]
          /\ \A k, l \in DOMAIN C : h[k] = h[l] => k = l
    BY <2>1, Zenon DEF Rewrites
  <2>3. \A k \in DOMAIN C : decl[h[k]] \in Declared /\ h[k] \in DOMAIN decl
    BY <1>3, <1>4, <2>2
  <2>4. \A k \in DOMAIN C : C[k].kind = "create" /\ C[k].job = decl[h[k]]
    BY <2>2, <2>3, CommandsAre
  <2>. QED
    BY <1>3, <2>2, <2>3, <2>4
<1>7. \A k \in DOMAIN E : E[k].kind \in {"edit", "same"}
  <2>1. Rewrites(E, list, Drifted(decl, list), EditOf(decl))
    BY PartsAre
  <2>. HIDE DEF E
  <2>2. PICK h \in [DOMAIN E -> Drifted(decl, list)] :
          \A k \in DOMAIN E : E[k] = EditOf(decl)[list[h[k]]]
    BY <2>1, Zenon DEF Rewrites
  <2>3. \A k \in DOMAIN E : list[h[k]] \in Job
    BY <1>2, <1>4, <2>2
  <2>. QED
    BY <2>2, <2>3, CommandsAre
<1>. HIDE DEF P, R, C, E
<1>8. SUFFICES ASSUME NEW k \in DOMAIN P, NEW l \in DOMAIN P, Alike(P[k], P[l])
               PROVE  k = l
  BY DEF CommandsOnce, P
<1>9. CASE P[k].kind = "remove" /\ P[l].kind = "remove" /\ P[k].id = P[l].id
  BY <1>1, <1>5, <1>6, <1>7, <1>9
<1>10. CASE P[k].kind = "create" /\ P[l].kind = "create" /\ P[k].job.name = P[l].job.name
  <2>1. PICK m \in DOMAIN C : k = m + Len(R) /\ P[k] = C[m]
    BY <1>1, <1>5, <1>7, <1>10
  <2>2. PICK n \in DOMAIN C : l = n + Len(R) /\ P[l] = C[n]
    BY <1>1, <1>5, <1>7, <1>10
  <2>. QED
    BY <1>6, <1>10, <2>1, <2>2
<1>. QED
  BY <1>8, <1>9, <1>10 DEF Alike

\* From any jobs a plan leads to the declared ones.
LEMMA PlanLeads ==
  ASSUME NEW decl \in DeclLists, NEW list \in JobLists
  PROVE  Leads(decl, Plan(decl, list), JobsIn(list))
<1>. DEFINE P == Plan(decl, list)
            J == JobsIn(list)
            L == Leaving(decl, list)
            M == Missing(decl, list)
            D == Drifted(decl, list)
            has(x) == EntryOf(decl, x.name)
<1>1. /\ \A i \in DOMAIN list : list[i] \in Job
      /\ \A i, j \in DOMAIN list : list[i].id = list[j].id => i = j
      /\ DOMAIN list = 1..Len(list) /\ Len(list) \in Nat /\ list \in Seq(Job)
  BY ElementOfSeq, LenProperties DEF JobLists
<1>2. \A i \in DOMAIN decl : decl[i] \in Declared
  BY ElementOfSeq, LenProperties DEF DeclLists
<1>3. /\ \A k \in DOMAIN P :
           \/ \E i \in L : P[k].kind = "remove" /\ P[k].id = list[i].id
           \/ \E i \in M : P[k].kind = "create" /\ P[k].job = decl[i]
           \/ \E i \in D : /\ P[k].kind \in {"edit", "same"}
                           /\ P[k].id = list[i].id /\ P[k].job = has(list[i])
      /\ \A i \in L : \E k \in DOMAIN P : P[k].kind = "remove" /\ P[k].id = list[i].id
      /\ \A i \in M : \E k \in DOMAIN P : P[k].kind = "create" /\ P[k].job = decl[i]
      /\ \A i \in D : has(list[i]).body # list[i].body =>
           \E k \in DOMAIN P : P[k].kind = "edit" /\ P[k].id = list[i].id
  <2>. DEFINE ed == EditOf(decl)
  <2>1. L \subseteq DOMAIN list /\ M \subseteq DOMAIN decl /\ D \subseteq DOMAIN list
    BY DEF Leaving, Missing, Drifted
  <2>2. /\ \A i \in L : RemovalOf[list[i]].kind = "remove" /\ RemovalOf[list[i]].id = list[i].id
        /\ \A i \in M : CreationOf[decl[i]].kind = "create" /\ CreationOf[decl[i]].job = decl[i]
        /\ \A i \in D : /\ ed[list[i]].kind = IF has(list[i]).body = list[i].body
                                              THEN "same" ELSE "edit"
                        /\ ed[list[i]].id = list[i].id /\ ed[list[i]].job = has(list[i])
    BY <1>1, <1>2, <2>1, CommandsAre
  <2>3. /\ \A k \in DOMAIN P :
             \/ \E i \in L : P[k] = RemovalOf[list[i]]
             \/ \E i \in M : P[k] = CreationOf[decl[i]]
             \/ \E i \in D : P[k] = ed[list[i]]
        /\ \A i \in L : \E k \in DOMAIN P : P[k] = RemovalOf[list[i]]
        /\ \A i \in M : \E k \in DOMAIN P : P[k] = CreationOf[decl[i]]
        /\ \A i \in D : \E k \in DOMAIN P : P[k] = ed[list[i]]
    BY PlanHas
  <2>. HIDE DEF P, L, M, D, ed, has
  <2>4. \A k \in DOMAIN P :
          \/ \E i \in L : P[k].kind = "remove" /\ P[k].id = list[i].id
          \/ \E i \in M : P[k].kind = "create" /\ P[k].job = decl[i]
          \/ \E i \in D : /\ P[k].kind \in {"edit", "same"}
                          /\ P[k].id = list[i].id /\ P[k].job = has(list[i])
    BY <2>2, <2>3
  <2>5. \A i \in D : has(list[i]).body # list[i].body =>
          \E k \in DOMAIN P : P[k].kind = "edit" /\ P[k].id = list[i].id
    BY <2>2, <2>3
  <2>. QED
    BY <2>2, <2>3, <2>4, <2>5
<1>. HIDE DEF P
<1>4. \A i \in DOMAIN list : list[i] \in Kept(P, J) <=> Stays(decl, list, i)
  <2>. SUFFICES ASSUME NEW i \in DOMAIN list
                PROVE  Doomed(P, list[i].id) <=> i \in L
    BY DEF Kept, JobsIn, Leaving
  <2>1. i \in L => Doomed(P, list[i].id)
    BY <1>3 DEF Doomed
  <2>2. ASSUME NEW k \in DOMAIN P, P[k].kind = "remove", P[k].id = list[i].id
        PROVE  i \in L
    <3>1. PICK j \in L : P[k].id = list[j].id
      BY <1>3, <2>2
    <3>2. j \in DOMAIN list
      BY DEF Leaving
    <3>. QED
      BY <1>1, <2>2, <3>1, <3>2
  <2>. QED
    BY <2>1, <2>2 DEF Doomed
<1>5. \A x \in Kept(P, J) : \E i \in DOMAIN list : x = list[i] /\ Stays(decl, list, i)
  BY <1>4 DEF Kept, JobsIn
<1>6. KeptRight(decl, P, J)
  <2>. SUFFICES ASSUME NEW x \in Kept(P, J)
                PROVE  /\ x.name \in NamesIn(decl)
                       /\ \A y \in Kept(P, J) : x.name = y.name => x = y
                       /\ \/ x.body = EntryOf(decl, x.name).body
                          \/ \E k \in DOMAIN P : P[k].kind = "edit" /\ P[k].id = x.id
    BY DEF KeptRight
  <2>1. PICK i \in DOMAIN list : x = list[i] /\ Stays(decl, list, i)
    BY <1>5
  <2>2. ASSUME NEW y \in Kept(P, J), x.name = y.name
        PROVE  x = y
    <3>1. PICK j \in DOMAIN list : y = list[j] /\ Stays(decl, list, j)
      BY <1>5
    <3>2. /\ \A a \in 1..(i - 1) : list[a].name # list[i].name
          /\ \A a \in 1..(j - 1) : list[a].name # list[j].name
      BY <2>1, <3>1 DEF Stays, IsFirst
    <3>3. i = j \/ i \in 1..(j - 1) \/ j \in 1..(i - 1)
      BY <1>1
    <3>. QED
      BY <2>1, <2>2, <3>1, <3>2, <3>3
  <2>3. x.body # EntryOf(decl, x.name).body =>
          \E k \in DOMAIN P : P[k].kind = "edit" /\ P[k].id = x.id
    <3>1. x.body # EntryOf(decl, x.name).body => i \in D
      BY <2>1 DEF Drifted, Changed
    <3>. QED
      BY <1>3, <2>1, <3>1
  <2>. QED
    BY <2>1, <2>2, <2>3 DEF Stays
<1>7. NoneMissing(decl, P, J)
  <2>. SUFFICES ASSUME NEW n \in NamesIn(decl)
                PROVE  \/ \E x \in Kept(P, J) : x.name = n
                       \/ \E k \in DOMAIN P : P[k].kind = "create" /\ P[k].job.name = n
    BY DEF NoneMissing
  <2>1. CASE n \in NamesIn(list)
    <3>1. PICK i \in DOMAIN list : list[i].name = n /\ IsFirst(list, i)
      BY <1>1, <2>1, FirstIs
    <3>. QED
      BY <1>4, <3>1 DEF Stays
  <2>2. CASE n \notin NamesIn(list)
    <3>1. PICK i \in DOMAIN decl : decl[i].name = n
      BY DEF NamesIn
    <3>2. i \in M
      BY <2>2, <3>1 DEF Missing
    <3>. QED
      BY <1>3, <3>1, <3>2
  <2>. QED
    BY <2>1, <2>2
<1>8. CommandsRight(decl, P, J)
  <2>. SUFFICES ASSUME NEW k \in DOMAIN P
                PROVE  CommandRight(decl, P, J, P[k])
    BY DEF CommandsRight
  <2>1. CASE \E i \in L : P[k].kind = "remove" /\ P[k].id = list[i].id
    BY <2>1 DEF CommandRight, JobsIn, Leaving
  <2>2. CASE \E i \in M : P[k].kind = "create" /\ P[k].job = decl[i]
    <3>1. PICK i \in M : P[k].kind = "create" /\ P[k].job = decl[i]
      BY <2>2
    <3>2. i \in DOMAIN decl /\ \A j \in DOMAIN list : list[j].name # decl[i].name
      BY DEF Missing, NamesIn
    <3>3. \A x \in Kept(P, J) : x.name # P[k].job.name
      BY <1>5, <3>1, <3>2
    <3>. QED
      BY <3>1, <3>2, <3>3 DEF CommandRight
  <2>3. CASE \E i \in D : /\ P[k].kind \in {"edit", "same"}
                          /\ P[k].id = list[i].id /\ P[k].job = has(list[i])
    <3>1. PICK i \in D : /\ P[k].kind \in {"edit", "same"}
                         /\ P[k].id = list[i].id /\ P[k].job = has(list[i])
      BY <2>3
    <3>2. list[i] \in Kept(P, J)
      BY <1>4 DEF Drifted
    <3>. QED
      BY <3>1, <3>2 DEF CommandRight
  <2>. QED
    BY <1>3, <2>1, <2>2, <2>3
<1>. QED
  BY <1>6, <1>7, <1>8, PlanOnce DEF Leads, P

\* What is left of the commands after the first is the others, and none is like it.
LEMMA RestIs ==
  ASSUME NEW todo \in Seq(Command), todo # <<>>, CommandsOnce(todo)
  PROVE  /\ CommandsOnce(Tail(todo))
         /\ \A k \in DOMAIN Tail(todo) :
              /\ \E l \in DOMAIN todo : Tail(todo)[k] = todo[l]
              /\ ~Alike(Head(todo), Tail(todo)[k])
         /\ \A l \in DOMAIN todo :
              todo[l] = Head(todo) \/ \E k \in DOMAIN Tail(todo) : Tail(todo)[k] = todo[l]
         /\ Tail(todo) \in Seq(Command) /\ Head(todo) \in Command
         /\ \E l \in DOMAIN todo : Head(todo) = todo[l]
<1>. DEFINE t == Tail(todo)
<1>1. /\ t \in Seq(Command) /\ 1 \in DOMAIN todo /\ Head(todo) = todo[1] /\ Head(todo) \in Command
      /\ \A k \in DOMAIN t : k + 1 \in DOMAIN todo /\ k + 1 # 1 /\ t[k] = todo[k + 1]
      /\ \A k \in DOMAIN todo : k # 1 => k - 1 \in DOMAIN t /\ t[k - 1] = todo[k]
      /\ \A k, l \in DOMAIN t : k + 1 = l + 1 => k = l
  BY TailIs
<1>. HIDE DEF t
<1>2. ASSUME NEW k \in DOMAIN t, NEW l \in DOMAIN t, Alike(t[k], t[l])
      PROVE  k = l
  <2>1. k + 1 = l + 1
    BY <1>1, <1>2 DEF CommandsOnce
  <2>. QED
    BY <1>1, <2>1
<1>3. ASSUME NEW k \in DOMAIN t
      PROVE  /\ \E l \in DOMAIN todo : t[k] = todo[l]
             /\ ~Alike(Head(todo), t[k])
  BY <1>1 DEF CommandsOnce
<1>4. \A l \in DOMAIN todo : todo[l] = Head(todo) \/ \E k \in DOMAIN t : t[k] = todo[l]
  BY <1>1
<1>5. CommandsOnce(t)
  BY <1>2 DEF CommandsOnce
<1>. QED
  BY <1>1, <1>3, <1>4, <1>5 DEF t

\* A job that is to be removed still is, unless it was the first.
LEMMA DoomedRest ==
  ASSUME NEW todo \in Seq(Command), todo # <<>>, CommandsOnce(todo)
  PROVE  \A id : Doomed(Tail(todo), id) <=>
           Doomed(todo, id) /\ ~(Head(todo).kind = "remove" /\ Head(todo).id = id)
<1>. DEFINE t == Tail(todo)
            c == Head(todo)
<1>1. /\ \A k \in DOMAIN t : (\E l \in DOMAIN todo : t[k] = todo[l]) /\ ~Alike(c, t[k])
      /\ \A l \in DOMAIN todo : todo[l] = c \/ \E k \in DOMAIN t : t[k] = todo[l]
  BY RestIs
<1>. HIDE DEF t, c
<1>2. SUFFICES ASSUME NEW id
               PROVE  Doomed(t, id) <=> Doomed(todo, id) /\ ~(c.kind = "remove" /\ c.id = id)
  BY DEF t, c
<1>3. Doomed(t, id) => Doomed(todo, id) /\ ~(c.kind = "remove" /\ c.id = id)
  BY <1>1 DEF Doomed, Alike
<1>4. Doomed(todo, id) /\ ~(c.kind = "remove" /\ c.id = id) => Doomed(t, id)
  BY <1>1 DEF Doomed
<1>. QED
  BY <1>3, <1>4

\* What the rest of the commands leads to, once the first is done: a remove.
LEMMA LeadsRemove ==
  ASSUME NEW decl, NEW J, NEW todo \in Seq(Command), todo # <<>>,
         Leads(decl, todo, J), Head(todo).kind = "remove"
  PROVE  Leads(decl, Tail(todo), {x \in J : x.id # Head(todo).id})
<1>. DEFINE t == Tail(todo)
            c == Head(todo)
            N == {x \in J : x.id # c.id}
<1>0. CommandsOnce(todo)
  BY DEF Leads
<1>1. /\ CommandsOnce(t)
      /\ \A k \in DOMAIN t : (\E l \in DOMAIN todo : t[k] = todo[l]) /\ ~Alike(c, t[k])
      /\ \A l \in DOMAIN todo : todo[l] = c \/ \E k \in DOMAIN t : t[k] = todo[l]
      /\ \E l \in DOMAIN todo : c = todo[l]
  BY <1>0, RestIs
<1>2. \A id : Doomed(t, id) <=> Doomed(todo, id) /\ id # c.id
  BY <1>0, DoomedRest
<1>3. c.kind = "remove"
  OBVIOUS
<1>. HIDE DEF t, c
<1>4. Doomed(todo, c.id)
  BY <1>1, <1>3 DEF Doomed
<1>5. Kept(t, N) = Kept(todo, J)
  BY <1>2, <1>4 DEF Kept
<1>. HIDE DEF N
<1>6. KeptRight(decl, t, N)
  <2>1. \A l \in DOMAIN todo : todo[l].kind = "edit" => \E k \in DOMAIN t : t[k] = todo[l]
    BY <1>1, <1>3
  <2>2. KeptRight(decl, todo, J)
    BY DEF Leads
  <2>. QED
    BY <1>5, <2>1, <2>2 DEF KeptRight
<1>7. NoneMissing(decl, t, N)
  <2>1. \A l \in DOMAIN todo : todo[l].kind = "create" => \E k \in DOMAIN t : t[k] = todo[l]
    BY <1>1, <1>3
  <2>2. NoneMissing(decl, todo, J)
    BY DEF Leads
  <2>. QED
    BY <1>5, <2>1, <2>2 DEF NoneMissing
<1>8. ASSUME NEW k \in DOMAIN t
      PROVE  CommandRight(decl, t, N, t[k])
  <2>1. CommandRight(decl, todo, J, t[k])
    BY <1>1 DEF Leads, CommandsRight
  <2>2. t[k].kind = "remove" => t[k].id # c.id
    BY <1>1, <1>3 DEF Alike
  <2>. QED
    BY <1>5, <2>1, <2>2 DEF CommandRight, N
<1>. QED
  BY <1>1, <1>6, <1>7, <1>8 DEF Leads, CommandsRight, t, c, N

\* A create.
LEMMA LeadsCreate ==
  ASSUME NEW decl \in DeclLists, NEW J, NEW todo \in Seq(Command), todo # <<>>,
         Leads(decl, todo, J), Head(todo).kind = "create",
         NEW j, \A x \in J : x.id # j.id,
         j.name = Head(todo).job.name, j.body = Head(todo).job.body
  PROVE  Leads(decl, Tail(todo), J \cup {j})
<1>. DEFINE t == Tail(todo)
            c == Head(todo)
            N == J \cup {j}
<1>0. CommandsOnce(todo)
  BY DEF Leads
<1>1. /\ CommandsOnce(t)
      /\ \A k \in DOMAIN t : (\E l \in DOMAIN todo : t[k] = todo[l]) /\ ~Alike(c, t[k])
      /\ \A l \in DOMAIN todo : todo[l] = c \/ \E k \in DOMAIN t : t[k] = todo[l]
      /\ \E l \in DOMAIN todo : c = todo[l]
  BY <1>0, RestIs
<1>2. c.kind = "create" /\ j.name = c.job.name /\ j.body = c.job.body
  OBVIOUS
<1>3. \A id : Doomed(t, id) <=> Doomed(todo, id)
  BY <1>0, <1>2, DoomedRest
<1>. HIDE DEF t, c
<1>4. CommandRight(decl, todo, J, c)
  BY <1>1 DEF Leads, CommandsRight
<1>5. PICK i \in DOMAIN decl : c.job = decl[i]
  BY <1>2, <1>4 DEF CommandRight
<1>6. j.name \in NamesIn(decl) /\ j.body = EntryOf(decl, j.name).body
  BY <1>2, <1>5, DeclaredIs DEF NamesIn
<1>7. ~Doomed(todo, j.id)
  BY DEF Doomed, Leads, CommandsRight, CommandRight
<1>8. Kept(t, N) = Kept(todo, J) \cup {j}
  BY <1>3, <1>7 DEF Kept
<1>9. \A x \in Kept(todo, J) : x.name # j.name
  BY <1>2, <1>4 DEF CommandRight
<1>10. KeptRight(decl, t, N)
  <2>1. ASSUME NEW x \in Kept(todo, J)
        PROVE  /\ x.name \in NamesIn(decl)
               /\ \A y \in Kept(todo, J) : x.name = y.name => x = y
               /\ \/ x.body = EntryOf(decl, x.name).body
                  \/ \E k \in DOMAIN t : t[k].kind = "edit" /\ t[k].id = x.id
    BY <1>1, <1>2 DEF Leads, KeptRight
  <2>. QED
    BY <1>6, <1>8, <1>9, <2>1 DEF KeptRight
<1>11. NoneMissing(decl, t, N)
  <2>1. \A l \in DOMAIN todo : todo[l] = c \/ \E k \in DOMAIN t : t[k] = todo[l]
    BY <1>1
  <2>2. NoneMissing(decl, todo, J)
    BY DEF Leads
  <2>. SUFFICES ASSUME NEW n \in NamesIn(decl)
                PROVE  \/ \E x \in Kept(t, N) : x.name = n
                       \/ \E k \in DOMAIN t : t[k].kind = "create" /\ t[k].job.name = n
    BY DEF NoneMissing
  <2>3. CASE \E x \in Kept(todo, J) : x.name = n
    BY <1>8, <2>3
  <2>4. CASE \E l \in DOMAIN todo : todo[l].kind = "create" /\ todo[l].job.name = n
    BY <1>2, <1>8, <2>1, <2>4
  <2>. QED
    BY <2>2, <2>3, <2>4 DEF NoneMissing
<1>12. ASSUME NEW k \in DOMAIN t
       PROVE  CommandRight(decl, t, N, t[k])
  <2>1. CommandRight(decl, todo, J, t[k])
    BY <1>1 DEF Leads, CommandsRight
  <2>2. t[k].kind = "create" => t[k].job.name # j.name
    BY <1>1, <1>2 DEF Alike
  <2>. QED
    BY <1>8, <2>1, <2>2 DEF CommandRight
<1>. QED
  BY <1>1, <1>10, <1>11, <1>12 DEF Leads, CommandsRight, t, c

\* The jobs N are the jobs J, but for the body of the one with the id.
Bodied(J, N, id, body) ==
  LET turned(x, y) == /\ y.id = x.id /\ y.name = x.name
                      /\ y.body = IF x.id = id THEN body ELSE x.body
  IN /\ Apart(J) /\ Apart(N)
     /\ \A x \in J : \E y \in N : turned(x, y)
     /\ \A y \in N : \E x \in J : turned(x, y)

\* An edit.
LEMMA LeadsEdit ==
  ASSUME NEW decl, NEW J, NEW N, NEW todo \in Seq(Command), todo # <<>>,
         Leads(decl, todo, J), Head(todo).kind = "edit",
         Bodied(J, N, Head(todo).id, Head(todo).job.body)
  PROVE  Leads(decl, Tail(todo), N)
<1>. DEFINE t == Tail(todo)
            c == Head(todo)
            turned(x, y) == /\ y.id = x.id /\ y.name = x.name
                            /\ y.body = IF x.id = c.id THEN c.job.body ELSE x.body
<1>0. CommandsOnce(todo)
  BY DEF Leads
<1>1. /\ CommandsOnce(t)
      /\ \A k \in DOMAIN t : \E l \in DOMAIN todo : t[k] = todo[l]
      /\ \A l \in DOMAIN todo : todo[l] = c \/ \E k \in DOMAIN t : t[k] = todo[l]
      /\ \E l \in DOMAIN todo : c = todo[l]
  BY <1>0, RestIs
<1>2. c.kind = "edit"
  OBVIOUS
<1>3. \A id : Doomed(t, id) <=> Doomed(todo, id)
  BY <1>0, <1>2, DoomedRest
<1>4. /\ Apart(J) /\ Apart(N)
      /\ \A x \in J : \E y \in N : turned(x, y)
      /\ \A y \in N : \E x \in J : turned(x, y)
  BY DEF Bodied
<1>. HIDE DEF t, c
<1>5. CommandRight(decl, todo, J, c)
  BY <1>1 DEF Leads, CommandsRight
<1>6. PICK z \in Kept(todo, J) : c.id = z.id /\ c.job = EntryOf(decl, z.name)
  BY <1>2, <1>5 DEF CommandRight
<1>7. /\ \A x \in Kept(todo, J) : \E y \in Kept(t, N) : turned(x, y)
      /\ \A y \in Kept(t, N) : \E x \in Kept(todo, J) : turned(x, y)
  BY <1>3, <1>4 DEF Kept
<1>8. KeptRight(decl, t, N)
  <2>. SUFFICES ASSUME NEW y \in Kept(t, N)
                PROVE  /\ y.name \in NamesIn(decl)
                       /\ \A w \in Kept(t, N) : y.name = w.name => y = w
                       /\ \/ y.body = EntryOf(decl, y.name).body
                          \/ \E k \in DOMAIN t : t[k].kind = "edit" /\ t[k].id = y.id
    BY DEF KeptRight
  <2>1. PICK x \in Kept(todo, J) : turned(x, y)
    BY <1>7
  <2>2. /\ x.name \in NamesIn(decl)
        /\ \A w \in Kept(todo, J) : x.name = w.name => x = w
        /\ \/ x.body = EntryOf(decl, x.name).body
           \/ \E l \in DOMAIN todo : todo[l].kind = "edit" /\ todo[l].id = x.id
    BY DEF Leads, KeptRight
  <2>3. ASSUME NEW w \in Kept(t, N), y.name = w.name
        PROVE  y = w
    <3>1. PICK v \in Kept(todo, J) : turned(v, w)
      BY <1>7
    <3>2. x = v
      BY <2>1, <2>2, <2>3, <3>1
    <3>3. y.id = w.id
      BY <2>1, <3>1, <3>2
    <3>. QED
      BY <1>4, <3>3 DEF Kept, Apart
  <2>4. CASE x.id = c.id
    <3>1. x = z
      BY <1>4, <1>6, <2>4 DEF Kept, Apart
    <3>2. y.body = EntryOf(decl, y.name).body
      BY <1>6, <2>1, <2>4, <3>1
    <3>. QED
      BY <2>1, <2>2, <2>3, <3>2
  <2>5. CASE x.id # c.id
    <3>1. y.body = x.body
      BY <2>1, <2>5
    <3>2. \A l \in DOMAIN todo : todo[l].id = x.id => \E k \in DOMAIN t : t[k] = todo[l]
      BY <1>1, <2>5
    <3>3. \/ y.body = EntryOf(decl, y.name).body
          \/ \E k \in DOMAIN t : t[k].kind = "edit" /\ t[k].id = y.id
      BY <2>1, <2>2, <3>1, <3>2
    <3>. QED
      BY <2>1, <2>2, <2>3, <3>3
  <2>. QED
    BY <2>4, <2>5
<1>9. NoneMissing(decl, t, N)
  <2>1. \A l \in DOMAIN todo : todo[l].kind = "create" => \E k \in DOMAIN t : t[k] = todo[l]
    BY <1>1, <1>2
  <2>2. NoneMissing(decl, todo, J)
    BY DEF Leads
  <2>. QED
    BY <1>7, <2>1, <2>2 DEF NoneMissing
<1>10. ASSUME NEW k \in DOMAIN t
       PROVE  CommandRight(decl, t, N, t[k])
  <2>1. CommandRight(decl, todo, J, t[k])
    BY <1>1 DEF Leads, CommandsRight
  <2>. HIDE DEF turned
  <2>2. \A x, y : turned(x, y) => y.id = x.id /\ y.name = x.name
    BY DEF turned
  <2>3. t[k].kind = "remove" => \E y \in N : y.id = t[k].id
    BY <1>4, <2>1, <2>2 DEF CommandRight
  <2>4. t[k].kind = "create" => \A y \in Kept(t, N) : y.name # t[k].job.name
    BY <1>7, <2>1, <2>2 DEF CommandRight
  <2>5. t[k].kind = "edit" =>
          \E y \in Kept(t, N) : t[k].id = y.id /\ t[k].job = EntryOf(decl, y.name)
    BY <1>7, <2>1, <2>2 DEF CommandRight
  <2>. QED
    BY <2>1, <2>3, <2>4, <2>5 DEF CommandRight
<1>. QED
  BY <1>1, <1>8, <1>9, <1>10 DEF Leads, CommandsRight, t, c

\* An edit of `enabled` alone, for which nothing is done.
LEMMA LeadsSame ==
  ASSUME NEW decl, NEW J, NEW todo \in Seq(Command), todo # <<>>,
         Leads(decl, todo, J), Head(todo).kind = "same"
  PROVE  Leads(decl, Tail(todo), J)
<1>. DEFINE t == Tail(todo)
            c == Head(todo)
<1>0. CommandsOnce(todo)
  BY DEF Leads
<1>1. /\ CommandsOnce(t)
      /\ \A k \in DOMAIN t : \E l \in DOMAIN todo : t[k] = todo[l]
      /\ \A l \in DOMAIN todo : todo[l] = c \/ \E k \in DOMAIN t : t[k] = todo[l]
  BY <1>0, RestIs
<1>2. c.kind = "same"
  OBVIOUS
<1>3. \A id : Doomed(t, id) <=> Doomed(todo, id)
  BY <1>0, <1>2, DoomedRest
<1>. HIDE DEF t, c
<1>4. Kept(t, J) = Kept(todo, J)
  BY <1>3 DEF Kept
<1>5. \A l \in DOMAIN todo : todo[l].kind \in {"edit", "create"} =>
        \E k \in DOMAIN t : t[k] = todo[l]
  BY <1>1, <1>2
<1>6. KeptRight(decl, t, J)
  <2>1. KeptRight(decl, todo, J)
    BY DEF Leads
  <2>. QED
    BY <1>4, <1>5, <2>1 DEF KeptRight
<1>7. NoneMissing(decl, t, J)
  <2>1. NoneMissing(decl, todo, J)
    BY DEF Leads
  <2>. QED
    BY <1>4, <1>5, <2>1 DEF NoneMissing
<1>8. CommandsRight(decl, t, J)
  BY <1>1, <1>4 DEF Leads, CommandsRight, CommandRight
<1>. QED
  BY <1>1, <1>6, <1>7, <1>8 DEF Leads, t

\* The jobs N are the jobs J, but for `enabled` of the one with the id.
SetOn(J, N, id, on) ==
  LET set(x, y) == /\ y.id = x.id /\ y.name = x.name /\ y.body = x.body
                   /\ x.id = id => y.enabled = on
                   /\ x.id # id => y.enabled = x.enabled
  IN /\ Apart(J) /\ Apart(N)
     /\ \A x \in J : \E y \in N : set(x, y)
     /\ \A y \in N : \E x \in J : set(x, y)

\* Where nothing is left to do, it changes nothing of what is led to.
LEMMA LeadsOn ==
  ASSUME NEW decl, NEW J, NEW N, NEW id, NEW on, SetOn(J, N, id, on), Leads(decl, <<>>, J)
  PROVE  Leads(decl, <<>>, N)
<1>. DEFINE like(x, y) == y.id = x.id /\ y.name = x.name /\ y.body = x.body
<1>1. /\ Apart(J) /\ Apart(N)
      /\ \A x \in J : \E y \in N : like(x, y)
      /\ \A y \in N : \E x \in J : like(x, y)
  BY DEF SetOn
<1>2. \A X : Kept(<<>>, X) = X
  BY DEF Kept, Doomed
<1>3. /\ \A x \in J : /\ x.name \in NamesIn(decl)
                      /\ \A y \in J : x.name = y.name => x = y
                      /\ x.body = EntryOf(decl, x.name).body
      /\ \A n \in NamesIn(decl) : \E x \in J : x.name = n
  BY <1>2 DEF Leads, KeptRight, NoneMissing
<1>4. KeptRight(decl, <<>>, N)
  <2>1. \A x, y \in N : x.name = y.name => x = y
    BY <1>1, <1>3 DEF Apart
  <2>2. \A x \in N : x.name \in NamesIn(decl) /\ x.body = EntryOf(decl, x.name).body
    BY <1>1, <1>3
  <2>. QED
    BY <1>2, <2>1, <2>2 DEF KeptRight
<1>5. NoneMissing(decl, <<>>, N)
  BY <1>1, <1>2, <1>3 DEF NoneMissing
<1>6. CommandsRight(decl, <<>>, N) /\ CommandsOnce(<<>>)
  BY DEF CommandsRight, CommandsOnce
<1>. QED
  BY <1>4, <1>5, <1>6 DEF Leads

\* And the jobs are nearer to being as enabled as declared.
LEMMA SettlesOn ==
  ASSUME NEW decl, NEW J, NEW N, NEW todo \in Seq(Command), todo # <<>>,
         Settles(decl, todo, J), SetOn(J, N, Head(todo).id, Head(todo).job.enabled)
  PROVE  Settles(decl, Tail(todo), N)
<1>. DEFINE t == Tail(todo)
            c == Head(todo)
            set(x, y) == /\ y.id = x.id /\ y.name = x.name /\ y.body = x.body
                         /\ x.id = c.id => y.enabled = c.job.enabled
                         /\ x.id # c.id => y.enabled = x.enabled
<1>1. \A y \in N : \E x \in J : set(x, y)
  BY DEF SetOn
<1>2. /\ 1 \in DOMAIN todo /\ c = todo[1]
      /\ \A k \in DOMAIN t : k + 1 \in DOMAIN todo /\ t[k] = todo[k + 1]
      /\ \A k \in DOMAIN todo : k # 1 => k - 1 \in DOMAIN t /\ t[k - 1] = todo[k]
  BY TailIs
<1>. HIDE DEF t, c
<1>3. /\ \A x \in J : \/ x.enabled = EntryOf(decl, x.name).enabled
                      \/ \E k \in DOMAIN todo : todo[k].id = x.id
      /\ \A x \in J, k \in DOMAIN todo :
           todo[k].id = x.id => todo[k].job.enabled = EntryOf(decl, x.name).enabled
  BY DEF Settles
<1>4. ASSUME NEW y \in N
      PROVE  /\ \/ y.enabled = EntryOf(decl, y.name).enabled
                \/ \E k \in DOMAIN t : t[k].id = y.id
             /\ \A k \in DOMAIN t :
                  t[k].id = y.id => t[k].job.enabled = EntryOf(decl, y.name).enabled
  <2>1. PICK x \in J : set(x, y)
    BY <1>1
  <2>2. \A k \in DOMAIN t :
          t[k].id = y.id => t[k].job.enabled = EntryOf(decl, y.name).enabled
    BY <1>2, <1>3, <2>1
  <2>3. CASE x.id = c.id
    BY <1>2, <1>3, <2>1, <2>2, <2>3
  <2>4. CASE x.id # c.id
    BY <1>2, <1>3, <2>1, <2>2, <2>4
  <2>. QED
    BY <2>3, <2>4
<1>. QED
  BY <1>4 DEF Settles, t

\* The jobs of a file are a list in which an id stands for one job.
LEMMA BoxCronsListed == \A f \in Files : BoxCrons(f) \in JobLists
BY JobListsPicked DEF BoxCrons, Files

\* The pauses and resumes of the end make every job as enabled as declared.
LEMMA SettlesToggles ==
  ASSUME NEW decl \in DeclLists, NEW list \in JobLists, Leads(decl, <<>>, JobsIn(list))
  PROVE  Settles(decl, Toggles(decl, list), JobsIn(list))
<1>. DEFINE T == Toggles(decl, list)
            M == Misset(decl, list)
            has(x) == EntryOf(decl, x.name)
<1>1. /\ \A i \in DOMAIN list : list[i] \in Job
      /\ \A i, j \in DOMAIN list : list[i].id = list[j].id => i = j
  BY ElementOfSeq, LenProperties DEF JobLists
<1>2. M \subseteq DOMAIN list
  BY DEF Misset
<1>3. /\ \A k \in DOMAIN T : \E i \in M : T[k].id = list[i].id /\ T[k].job = has(list[i])
      /\ \A i \in M : \E k \in DOMAIN T : T[k].id = list[i].id
  <2>1. Rewrites(T, list, M, SettingOf(decl))
    BY PartsAre
  <2>. HIDE DEF T, M
  <2>2. PICK h \in [DOMAIN T -> M] :
          /\ \A k \in DOMAIN T : T[k] = SettingOf(decl)[list[h[k]]]
          /\ \A i \in M : \E k \in DOMAIN T : h[k] = i
    BY <2>1, Zenon DEF Rewrites
  <2>3. \A k \in DOMAIN T : h[k] \in M /\ list[h[k]] \in Job
    BY <1>1, <1>2, <2>2
  <2>4. \A k \in DOMAIN T : T[k].id = list[h[k]].id /\ T[k].job = has(list[h[k]])
    BY <2>2, <2>3, CommandsAre
  <2>. QED
    BY <2>2, <2>3, <2>4
<1>. HIDE DEF T
<1>4. \A i \in DOMAIN list : list[i].name \in NamesIn(decl)
  BY DEF Leads, KeptRight, Kept, Doomed, JobsIn
<1>5. \A i \in DOMAIN list : list[i].enabled = has(list[i]).enabled
                             \/ \E k \in DOMAIN T : T[k].id = list[i].id
  BY <1>3, <1>4 DEF Misset
<1>6. \A i \in DOMAIN list, k \in DOMAIN T :
        T[k].id = list[i].id => T[k].job.enabled = has(list[i]).enabled
  BY <1>1, <1>2, <1>3
<1>. QED
  BY <1>5, <1>6 DEF Settles, JobsIn, T

\* Where nothing is left to do, the box has what is declared, and the next run finds
\* nothing to do.
LEMMA LeadsThere ==
  ASSUME NEW decl \in DeclLists, NEW list \in JobLists,
         Leads(decl, <<>>, JobsIn(list)), Settles(decl, <<>>, JobsIn(list))
  PROVE  Matches(decl, list) /\ Plan(decl, list) = <<>>
<1>. DEFINE has(x) == EntryOf(decl, x.name)
<1>1. /\ \A i, j \in DOMAIN list : list[i] = list[j] => i = j
      /\ DOMAIN list = 1..Len(list) /\ Len(list) \in Nat
  <2>1. list \in Seq(Job)
    BY DEF JobLists
  <2>. QED
    BY <2>1, JobsInIs, LenProperties
<1>2. /\ \A i \in DOMAIN list : /\ list[i].name \in NamesIn(decl)
                                /\ list[i].body = has(list[i]).body
                                /\ list[i].enabled = has(list[i]).enabled
      /\ \A i, j \in DOMAIN list : list[i].name = list[j].name => list[i] = list[j]
      /\ \A n \in NamesIn(decl) : \E i \in DOMAIN list : list[i].name = n
  BY DEF Leads, KeptRight, NoneMissing, Kept, Doomed, JobsIn, Settles
<1>3. \A i, j \in DOMAIN list : list[i].name = list[j].name => i = j
  BY <1>1, <1>2
<1>4. Matches(decl, list)
  <2>1. ASSUME NEW n \in DOMAIN decl
        PROVE  \E i \in DOMAIN list :
                 /\ list[i].name = decl[n].name /\ list[i].body = decl[n].body
                 /\ list[i].enabled = decl[n].enabled
                 /\ \A j \in DOMAIN list : list[j].name = decl[n].name => i = j
    <3>1. decl[n].name \in NamesIn(decl)
      BY DEF NamesIn
    <3>2. PICK i \in DOMAIN list : list[i].name = decl[n].name
      BY <1>2, <3>1
    <3>3. has(list[i]) = decl[n]
      BY <3>2, DeclaredIs
    <3>. QED
      BY <1>2, <1>3, <3>2, <3>3
  <2>. QED
    BY <1>2, <2>1 DEF Matches
<1>5. \A i \in DOMAIN list : IsFirst(list, i)
  <2>. SUFFICES ASSUME NEW i \in DOMAIN list, NEW j \in 1..(i - 1), list[j].name = list[i].name
                PROVE  FALSE
    BY DEF IsFirst
  <2>1. i \in Nat /\ i <= Len(list)
    BY <1>1
  <2>2. j \in DOMAIN list /\ j # i
    BY <1>1, <2>1
  <2>. QED
    BY <1>3, <2>2
<1>6. Leaving(decl, list) = {}
  BY <1>2, <1>5 DEF Leaving, Stays
<1>7. Missing(decl, list) = {}
  BY <1>2 DEF Missing, NamesIn
<1>8. Drifted(decl, list) = {}
  BY <1>2 DEF Drifted, Changed
<1>. QED
  BY <1>4, <1>6, <1>7, <1>8, PlanIs

\* The next command of a plan, done by the CLI.
LEMMA ApplyLeads ==
  ASSUME FilesTyped, RunTyped, Apply
  PROVE  /\ jobs' \in Files
         /\ Leads(run.decl, run.todo, JobsIn(BoxCrons(jobs))) =>
              Leads(run.decl, Tail(run.todo), JobsIn(BoxCrons(jobs')))
<1>. DEFINE L == BoxCrons(jobs)
            J == JobsIn(L)
            c == Head(run.todo)
            decl == run.decl
            todo == run.todo
<1>1. /\ decl \in DeclLists /\ todo \in Seq(Command) /\ todo # <<>>
      /\ c.job \in Declared
  <2>1. todo \in Seq(Command) /\ todo # <<>>
    BY DEF RunTyped, Apply
  <2>2. c \in Command
    BY <2>1, TailIs
  <2>. QED
    BY <2>1, <2>2 DEF RunTyped, Command
<1>2. L \in JobLists /\ Apart(J) /\ J \subseteq Job
  BY CliReadsIs, JobsInIs
<1>3. ASSUME c.kind = "remove", CliRemove(c.id)
      PROVE  jobs' \in Files /\ (Leads(decl, todo, J) =>
                                  Leads(decl, Tail(todo), JobsIn(BoxCrons(jobs'))))
  <2>1. /\ jobs' \in Files
        /\ Picks(BoxCrons(jobs'), L, {i \in DOMAIN L : L[i].id # c.id})
    BY <1>3, CliRemoves
  <2>2. JobsIn(BoxCrons(jobs')) = {x \in J : x.id # c.id}
    <3>. DEFINE N == BoxCrons(jobs')
                S == {i \in DOMAIN L : L[i].id # c.id}
    <3>1. PICK h \in [DOMAIN N -> S] :
            /\ \A k \in DOMAIN N : N[k] = L[h[k]]
            /\ \A i \in S : \E k \in DOMAIN N : h[k] = i
      BY <2>1, Zenon DEF Picks
    <3>. HIDE DEF N, L, c
    <3>2. JobsIn(N) = {x \in J : x.id # c.id}
      BY <3>1 DEF JobsIn
    <3>. QED
      BY <3>2 DEF N
  <2>. QED
    BY <1>1, <1>3, <2>1, <2>2, LeadsRemove
<1>4. ASSUME c.kind = "create", CliCreate(c.job)
      PROVE  jobs' \in Files /\ (Leads(decl, todo, J) =>
                                  Leads(decl, Tail(todo), JobsIn(BoxCrons(jobs'))))
  <2>1. jobs' \in Files
    BY <1>1, <1>4, CliCreates
  <2>2. PICK j \in Job : /\ BoxCrons(jobs') = Append(L, j)
                         /\ j.id \notin IdsIn(L)
                         /\ j.name = c.job.name /\ j.body = c.job.body
    BY <1>1, <1>4, CliCreates
  <2>3. JobsIn(BoxCrons(jobs')) = J \cup {j}
    <3>1. L \in Seq(Job)
      BY <1>2 DEF JobLists
    <3>. HIDE DEF L
    <3>2. DOMAIN L = 1..Len(L) /\ Len(L) \in Nat
      BY <3>1, LenProperties
    <3>3. /\ Len(Append(L, j)) = Len(L) + 1
          /\ \A i \in 1..Len(L) : Append(L, j)[i] = L[i]
          /\ Append(L, j)[Len(L) + 1] = j
          /\ Append(L, j) \in Seq(Job)
      BY <3>1, AppendProperties
    <3>4. DOMAIN Append(L, j) = 1..(Len(L) + 1)
      BY <3>3, LenProperties
    <3>. DEFINE N == Append(L, j)
    <3>. HIDE DEF N
    <3>5. {N[i] : i \in 1..(Len(L) + 1)} = {L[i] : i \in 1..Len(L)} \cup {j}
      <4>1. 1..(Len(L) + 1) = 1..Len(L) \cup {Len(L) + 1}
        BY <3>2
      <4>. QED
        BY <3>3, <4>1 DEF N
    <3>. QED
      BY <2>2, <3>2, <3>4, <3>5 DEF JobsIn, N
  <2>4. \A x \in J : x.id # j.id
    BY <2>2 DEF JobsIn, IdsIn
  <2>. QED
    BY <1>1, <1>4, <2>1, <2>2, <2>3, <2>4, LeadsCreate
<1>5. ASSUME c.kind = "edit", CliEdit(c.id, c.job)
      PROVE  jobs' \in Files /\ (Leads(decl, todo, J) =>
                                  Leads(decl, Tail(todo), JobsIn(BoxCrons(jobs'))))
  <2>. DEFINE N == BoxCrons(jobs')
  <2>1. /\ jobs' \in Files /\ SameJobs(L, N)
        /\ \A i \in DOMAIN L : N[i].body = IF L[i].id = c.id THEN c.job.body ELSE L[i].body
    BY <1>1, <1>5, CliEdits
  <2>2. Apart(JobsIn(N))
    BY <2>1, BoxCronsListed, JobsInIs
  <2>. HIDE DEF N
  <2>3. Bodied(J, JobsIn(N), c.id, c.job.body)
    BY <1>2, <2>1, <2>2 DEF Bodied, SameJobs, JobsIn
  <2>. QED
    BY <1>1, <1>5, <2>1, <2>3, LeadsEdit DEF N
<1>6. ASSUME c.kind = "same", UNCHANGED jobs
      PROVE  jobs' \in Files /\ (Leads(decl, todo, J) =>
                                  Leads(decl, Tail(todo), JobsIn(BoxCrons(jobs'))))
  BY <1>1, <1>6, LeadsSame DEF FilesTyped
<1>. QED
  BY <1>3, <1>4, <1>5, <1>6 DEF Apply

\* The next pause or resume.
LEMMA EnableSettles ==
  ASSUME FilesTyped, RunTyped, SetEnabled
  PROVE  /\ jobs' \in Files
         /\ /\ Leads(run.decl, <<>>, JobsIn(BoxCrons(jobs)))
            /\ Settles(run.decl, run.todo, JobsIn(BoxCrons(jobs)))
            => /\ Leads(run.decl, <<>>, JobsIn(BoxCrons(jobs')))
               /\ Settles(run.decl, Tail(run.todo), JobsIn(BoxCrons(jobs')))
<1>. DEFINE L == BoxCrons(jobs)
            N == BoxCrons(jobs')
            J == JobsIn(L)
            c == Head(run.todo)
            todo == run.todo
<1>1. todo \in Seq(Command) /\ todo # <<>>
  BY DEF RunTyped, SetEnabled
<1>2. c.job.enabled \in BOOLEAN
  <2>1. c \in Command
    BY <1>1, TailIs
  <2>2. c.job \in Declared
    BY <2>1 DEF Command
  <2>. QED
    BY <2>2 DEF Declared
<1>3. L \in JobLists /\ Apart(J)
  BY CliReadsIs, JobsInIs
<1>4. /\ jobs' \in Files /\ SameJobs(L, N)
      /\ \A i \in DOMAIN L : /\ N[i].body = L[i].body
                             /\ L[i].id = c.id => N[i].enabled = c.job.enabled
                             /\ L[i].id # c.id => N[i].enabled = L[i].enabled
  BY <1>2, CliEnables DEF SetEnabled
<1>5. Apart(JobsIn(N))
  BY <1>4, BoxCronsListed, JobsInIs
<1>. HIDE DEF N, L, c
<1>6. SetOn(J, JobsIn(N), c.id, c.job.enabled)
  BY <1>3, <1>4, <1>5 DEF SetOn, SameJobs, JobsIn
<1>7. Leads(run.decl, <<>>, J) => Leads(run.decl, <<>>, JobsIn(N))
  BY <1>6, LeadsOn
<1>8. Settles(run.decl, todo, J) => Settles(run.decl, Tail(todo), JobsIn(N))
  BY <1>1, <1>6, SettlesOn DEF c
<1>. QED
  BY <1>4, <1>7, <1>8 DEF L, N

\* The fields of a reconciliation.
RunOf(v) ==
  /\ v.pc \in {"idle", "stop", "apply", "pause", "start"}
  /\ v.decl \in DeclLists /\ v.todo \in Seq(Command)
  /\ v.alive \in BOOLEAN /\ v.ok \in BOOLEAN /\ v.quiet \in BOOLEAN

\* Its steps and those of others keep them.
LEMMA RunTypedStep ==
  ASSUME FilesTyped, RunTyped,
         \/ ReconcileStep
         \/ \E decl \in Lists : BeginReconcile(decl)
         \/ Noticed /\ UNCHANGED lost
         \/ UNCHANGED <<run, lost>>
  PROVE  RunTyped'
<1>. DEFINE Pcs == {"idle", "stop", "apply", "pause", "start"}
<1>1. RunInv' /\ RunInv
  <2>1. CASE UNCHANGED <<run, lost>>
    BY <2>1 DEF RunTyped, RunInv
  <2>2. CASE ~UNCHANGED <<run, lost>>
    BY <2>2, RunInvStep DEF RunTyped
  <2>. QED
    BY <2>1, <2>2
<1>2. RunOf(run) /\ lost \in 0..MaxLost
  BY DEF RunTyped, RunOf
<1>3. SUFFICES RunOf(run') /\ lost' \in 0..MaxLost
  BY <1>1 DEF RunTyped, RunOf
<1>4. BoxCrons(jobs) \in JobLists
  BY BoxCronsListed DEF FilesTyped
<1>5. <<>> \in DeclLists /\ <<>> \in Seq(Command)
  BY DeclaredIs, EmptySeq
<1>6. RunOf(Idle) /\ \A ok \in BOOLEAN : RunOf(Ended(ok))
  BY <1>5 DEF RunOf, Ended, Idle
<1>7. CASE UNCHANGED <<run, lost>>
  BY <1>2, <1>7
<1>8. CASE Noticed /\ UNCHANGED lost
  BY <1>1, <1>2, <1>8 DEF Noticed, RunOf, RunInv, RunFields
<1>9. CASE \E decl \in Lists : BeginReconcile(decl)
  <2>1. PICK decl \in Lists : BeginReconcile(decl)
    BY <1>9
  <2>2. decl \in DeclLists
    BY DeclaredIs
  <2>. DEFINE todo == Plan(decl, BoxCrons(jobs))
              q == gateway => sched = jobs.list
              new == [pc |-> "stop", decl |-> decl, todo |-> todo, alive |-> TRUE,
                      ok |-> TRUE, quiet |-> q]
  <2>3. todo \in Seq(Command)
    BY <1>4, <2>2, PlanIs
  <2>4. q \in BOOLEAN
    OBVIOUS
  <2>5. run' = Idle \/ run' = new
    BY <2>1 DEF BeginReconcile
  <2>6. lost' = lost
    BY <2>1 DEF BeginReconcile
  <2>. HIDE DEF todo, q
  <2>7. /\ new.pc = "stop" /\ new.decl = decl /\ new.todo = todo
        /\ new.alive = TRUE /\ new.ok = TRUE
    OBVIOUS
  <2>8. new.quiet \in BOOLEAN
    BY <2>4, Zenon
  <2>. HIDE DEF new
  <2>9. RunOf(new)
    BY <2>2, <2>3, <2>7, <2>8 DEF RunOf
  <2>. QED
    BY <1>2, <1>6, <2>5, <2>6, <2>9
<1>10. CASE ReconcileStep
  <2>1. \/ \E ok \in BOOLEAN : run' = Ended(ok) /\ lost' = lost
        \/ \E pc \in Pcs : run' = [run EXCEPT !.pc = pc] /\ lost' = lost
        \/ \E todo \in Seq(Command) : run' = [run EXCEPT !.todo = todo] /\ lost' = lost
        \/ \E todo \in Seq(Command) :
             run' = [run EXCEPT !.pc = "pause", !.todo = todo] /\ lost' = lost
        \/ run' = [run EXCEPT !.pc = "start", !.ok = FALSE, !.todo = <<>>] /\ lost' = lost
        \/ run' = [run EXCEPT !.alive = FALSE] /\ lost' = lost + 1 /\ lost < MaxLost
    <3>1. CASE GatewayStopped
      BY <3>1 DEF GatewayStopped
    <3>2. CASE StopFails \/ GatewayStarted \/ StartFails
      BY <1>2, <3>2 DEF StopFails, GatewayStarted, StartFails, RunOf
    <3>3. CASE Apply \/ SetEnabled
      <4>1. run.todo # <<>> /\ run' = [run EXCEPT !.todo = Tail(run.todo)] /\ lost' = lost
        BY <3>3 DEF Apply, SetEnabled
      <4>2. Tail(run.todo) \in Seq(Command)
        BY <1>2, <4>1, TailIs DEF RunOf
      <4>. QED
        BY <4>1, <4>2
    <3>4. CASE CommandFails
      BY <3>4 DEF CommandFails
    <3>5. CASE EndApply
      <4>1. run' = [run EXCEPT !.pc = "pause", !.todo = Toggles(run.decl, BoxCrons(jobs))]
            /\ lost' = lost
        BY <3>5 DEF EndApply
      <4>2. Toggles(run.decl, BoxCrons(jobs)) \in Seq(Command)
        BY <1>2, <1>4, PartsAre DEF RunOf
      <4>. QED
        BY <4>1, <4>2
    <3>6. CASE EndPause
      BY <3>6 DEF EndPause
    <3>7. CASE Disconnect
      BY <3>7 DEF Disconnect
    <3>. QED
      BY <1>10, <3>1, <3>2, <3>3, <3>4, <3>5, <3>6, <3>7 DEF ReconcileStep
  <2>2. lost' \in 0..MaxLost
    <3>1. lost' = lost \/ (lost' = lost + 1 /\ lost < MaxLost)
      BY <2>1
    <3>. QED
      BY <1>2, <3>1, ReconcileAssumption
  <2>3. RunOf(run')
    BY <1>1, <1>2, <1>5, <1>6, <2>1 DEF RunOf, RunInv, RunFields
  <2>. QED
    BY <2>2, <2>3
<1>. QED
  BY <1>7, <1>8, <1>9, <1>10

\* A reconciliation and the scheduler leave lists of jobs in the file and in memory.
LEMMA FilesTypedApart ==
  ASSUME FilesTyped, RunTyped,
         \/ ReconcileStep
         \/ \E decl \in Lists : BeginReconcile(decl)
         \/ SchedulerSave
         \/ UNCHANGED boxVars
  PROVE  FilesTyped'
<1>1. <<>> \in JobLists /\ jobs.list \in JobLists
  BY JobListsPicked DEF FilesTyped, Files
<1>2. CASE SchedulerSave
  BY <1>2 DEF SchedulerSave, FilesTyped, Files
<1>3. CASE UNCHANGED boxVars
  BY <1>3 DEF boxVars, FilesTyped
<1>4. CASE \E decl \in Lists : BeginReconcile(decl)
  BY <1>4 DEF BeginReconcile, boxVars, FilesTyped
<1>5. CASE Apply
  BY <1>5, ApplyLeads DEF Apply, FilesTyped
<1>6. CASE SetEnabled
  BY <1>6, EnableSettles DEF SetEnabled, FilesTyped
<1>7. CASE GatewayStopped \/ StopFails \/ GatewayStarted \/ StartFails
  BY <1>1, <1>7 DEF GatewayStopped, StopFails, GatewayStarted, StartFails, StopGateway,
     StartGateway, FilesTyped
<1>8. CASE CommandFails \/ EndApply \/ EndPause \/ Disconnect
  BY <1>8 DEF CommandFails, EndApply, EndPause, Disconnect, boxVars, FilesTyped
<1>. QED
  BY <1>2, <1>3, <1>4, <1>5, <1>6, <1>7, <1>8 DEF ReconcileStep

\* The steps of a reconciliation that nobody disturbs.
LEMMA ReconcileInvOwn ==
  ASSUME FilesTyped, RunTyped, ReconcileInv,
         ReconcileStep \/ \E decl \in Lists : BeginReconcile(decl)
  PROVE  ReconcileInv'
<1>. DEFINE L == BoxCrons(jobs)
            J == JobsIn(BoxCrons(jobs))
<1>1. L \in JobLists /\ L' = BoxCrons(jobs')
  BY BoxCronsListed DEF FilesTyped
<1>2. /\ RunInv /\ run.decl \in DeclLists /\ run.todo \in Seq(Command)
  BY DEF RunTyped
<1>3. CASE run' = Idle \/ \E ok : run' = Ended(ok)
  BY <1>3 DEF ReconcileInv, Ended, Idle
<1>4. CASE \E decl \in Lists : BeginReconcile(decl)
  <2>1. PICK decl \in Lists : BeginReconcile(decl)
    BY <1>4
  <2>2. \/ run' = Idle
        \/ /\ run'.pc = "stop" /\ run'.decl = decl /\ run'.todo = Plan(decl, L)
           /\ run'.quiet => (gateway => sched = jobs.list)
    <3>. DEFINE q == gateway => sched = jobs.list
                new == [pc |-> "stop", decl |-> decl, todo |-> Plan(decl, L), alive |-> TRUE,
                        ok |-> TRUE, quiet |-> q]
    <3>1. run' = Idle \/ run' = new
      BY <2>1 DEF BeginReconcile
    <3>. HIDE DEF q
    <3>2. new.pc = "stop" /\ new.decl = decl /\ new.todo = Plan(decl, L) /\ new.quiet = q
      BY Zenon
    <3>. HIDE DEF new
    <3>. QED
      BY <3>1, <3>2 DEF q
  <2>3. UNCHANGED <<jobs, gateway, sched>>
    BY <2>1 DEF BeginReconcile, boxVars
  <2>. QED
    BY <1>3, <2>2, <2>3 DEF ReconcileInv
<1>5. CASE GatewayStopped
  <2>1. /\ run'.pc = "apply" /\ run'.decl = run.decl /\ run'.todo = run.todo
        /\ run'.quiet = run.quiet /\ ~gateway' /\ jobs' = jobs
    BY <1>2, <1>5 DEF GatewayStopped, StopGateway, RunInv, RunFields
  <2>2. run.quiet => run.todo = Plan(run.decl, L)
    BY <1>5 DEF GatewayStopped, ReconcileInv
  <2>3. run.quiet => Leads(run.decl, run.todo, J)
    BY <1>1, <1>2, <2>2, PlanLeads
  <2>. QED
    BY <2>1, <2>3 DEF ReconcileInv
<1>6. CASE Apply
  <2>1. /\ run'.pc = "apply" /\ run'.decl = run.decl /\ run'.todo = Tail(run.todo)
        /\ run'.quiet = run.quiet /\ gateway' = gateway /\ run.pc = "apply"
    BY <1>2, <1>6 DEF Apply, RunInv, RunFields
  <2>2. Leads(run.decl, run.todo, J) =>
          Leads(run.decl, Tail(run.todo), JobsIn(BoxCrons(jobs')))
    BY <1>6, ApplyLeads
  <2>. QED
    BY <2>1, <2>2 DEF ReconcileInv
<1>7. CASE CommandFails
  <2>1. /\ run'.pc = "start" /\ run'.ok = FALSE /\ run'.quiet = run.quiet
        /\ gateway' = gateway /\ run.pc \in {"apply", "pause"}
    BY <1>2, <1>7 DEF CommandFails, boxVars, RunInv, RunFields
  <2>. QED
    BY <2>1 DEF ReconcileInv
<1>8. CASE EndApply
  <2>1. /\ run'.pc = "pause" /\ run'.decl = run.decl /\ run'.todo = Toggles(run.decl, L)
        /\ run'.quiet = run.quiet /\ UNCHANGED <<jobs, gateway>>
        /\ run.pc = "apply" /\ run.todo = <<>>
    BY <1>2, <1>8 DEF EndApply, boxVars, RunInv, RunFields
  <2>2. Leads(run.decl, <<>>, J) => Settles(run.decl, Toggles(run.decl, L), J)
    BY <1>1, <1>2, SettlesToggles
  <2>. QED
    BY <2>1, <2>2 DEF ReconcileInv
<1>9. CASE SetEnabled
  <2>1. /\ run'.pc = "pause" /\ run'.decl = run.decl /\ run'.todo = Tail(run.todo)
        /\ run'.quiet = run.quiet /\ gateway' = gateway /\ run.pc = "pause"
    BY <1>2, <1>9 DEF SetEnabled, RunInv, RunFields
  <2>2. Leads(run.decl, <<>>, J) /\ Settles(run.decl, run.todo, J) =>
          /\ Leads(run.decl, <<>>, JobsIn(BoxCrons(jobs')))
          /\ Settles(run.decl, Tail(run.todo), JobsIn(BoxCrons(jobs')))
    BY <1>9, EnableSettles
  <2>. QED
    BY <2>1, <2>2 DEF ReconcileInv
<1>10. CASE EndPause
  <2>1. /\ run'.pc = "start" /\ run'.decl = run.decl
        /\ run'.quiet = run.quiet /\ UNCHANGED <<jobs, gateway>>
        /\ run.pc = "pause" /\ run.todo = <<>>
    BY <1>2, <1>10 DEF EndPause, boxVars, RunInv, RunFields
  <2>. QED
    BY <2>1 DEF ReconcileInv
<1>11. CASE Disconnect
  <2>1. /\ run'.pc = run.pc /\ run'.decl = run.decl /\ run'.todo = run.todo
        /\ run'.quiet = run.quiet /\ run'.ok = run.ok /\ UNCHANGED <<jobs, gateway, sched>>
    BY <1>2, <1>11 DEF Disconnect, boxVars, RunInv, RunFields
  <2>. QED
    BY <2>1 DEF ReconcileInv
<1>12. CASE StopFails \/ GatewayStarted \/ StartFails
  BY <1>3, <1>12 DEF StopFails, GatewayStarted, StartFails
<1>. QED
  BY <1>4, <1>5, <1>6, <1>7, <1>8, <1>9, <1>10, <1>11, <1>12 DEF ReconcileStep

\* A request that stops or starts the gateway leaves the scheduler with nothing or
\* with what is in the file.
LEMMA SchedulerMoves ==
  ASSUME NEW r \in Reqs, RequestStep(r)
  PROVE  \/ UNCHANGED <<gateway, sched>>
         \/ sched' = jobs.list /\ jobs' = jobs
         \/ gateway' = FALSE
<1>1. CASE FillTmp(r) \/ Mv(r)
  BY <1>1 DEF FillTmp, Mv
<1>2. CASE CallStep(r)
  <2>1. UNCHANGED boxVars \/ \E i \in {1, 2} : RunGateway(r, i)
    BY <1>2 DEF CallStep, AskSession, SessionOpens, CallCutShort, ReadJobs, RunOther,
       CallAnswered
  <2>. QED
    BY <2>1 DEF RunGateway, StartGateway, StopGateway, boxVars
<1>3. CASE ~(FillTmp(r) \/ Mv(r) \/ CallStep(r))
  BY <1>3 DEF RequestStep, NotFound, BeginReading, NextRound, EndReading, Enqueue,
     EnterLock, Edit, EditRefused, EndEdit, BeginSkillPut, WriteSkill, EndSkillPut,
     BeginGateway, EndGateway, OpenTmp, boxVars
<1>. QED
  BY <1>1, <1>2, <1>3

\* What others do beside a reconciliation it notices, or it changes nothing of what
\* the reconciliation goes by.
LEMMA ReconcileInvOthers ==
  ASSUME FilesTyped, RunTyped, ReconcileInv,
         \/ DashboardStep
         \/ SchedulerSave /\ UNCHANGED run
         \/ UNCHANGED <<boxVars, run>>
  PROVE  ReconcileInv'
<1>1. RunInv /\ jobs \in Files /\ gateway \in BOOLEAN
  BY DEF RunTyped, FilesTyped
<1>2. CASE UNCHANGED <<boxVars, run>>
  BY <1>2 DEF boxVars, ReconcileInv
<1>3. CASE SchedulerSave /\ UNCHANGED run
  <2>. SUFFICES ASSUME run.quiet
                PROVE  ReconcileInv'
    BY <1>3 DEF ReconcileInv
  <2>1. gateway /\ UNCHANGED <<gateway, sched>> /\ jobs' = [jobs EXCEPT !.list = sched]
    BY <1>3 DEF SchedulerSave
  <2>2. run.pc = "stop" \/ run.pc = "idle"
    BY <2>1 DEF ReconcileInv, RunTyped
  <2>3. run.pc = "stop" => jobs' = jobs
    BY <1>1, <2>1 DEF ReconcileInv, Files
  <2>. QED
    BY <1>3, <2>1, <2>2, <2>3 DEF ReconcileInv
<1>4. CASE DashboardStep
  <2>0. Noticed
    BY <1>4 DEF DashboardStep
  <2>1. CASE run.pc = "idle"
    <3>1. UNCHANGED run
      BY <2>0, <2>1 DEF Noticed
    <3>. QED
      BY <2>1, <3>1 DEF ReconcileInv
  <2>2. CASE run.pc # "idle" /\ <<jobs, gateway>>' # <<jobs, gateway>>
    <3>1. run' = [run EXCEPT !.quiet = FALSE]
      BY <2>0, <2>2 DEF Noticed
    <3>2. run'.quiet = FALSE
      BY <1>1, <3>1 DEF RunInv, RunFields
    <3>. QED
      BY <3>2 DEF ReconcileInv
  <2>3. CASE <<jobs, gateway>>' = <<jobs, gateway>>
    <3>1. UNCHANGED <<run, jobs, gateway>>
      BY <2>0, <2>3 DEF Noticed
    <3>2. \/ UNCHANGED boxVars
          \/ \E r \in Reqs : RequestStep(r)
      BY <1>4 DEF DashboardStep, PostAny, Post
    <3>3. gateway' => sched' = sched \/ sched' = jobs.list
      BY <3>2, SchedulerMoves DEF boxVars
    <3>. QED
      BY <3>1, <3>3 DEF ReconcileInv
  <2>. QED
    BY <2>1, <2>2, <2>3
<1>. QED
  BY <1>2, <1>3, <1>4

-------------------------------------------------------------------------------
(* The page *)

\* A socket is the socket of a session.
ViewInv == ViewTypeOK /\ (ws.pc # "none" => ws.chat \in Chats)

LEMMA ViewInvInit == ViewInit => ViewInv
<1>. SUFFICES ASSUME ViewInit
              PROVE  ViewInv
  OBVIOUS
<1>1. 0 \in 0..MaxMessages /\ MaxFails \in 0..MaxFails /\ MaxClicks \in 0..MaxClicks
  BY ViewAssumption
<1>2. db \in [Chats -> [count : 0..MaxMessages, ended : BOOLEAN]]
  BY <1>1 DEF ViewInit
<1>3. live \in List /\ snap \in [Chats -> 0..MaxMessages]
  BY <1>1 DEF ViewInit, List, Nothing
<1>4. ws \in [pc : {"none", "check", "loop", "backoff"}, chat : Chats \cup {NoChat},
              sent : BOOLEAN, key : 0..MaxMessages]
  BY <1>1 DEF ViewInit, NoSocket
<1>5. left \in [fails : 0..MaxFails, clicks : 0..MaxClicks]
  BY <1>1 DEF ViewInit
<1>6. inbox \in Seq(List) /\ known \subseteq Chats /\ selected \in Chats \cup {NoChat}
  BY EmptySeq DEF ViewInit
<1>7. ws.pc = "none"
  BY DEF ViewInit, NoSocket
<1>. QED
  BY <1>2, <1>3, <1>4, <1>5, <1>6, <1>7 DEF ViewInv, ViewTypeOK

LEMMA ViewInvStep == ViewInv /\ [ViewNext]_viewVars => ViewInv'
<1>. SUFFICES ASSUME ViewInv, [ViewNext]_viewVars
              PROVE  ViewInv'
  OBVIOUS
<1>. DEFINE Msgs == 0..MaxMessages
            Chat == [count : Msgs, ended : BOOLEAN]
            Left == [fails : 0..MaxFails, clicks : 0..MaxClicks]
            Ws == [pc : {"none", "check", "loop", "backoff"}, chat : Chats \cup {NoChat},
                   sent : BOOLEAN, key : Msgs]
            WsOK(w) == w \in Ws /\ (w.pc # "none" => w.chat \in Chats)
<1>1. /\ db \in [Chats -> Chat] /\ known \subseteq Chats /\ selected \in Chats \cup {NoChat}
      /\ live \in List /\ snap \in [Chats -> Msgs] /\ WsOK(ws)
      /\ inbox \in Seq(List) /\ left \in Left
  BY DEF ViewInv, ViewTypeOK
<1>2. SUFFICES /\ db' \in [Chats -> Chat] /\ known' \subseteq Chats
               /\ selected' \in Chats \cup {NoChat}
               /\ live' \in List /\ snap' \in [Chats -> Msgs] /\ WsOK(ws')
               /\ inbox' \in Seq(List) /\ left' \in Left
  BY DEF ViewInv, ViewTypeOK
<1>3. /\ 0 \in Msgs /\ Nothing \in List /\ <<>> \in Seq(List)
      /\ WsOK(NoSocket)
      /\ \A m \in Msgs : m < MaxMessages => m + 1 \in Msgs
  <2>1. 0 \in Msgs /\ \A m \in Msgs : m < MaxMessages => m + 1 \in Msgs
    BY ViewAssumption
  <2>. QED
    BY <2>1, EmptySeq DEF Nothing, List, NoSocket
<1>4. \A c \in Chats : WsOK([NoSocket EXCEPT !.pc = "check", !.chat = c])
  BY <1>3 DEF NoSocket
<1>5. /\ left.fails > 0 => [left EXCEPT !.fails = @ - 1] \in Left
      /\ left.clicks > 0 => [left EXCEPT !.clicks = @ - 1] \in Left
  <2>1. /\ \A m \in 0..MaxFails : m > 0 => m - 1 \in 0..MaxFails
        /\ \A m \in 0..MaxClicks : m > 0 => m - 1 \in 0..MaxClicks
    BY ViewAssumption
  <2>2. left \in Left
    BY <1>1
  <2>. QED
    BY <2>1, <2>2
<1>. HIDE DEF Msgs, Chat, Left, Ws
<1>6. \A pc \in {"check", "loop", "backoff"} :
        ws.pc # "none" => WsOK([ws EXCEPT !.pc = pc])
  BY <1>1 DEF Ws
<1>. HIDE DEF WsOK
<1>7. ASSUME NEW sel \in Chats \cup {NoChat}, NEW ended, Rerun(sel, ended)
      PROVE  live' \in List /\ WsOK(ws') /\ inbox' \in Seq(List)
  BY <1>1, <1>3, <1>4, <1>7 DEF Rerun, Active
<1>8. CASE \E c \in Chats : AddMessage(c)
  <2>1. PICK c \in Chats : AddMessage(c)
    BY <1>8
  <2>2. db[c] \in Chat
    BY <1>1
  <2>3. [db[c] EXCEPT !.count = @ + 1] \in Chat
    BY <1>3, <2>1, <2>2 DEF AddMessage, Chat
  <2>4. db' \in [Chats -> Chat]
    BY <1>1, <2>1, <2>3 DEF AddMessage
  <2>. QED
    BY <1>1, <2>1, <2>4 DEF AddMessage
<1>9. CASE \E c \in Chats : EndChat(c)
  <2>1. PICK c \in Chats : EndChat(c)
    BY <1>9
  <2>2. db[c] \in Chat
    BY <1>1
  <2>3. [db[c] EXCEPT !.ended = TRUE] \in Chat
    BY <2>2 DEF Chat
  <2>4. db' \in [Chats -> Chat]
    BY <1>1, <2>1, <2>3 DEF EndChat
  <2>. QED
    BY <1>1, <2>1, <2>4 DEF EndChat
<1>10. CASE \E c \in Chats : Select(c)
  BY <1>1, <1>5, <1>7, <1>10 DEF Select
<1>11. CASE RefetchSessions
  BY <1>1, <1>7, <1>11 DEF RefetchSessions
<1>12. CASE RefetchMessages
  <2>1. selected \in Chats
    BY <1>1, <1>12 DEF RefetchMessages
  <2>2. db[selected].count \in Msgs
    BY <1>1, <2>1 DEF Chat
  <2>3. snap' \in [Chats -> Msgs] /\ left' \in Left
    BY <1>1, <1>3, <1>5, <1>12, <2>2 DEF RefetchMessages
  <2>. QED
    BY <1>1, <1>12, <2>3 DEF RefetchMessages
<1>13. CASE Receive
  <2>1. inbox # <<>>
    BY <1>13 DEF Receive
  <2>2. Head(inbox) \in List /\ Tail(inbox) \in Seq(List)
    BY <1>1, <2>1, TailIs
  <2>. QED
    BY <1>1, <1>13, <2>2 DEF Receive
<1>14. CASE Reconnect
  <2>1. ws.chat \in Chats
    BY <1>1, <1>14 DEF Reconnect, WsOK
  <2>. QED
    BY <1>1, <1>4, <1>14, <2>1 DEF Reconnect
<1>15. CASE BeginLoop
  BY <1>1, <1>6, <1>15 DEF BeginLoop
<1>16. CASE Poll
  <2>1. ws.pc = "loop"
    BY <1>16 DEF Poll
  <2>2. ws.chat \in Chats /\ ws \in Ws
    BY <1>1, <2>1 DEF WsOK
  <2>3. db[ws.chat].count \in Msgs
    BY <1>1, <2>2 DEF Chat
  <2>4. PICK n \in Msgs :
          /\ \/ ws' = [ws EXCEPT !.sent = TRUE, !.key = n]
                /\ inbox' = Append(inbox, [chat |-> ws.chat, count |-> n])
             \/ UNCHANGED <<ws, inbox>>
          /\ \/ left' = left
             \/ left.fails > 0 /\ left' = [left EXCEPT !.fails = @ - 1]
    BY <1>3, <1>16, <2>3 DEF Poll
  <2>5. left' \in Left
    BY <1>1, <1>5, <2>4
  <2>6. WsOK([ws EXCEPT !.sent = TRUE, !.key = n])
    BY <2>1, <2>2 DEF WsOK, Ws
  <2>7. [chat |-> ws.chat, count |-> n] \in List
    BY <2>2 DEF List, Msgs
  <2>8. Append(inbox, [chat |-> ws.chat, count |-> n]) \in Seq(List)
    BY <1>1, <2>7, AppendProperties
  <2>. QED
    BY <1>1, <1>16, <2>4, <2>5, <2>6, <2>8 DEF Poll
<1>17. CASE Drop
  BY <1>1, <1>3, <1>5, <1>6, <1>17 DEF Drop
<1>18. CASE UNCHANGED viewVars
  BY <1>1, <1>18 DEF viewVars
<1>. QED
  BY <1>8, <1>9, <1>10, <1>11, <1>12, <1>13, <1>14, <1>15, <1>16, <1>17, <1>18
  DEF ViewNext, PageStep, LoopStep

-------------------------------------------------------------------------------
(* The box *)

\* The first state of every scene.
LEMMA BoxInvInit == Init => BoxInv
<1>. SUFFICES ASSUME Init
              PROVE  BoxInv
  OBVIOUS
<1>1. FileInv
  BY SceneAssumption DEF Init, FileInv, File
<1>2. RunInv
  BY DEF Init, ReconcileInit, RunInv, Idle, RunFields
<1>. QED
  BY <1>1, <1>2, DashboardInvInit, RebuildInvInit DEF Init, BoxInv

\* Each party keeps its part and leaves those of the others alone.
LEMMA BoxInvStep == BoxInv /\ [Next]_allVars => BoxInv'
<1>. SUFFICES ASSUME BoxInv, [Next]_allVars
              PROVE  BoxInv'
  OBVIOUS
<1>1. RebuildInv /\ UNCHANGED rebuildVars => RebuildInv'
  BY DEF RebuildInv, RebuildTypeOK, VerdictIsOwn, OnItsOwn, Waiting, Unfinished, rebuildVars
<1>2. FileInv /\ UNCHANGED jobs => FileInv'
  BY DEF FileInv
<1>3. RunInv /\ UNCHANGED run => RunInv'
  BY DEF RunInv
<1>4. crew' = crew
  BY DEF Next, allVars, sceneVars
<1>5. OnlyDashboard' <=> OnlyDashboard
  BY <1>4 DEF OnlyDashboard
<1>6. CASE DashboardStep
  <2>1. [DashboardNext]_RoutesVars
    BY <1>6, DashboardSteps
  <2>2. DashboardInv' /\ (EditInv => EditInv')
    BY <2>1, DashboardInvStep DEF BoxInv
  <2>3. FileInv'
    <3>1. jobs' = jobs \/ \E r \in Reqs : Moves(r)
      BY <2>1, JobsStep DEF BoxInv, DashboardInv
    <3>2. ASSUME NEW r \in Reqs, Moves(r)
          PROVE  FileInv'
      BY <3>2 DEF Moves, FileInv
    <3>. QED
      BY <1>2, <3>1, <3>2 DEF BoxInv
  <2>4. RunInv'
    BY <1>6, RunInvStep DEF DashboardStep, BoxInv
  <2>5. RebuildInv'
    BY <1>1, <1>6 DEF DashboardStep, BoxInv
  <2>. QED
    BY <1>5, <2>2, <2>3, <2>4, <2>5 DEF BoxInv
<1>7. CASE SchedulerStep \/ Reconcile
  <2>1. ~OnlyDashboard
    BY <1>7 DEF SchedulerStep, Reconcile, OnlyDashboard
  <2>2. FileInv'
    BY <1>7, FileInvOthers DEF SchedulerStep, Reconcile, BoxInv
  <2>3. RunInv'
    BY <1>3, <1>7, RunInvStep DEF SchedulerStep, Reconcile, reconcileVars, BoxInv
  <2>4. RebuildInv' /\ DashboardInv'
    BY <1>1, <1>7, DashboardInvApart DEF SchedulerStep, Reconcile, BoxInv
  <2>. QED
    BY <1>5, <2>1, <2>2, <2>3, <2>4 DEF BoxInv
<1>8. CASE RebuildParty \/ ViewParty \/ NetworkParty \/ UNCHANGED allVars
  <2>1. UNCHANGED <<linkVars, routeVars, jobs, run>>
    BY <1>8 DEF RebuildParty, ViewParty, NetworkParty, allVars, boxVars, reconcileVars
  <2>2. DashboardInv' /\ (EditInv => EditInv')
    BY <2>1, DashboardInvApart, EditInvApart DEF BoxInv
  <2>3. RebuildInv'
    BY <1>1, <1>8, RebuildInvStep DEF RebuildParty, ViewParty, NetworkParty, allVars, BoxInv
  <2>. QED
    BY <1>2, <1>3, <1>5, <2>1, <2>2, <2>3 DEF BoxInv
<1>. QED
  BY <1>6, <1>7, <1>8 DEF Next

\* The invariants hold whatever the parties of a scene do, in any order.
THEOREM BoxSafe == Spec => []BoxInv
BY BoxInvInit, BoxInvStep, PTL DEF Spec

\* The routes that rewrite jobs.json take turns, however many are asked for and
\* whichever of their calls fail, and leave no lock behind.
THEOREM OneEditorAtATime == Spec => []OneEditor
<1>1. BoxInv => OneEditor
  BY LineInvOneEditor DEF BoxInv, DashboardInv
<1>. QED
  BY <1>1, BoxSafe, PTL

\* Readers of jobs.json never see part of it, whoever writes it, and a skill file
\* is whole again when all requests have ended, unless a session was gone under one
\* or two had the same file open for writing.
THEOREM FilesStayWhole == Spec => []FilesWhole
<1>1. BoxInv => FilesWhole
  BY SkillInvWhole DEF BoxInv, DashboardInv, FileInv, FilesWhole
<1>. QED
  BY <1>1, BoxSafe, PTL

\* Without two misses at once no ssh session is left open outside the cache.
THEOREM NoSessionIsLost == Spec => []OnlyCachedOpen
<1>1. BoxInv => OnlyCachedOpen
  BY DEF BoxInv, DashboardInv, LinkInv, OnlyCachedOpen
<1>. QED
  BY <1>1, BoxSafe, PTL

\* A rebuild that no other overlaps returns the exit code of its own build, and
\* never that of one given up earlier.
THEOREM RebuildVerdict == Spec => []VerdictIsOwn
<1>1. BoxInv => VerdictIsOwn
  BY DEF BoxInv, RebuildInv
<1>. QED
  BY <1>1, BoxSafe, PTL

\* Where only the dashboard writes jobs.json, every change of it is one whole
\* edit of what is there at that moment: none is lost, and none applied twice.
THEOREM EditsDoNotMix == Spec => EditsAreAtomic
<1>1. BoxInv /\ [Next]_allVars => [OnlyDashboard => EditStep]_allVars
  <2>. SUFFICES ASSUME BoxInv, Next, OnlyDashboard
                PROVE  EditStep
    OBVIOUS
  <2>1. CASE DashboardStep
    BY <2>1, DashboardSteps, EditInvEditStep DEF BoxInv, DashboardInv
  <2>2. CASE SchedulerStep \/ Reconcile
    BY <2>2 DEF SchedulerStep, Reconcile, OnlyDashboard
  <2>3. CASE RebuildParty \/ ViewParty \/ NetworkParty
    BY <2>3 DEF RebuildParty, ViewParty, NetworkParty, boxVars, EditStep
  <2>. QED
    BY <2>1, <2>2, <2>3 DEF Next
<1>. QED
  BY <1>1, BoxSafe, PTL DEF Spec, EditsAreAtomic

\* A reconciliation that leaves the gateway down has failed at systemctl's own stop or
\* start and says so: whichever of its other commands fail, it gets to the start.
THEOREM GatewayComesBack == Spec => GatewayBroughtBack
<1>1. BoxInv /\ [Next]_allVars =>
        [run.pc # "idle" /\ run'.pc = "idle" /\ ~gateway'
           => run.pc \in {"stop", "start"} /\ ~run'.ok]_ReconcileVars
  <2>. SUFFICES ASSUME BoxInv, [Next]_allVars,
                       run.pc # "idle", run'.pc = "idle", ~gateway'
                PROVE  run.pc \in {"stop", "start"} /\ ~run'.ok
    OBVIOUS
  <2>0. RunInv
    BY DEF BoxInv
  <2>1. CASE Noticed \/ UNCHANGED run
    BY <2>0, <2>1 DEF Noticed, RunInv, RunFields
  <2>2. CASE Reconcile
    <3>1. ReconcileStep
      BY <2>2 DEF Reconcile, BeginReconcile
    <3>2. StopFails \/ StartFails
      BY <2>0, <3>1 DEF ReconcileStep, GatewayStopped, Apply, CommandFails, EndApply,
         SetEnabled, EndPause, GatewayStarted, StartGateway, Disconnect, RunInv, RunFields
    <3>. QED
      BY <3>2 DEF StopFails, StartFails, Ended, Idle
  <2>. QED
    BY <2>1, <2>2 DEF Next, DashboardStep, SchedulerStep, RebuildParty, ViewParty,
       NetworkParty, allVars, reconcileVars
<1>. QED
  BY <1>1, BoxSafe, PTL DEF Spec, GatewayBroughtBack

\* What the commands do to the firewall of a box that others work on is what
\* they do by themselves: a scene implements NetworkRules.
THEOREM BoxRunsNetwork == Spec => NetworkSpec
<1>1. Init => NetworkInit
  BY DEF Init
<1>2. [Next]_allVars => [BeginAny \/ NetworkStep]_netVars
  BY DEF Next, allVars, DashboardStep, SchedulerStep, Reconcile, RebuildParty, ViewParty,
     NetworkParty
<1>. QED
  BY <1>1, <1>2, PTL DEF Spec, NetworkSpec

\* The convergence of the firewall, on a box that others work on.
THEOREM BoxRulesConverge == Spec => NetworkConverges
BY BoxRunsNetwork, RulesConverge, PTL

\* The operator's way in, likewise.
THEOREM BoxKeepsAccess == Spec => NeverLockedOut
BY BoxRunsNetwork, OperatorKeepsAccess, PTL

-------------------------------------------------------------------------------
(* Types, and what a reconciliation delivers *)

PostsTyped == \E s \in Scenes : crew = s.crew /\ posts \in 0..s.posts

\* With the types goes that no two jobs of a list have the same id, which the plan of
\* a reconciliation relies on.
TypedInv ==
  /\ BoxInv
  /\ TypesInv
  /\ RunTyped
  /\ ReconcileInv
  /\ ViewInv
  /\ PostsTyped

LEMMA TypedInvInit == Init => TypedInv
<1>. SUFFICES ASSUME Init
              PROVE  TypedInv
  OBVIOUS
<1>1. BoxInv
  BY BoxInvInit
<1>2. PICK s \in Scenes : crew = s.crew /\ jobs = s.file /\ posts = s.posts
  BY DEF Init
<1>3. FilesTyped
  <2>1. s.file \in File /\ \A i, j \in DOMAIN s.file.list :
                             s.file.list[i].id = s.file.list[j].id => i = j
    BY SceneAssumption
  <2>2. jobs \in Files
    BY <1>2, <2>1 DEF File, Files, JobLists
  <2>3. gateway = TRUE /\ sched = jobs.list
    BY DEF Init
  <2>. QED
    BY <2>2, <2>3 DEF FilesTyped, Files
<1>4. TypesInv
  BY <1>3, TypesInvInit DEF Init
<1>5. run = Idle /\ lost = 0
  BY DEF Init, ReconcileInit
<1>6. RunTyped
  <2>1. <<>> \in DeclLists /\ <<>> \in Seq(Command)
    BY DeclaredIs, EmptySeq
  <2>2. RunInv
    BY <1>1 DEF BoxInv
  <2>. QED
    BY <1>5, <2>1, <2>2, ReconcileAssumption DEF RunTyped, Idle
<1>7. ReconcileInv
  BY <1>5 DEF ReconcileInv, Idle
<1>8. ViewInv
  BY ViewInvInit DEF Init
<1>9. PostsTyped
  BY <1>2, SceneAssumption DEF PostsTyped
<1>. QED
  BY <1>1, <1>4, <1>6, <1>7, <1>8, <1>9 DEF TypedInv

\* Each party keeps the types of what it works on.
LEMMA TypedInvStep == TypedInv /\ [Next]_allVars => TypedInv'
<1>. SUFFICES ASSUME TypedInv, [Next]_allVars
              PROVE  TypedInv'
  OBVIOUS
<1>1. BoxInv /\ TypesInv /\ RunTyped /\ ReconcileInv /\ ViewInv /\ PostsTyped /\ FilesTyped
  BY DEF TypedInv, TypesInv
<1>2. BoxInv'
  BY <1>1, BoxInvStep
<1>3. UNCHANGED <<linkVars, routeVars>> /\ FilesTyped' => TypesInv'
  BY <1>1 DEF TypesInv, UploadsTyped, LineTyped, FaultsTyped, linkVars, routeVars
<1>4. UNCHANGED viewVars => ViewInv'
  BY <1>1, ViewInvStep
<1>5. PostsTyped'
  <2>1. crew' = crew /\ (posts' = posts \/ (posts > 0 /\ posts' = posts - 1))
    BY DEF Next, DashboardStep, SchedulerStep, Reconcile, RebuildParty, ViewParty,
       NetworkParty, allVars, sceneVars
  <2>2. PICK s \in Scenes : crew = s.crew /\ posts \in 0..s.posts
    BY <1>1 DEF PostsTyped
  <2>3. posts' \in 0..s.posts
    BY <2>1, <2>2, SceneAssumption
  <2>. QED
    BY <2>1, <2>2, <2>3 DEF PostsTyped
<1>6. CASE DashboardStep
  <2>1. TypesInv'
    BY <1>1, <1>6, DashboardSteps, TypesInvStep DEF BoxInv, DashboardInv
  <2>2. RunTyped'
    BY <1>1, <1>6, RunTypedStep DEF DashboardStep
  <2>3. ReconcileInv'
    BY <1>1, <1>6, ReconcileInvOthers
  <2>4. UNCHANGED viewVars
    BY <1>6 DEF DashboardStep
  <2>. QED
    BY <1>2, <1>4, <1>5, <2>1, <2>2, <2>3, <2>4 DEF TypedInv
<1>7. CASE SchedulerStep
  <2>1. SchedulerSave /\ UNCHANGED <<linkVars, routeVars, run, lost, viewVars>>
    BY <1>7 DEF SchedulerStep, reconcileVars
  <2>2. FilesTyped' /\ RunTyped' /\ ReconcileInv'
    BY <1>1, <2>1, FilesTypedApart, RunTypedStep, ReconcileInvOthers
  <2>. QED
    BY <1>2, <1>3, <1>4, <1>5, <2>1, <2>2 DEF TypedInv
<1>8. CASE Reconcile
  <2>1. /\ ReconcileStep \/ \E decl \in Lists : BeginReconcile(decl)
        /\ UNCHANGED <<linkVars, routeVars, viewVars>>
    BY <1>8 DEF Reconcile
  <2>2. FilesTyped' /\ RunTyped' /\ ReconcileInv'
    BY <1>1, <2>1, FilesTypedApart, RunTypedStep, ReconcileInvOwn
  <2>. QED
    BY <1>2, <1>3, <1>4, <1>5, <2>1, <2>2 DEF TypedInv
<1>9. CASE RebuildParty \/ ViewParty \/ NetworkParty \/ UNCHANGED allVars
  <2>1. UNCHANGED <<linkVars, routeVars, boxVars, run, lost>>
    BY <1>9 DEF RebuildParty, ViewParty, NetworkParty, allVars, reconcileVars
  <2>2. FilesTyped' /\ RunTyped' /\ ReconcileInv'
    BY <1>1, <2>1, FilesTypedApart, RunTypedStep, ReconcileInvOthers
  <2>3. [ViewNext]_viewVars
    BY <1>9 DEF RebuildParty, ViewParty, NetworkParty, allVars
  <2>. QED
    BY <1>1, <1>2, <1>3, <1>5, <2>1, <2>2, <2>3, ViewInvStep DEF TypedInv
<1>. QED
  BY <1>6, <1>7, <1>8, <1>9 DEF Next

THEOREM BoxTypedSafe == Spec => []TypedInv
BY TypedInvInit, TypedInvStep, PTL DEF Spec

\* The state of a box and of those who work on it keeps its type, whatever they do:
\* files, requests, sessions, reconciliations, rebuilds, the page and the commands.
THEOREM BoxTypes == Spec => []TypeOK
<1>1. TypedInv /\ NetInv => TypeOK
  <2>. SUFFICES ASSUME TypedInv, NetInv
                PROVE  TypeOK
    OBVIOUS
  <2>1. RoutesTypeOK
    BY TypesInvRoutes DEF TypedInv, BoxInv, DashboardInv
  <2>2. ReconcileTypeOK
    <3>1. BoxTypeOK
      BY <2>1 DEF RoutesTypeOK
    <3>2. RunTyped /\ run.decl \in Seq(Declared)
      BY DEF TypedInv, RunTyped, DeclLists
    <3>. QED
      BY <3>1, <3>2 DEF ReconcileTypeOK, RunTyped, RunInv, RunFields
  <2>3. RebuildTypeOK /\ ViewTypeOK /\ NetworkTypeOK
    BY DEF TypedInv, BoxInv, RebuildInv, ViewInv, NetInv
  <2>. QED
    BY <2>1, <2>2, <2>3 DEF TypedInv, PostsTyped, TypeOK
<1>2. Spec => []NetInv
  BY BoxRunsNetwork, NetworkSafe, PTL
<1>. QED
  BY <1>1, <1>2, BoxTypedSafe, PTL

\* However a job comes into jobs.json, by the dashboard or by the agent's CLI, and
\* whoever rewrites the file, an id stands for one job of it and of the scheduler's
\* copy.
THEOREM JobIdsStayDistinct ==
  Spec => [](/\ \A i, j \in DOMAIN jobs.list : jobs.list[i].id = jobs.list[j].id => i = j
             /\ \A i, j \in DOMAIN sched : sched[i].id = sched[j].id => i = j)
<1>1. TypedInv =>
        /\ \A i, j \in DOMAIN jobs.list : jobs.list[i].id = jobs.list[j].id => i = j
        /\ \A i, j \in DOMAIN sched : sched[i].id = sched[j].id => i = j
  BY DEF TypedInv, TypesInv, FilesTyped, Files, JobLists
<1>. QED
  BY <1>1, BoxTypedSafe, PTL

\* A reconciliation that ends without an error, and whose file nobody else touched,
\* has put on the box what is declared, each job once; the next one finds nothing to
\* do, and the gateway runs with these jobs in memory.
THEOREM ReconcileDeliversAll == Spec => ReconcileDelivers
<1>1. TypedInv /\ [Next]_allVars =>
        [Ends /\ run'.ok /\ run.quiet =>
           /\ Matches(run.decl, BoxCrons(jobs'))
           /\ Plan(run.decl, BoxCrons(jobs')) = <<>>
           /\ gateway' /\ sched' = jobs'.list]_ReconcileVars
  <2>. SUFFICES ASSUME TypedInv, [Next]_allVars, Ends, run'.ok, run.quiet
                PROVE  /\ Matches(run.decl, BoxCrons(jobs'))
                       /\ Plan(run.decl, BoxCrons(jobs')) = <<>>
                       /\ gateway' /\ sched' = jobs'.list
    OBVIOUS
  <2>1. /\ RunInv /\ run.decl \in DeclLists /\ BoxCrons(jobs) \in JobLists /\ ReconcileInv
        /\ run.pc = "start" /\ run'.pc = "idle"
    BY BoxCronsListed DEF TypedInv, RunTyped, TypesInv, FilesTyped, Ends
  <2>2. CASE Noticed \/ UNCHANGED run
    BY <2>1, <2>2 DEF Noticed, RunInv, RunFields
  <2>3. CASE Reconcile
    <3>1. ReconcileStep
      BY <2>1, <2>3 DEF Reconcile, BeginReconcile
    <3>2. GatewayStarted
      <4>1. ~StopFails /\ ~StartFails
        BY DEF StopFails, StartFails, Ended, Idle
      <4>. QED
        BY <2>1, <3>1, <4>1 DEF ReconcileStep, GatewayStopped, Apply, CommandFails,
           EndApply, SetEnabled, EndPause, Disconnect, RunInv, RunFields
    <3>3. run.ok
      BY <2>1, <3>2 DEF GatewayStarted, Ended, Idle
    <3>4. jobs' = jobs /\ gateway' = TRUE /\ sched' = jobs.list
      BY <3>2 DEF GatewayStarted, StartGateway
    <3>5. /\ Leads(run.decl, <<>>, JobsIn(BoxCrons(jobs)))
          /\ Settles(run.decl, <<>>, JobsIn(BoxCrons(jobs)))
      BY <2>1, <3>3 DEF ReconcileInv
    <3>6. Matches(run.decl, BoxCrons(jobs)) /\ Plan(run.decl, BoxCrons(jobs)) = <<>>
      BY <2>1, <3>5, LeadsThere
    <3>. QED
      BY <3>4, <3>6
  <2>. QED
    BY <2>2, <2>3 DEF Next, DashboardStep, SchedulerStep, RebuildParty, ViewParty,
       NetworkParty, allVars, reconcileVars
<1>. QED
  BY <1>1, BoxTypedSafe, PTL DEF Spec, ReconcileDelivers

===============================================================================
