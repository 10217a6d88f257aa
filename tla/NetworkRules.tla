----------------------------- MODULE NetworkRules -----------------------------
(***************************************************************************)
(* The firewall rules of a deployed box: `update` (update.ts) and `ssh`    *)
(* (ssh-ingress.ts) read hermes.toml, ask for the operator's public        *)
(* address and call the provider's reconcileNetwork, which is not atomic:  *)
(* on AWS it lists the rules, adds what is missing and revokes what is     *)
(* not wanted, one call each; on GCP it patches the SSH rule and then      *)
(* creates, patches or deletes the one rule of the ports, which it looks   *)
(* for in the record.  Both commands hand it a copy of the record and drop *)
(* the copy.                                                               *)
(*                                                                         *)
(* Two commands may run at once, a call may fail with or without effect,   *)
(* and the address, hermes.toml and (on AWS) the rules themselves may      *)
(* change.                                                                 *)
(***************************************************************************)
EXTENDS Naturals, FiniteSets

CONSTANTS
  Cmds,         \* invocations that may be under way together
  Addresses,    \* public addresses the operator may have
  Ports,        \* ports that inbound_ports may name
  SshPort, WebPorts,  \* 22; what a [domain] needs, 80 and 443
  Anyone,       \* 0.0.0.0/0
  ByHand,       \* single-port rules made in the AWS console
  MaxChanges,   \* bound of the edits, moves and rules made by hand
  MaxFaults     \* bound of the calls that fail by themselves

ASSUME NetworkAssumption ==
  /\ Anyone \notin Addresses
  /\ SshPort \notin Ports \cup WebPorts
  /\ MaxChanges \in Nat /\ MaxFaults \in Nat

VARIABLES
  cloud,     \* the deployment's provider
  conf,      \* [network] and [domain] of hermes.toml
  address,   \* the operator's public address
  rules,     \* the single-port TCP rules in force
  named,     \* GCP: firewall_rule_names of the record has the ports rule
  cmd,       \* the invocations
  net        \* what is left of the bounds; history: no two invocations have
             \* overlapped

netVars == <<cloud, conf, address, rules, named, cmd, net>>

Clouds == {"aws", "gcp"}

Rule == [port : Ports \cup WebPorts \cup {SshPort}, cidr : Addresses \cup {Anyone}]

\* A rule made in the console is one of the rules the code reads back.
ASSUME ByHandAssumption == ByHand \subseteq Rule

\* ssh_allowed_from is "auto" or an address block, for which Anyone stands.
Config == [auto : BOOLEAN, ports : SUBSET Ports, domain : BOOLEAN]

Ssh(a) == [port |-> SshPort, cidr |-> a]
Open(ports) == {[port |-> p, cidr |-> Anyone] : p \in ports}
SshRules(s) == {r \in s : r.port = SshPort}
PortRules(s) == s \ SshRules(s)

\* The ports to open to anyone: inbound_ports, and those of a domain.
AllInbound(c) == c.ports \cup (IF c.domain THEN WebPorts ELSE {})

\* The desired rules, but for the SSH rule under "auto".
DeclaredRules(c) == Open(AllInbound(c)) \cup (IF c.auto THEN {} ELSE {Ssh(Anyone)})

\* The desired rules, with the address found if they need one.
Desired(declared, a) ==
  IF SshRules(declared) = {} THEN declared \cup {Ssh(a)} ELSE declared

IdleCmd == [pc |-> "idle", named |-> FALSE, want |-> {}, add |-> {}, revoke |-> {},
            alone |-> TRUE, told |-> TRUE, settled |-> FALSE]

Cmd == [pc : {"idle", "detect", "list", "add", "revoke", "ssh", "ports"},
        named : BOOLEAN,       \* the record as loaded
        want : SUBSET Rule,    \* the rules asked for
        add : SUBSET Rule,     \* AWS: toAdd and toRevoke
        revoke : SUBSET Rule,
        alone : BOOLEAN,       \* history: nobody else changed the rules meanwhile
        told : BOOLEAN,        \* history: the record named the rules there were
        settled : BOOLEAN]     \* history: they were the ones asked for

\* The record knows of the ports rule if there is one.
RecordTrue(n) == cloud = "gcp" => (n <=> PortRules(rules) # {})

NetworkTypeOK ==
  /\ cloud \in Clouds
  /\ conf \in Config
  /\ address \in Addresses
  /\ rules \in SUBSET Rule
  /\ named \in BOOLEAN
  /\ cmd \in [Cmds -> Cmd]
  /\ net \in [changes : 0..MaxChanges, faults : 0..MaxFaults, calm : BOOLEAN]

\* As an up leaves it: the SSH rule for the address the operator had and a rule
\* for inbound_ports alone, in the record on GCP.
NetworkInit ==
  /\ cloud \in Clouds
  /\ conf \in {c \in Config : c.auto}
  /\ address \in Addresses
  /\ rules = {Ssh(address)} \cup Open(conf.ports)
  /\ named = (cloud = "gcp" /\ conf.ports # {})
  /\ cmd = [c \in Cmds |-> IdleCmd]
  /\ net \in [changes : 0..MaxChanges, faults : {MaxFaults}, calm : {TRUE}]

At(c, pc) == cmd[c].pc = pc

\* Invocation c goes on as `new`; when the rules change, any other that is
\* under way is no longer alone.
Step(c, new) ==
  cmd' = [k \in Cmds |->
            IF k = c THEN new
            ELSE [cmd[k] EXCEPT !.alone = @ /\ (rules' = rules \/ cmd[k].pc = "idle")]]

End(c) == Step(c, IdleCmd)

World == <<cloud, conf, address, named, net>>

-------------------------------------------------------------------------------
(* The command, up to reconcileNetwork *)

\* The record and hermes.toml are loaded.
BeginNetwork(c) ==
  /\ At(c, "idle")
  /\ UNCHANGED rules
  /\ Step(c, [IdleCmd EXCEPT !.pc = "detect", !.named = named, !.want = DeclaredRules(conf)])
  /\ net' = [net EXCEPT !.calm = @ /\ \A k \in Cmds : At(k, "idle")]
  /\ UNCHANGED <<cloud, conf, address, named>>

\* `ssh` does the same, and nothing when the address block is fixed.
BeginSsh(c) == conf.auto /\ BeginNetwork(c)

\* detectPublicIp, when the address block is not fixed, and the rules asked for.
Detect(c) ==
  /\ At(c, "detect")
  /\ UNCHANGED rules
  /\ LET want == Desired(cmd[c].want, address)
     IN  Step(c, [cmd[c] EXCEPT !.pc = IF cloud = "aws" THEN "list" ELSE "ssh",
                                !.want = want,
                                !.told = RecordTrue(cmd[c].named),
                                !.settled = rules = want])
  /\ UNCHANGED World

-------------------------------------------------------------------------------
(* reconcileNetworkAws *)

\* Mutant: a rule is compared by its port alone.
ToRevokeByPort(want) == {r \in rules : \A w \in want : w.port # r.port}

\* Rules in force that are not desired, whoever made them.
ToRevoke(want) == rules \ want

\* DescribeSecurityGroups, and the two differences, both against what it said.
ListRules(c) ==
  /\ At(c, "list")
  /\ UNCHANGED rules
  /\ Step(c, [cmd[c] EXCEPT !.pc = "add", !.add = cmd[c].want \ rules,
                            !.revoke = ToRevoke(cmd[c].want)])
  /\ UNCHANGED World

\* AuthorizeSecurityGroupIngress of one rule, SSH first; AWS refuses a rule that
\* is there already.
Add(c) ==
  /\ At(c, "add")
  /\ \E r \in cmd[c].add :
       /\ SshRules(cmd[c].add) # {} => r.port = SshPort
       /\ rules' = rules \cup {r}
       /\ IF r \in rules THEN End(c) ELSE Step(c, [cmd[c] EXCEPT !.add = @ \ {r}])
  /\ UNCHANGED World

Added(c) ==
  /\ At(c, "add") /\ cmd[c].add = {}
  /\ UNCHANGED rules
  /\ Step(c, [cmd[c] EXCEPT !.pc = "revoke"])
  /\ UNCHANGED World

\* Mutant: the calls are all sent at once.
RevokeAtOnce(c) ==
  /\ At(c, "add") \/ At(c, "revoke")
  /\ \E r \in cmd[c].revoke :
       /\ rules' = rules \ {r}
       /\ Step(c, [cmd[c] EXCEPT !.revoke = @ \ {r}])
  /\ UNCHANGED World

\* RevokeSecurityGroupIngress of one rule; in a default VPC one that is not there
\* is no error.
Revoke(c) ==
  /\ At(c, "revoke")
  /\ \E r \in cmd[c].revoke :
       /\ rules' = rules \ {r}
       /\ Step(c, [cmd[c] EXCEPT !.revoke = @ \ {r}])
  /\ UNCHANGED World

-------------------------------------------------------------------------------
(* reconcileNetworkGcp *)

\* The SSH rule: get, and a patch of its source range when it is another.
PatchSsh(c) ==
  /\ At(c, "ssh")
  /\ rules' = PortRules(rules) \cup SshRules(cmd[c].want)
  /\ Step(c, [cmd[c] EXCEPT !.pc = "ports"])
  /\ UNCHANGED World

\* The ports rule is created, patched or deleted as the record and hermes.toml
\* say.  An insert of what exists (409), and a get or a delete of what does not
\* (404), throw.
PortsRefused(c) ==
  LET exists == PortRules(rules) # {}
  IN  IF cmd[c].named THEN ~exists ELSE PortRules(cmd[c].want) # {} /\ exists

PortsAfter(c) ==
  IF cmd[c].named \/ PortRules(cmd[c].want) # {}
  THEN SshRules(rules) \cup PortRules(cmd[c].want)
  ELSE rules

-------------------------------------------------------------------------------
(* Ends *)

\* The command's network phase ends well: the last call has been made.  The
\* changed firewall_rule_names are in the copy, which is dropped.
Reconciled(c) ==
  /\ \/ At(c, "revoke") /\ cmd[c].revoke = {} /\ UNCHANGED rules
     \/ At(c, "ports") /\ ~PortsRefused(c) /\ rules' = PortsAfter(c)
  /\ End(c)
  /\ UNCHANGED World

\* GCP refuses the ports call, and the command throws (`ssh` goes on to connect).
CallRefused(c) ==
  /\ At(c, "ports") /\ PortsRefused(c)
  /\ UNCHANGED rules
  /\ End(c)
  /\ UNCHANGED World

\* A call fails by itself, its effect made or not: the address service, a
\* provider's call, the wait for an operation.
CallEffect(c) ==
  {rules} \cup
  CASE At(c, "add") -> {rules \cup {r} : r \in cmd[c].add}
    [] At(c, "revoke") -> {rules \ {r} : r \in cmd[c].revoke}
    [] At(c, "ssh") -> {PortRules(rules) \cup SshRules(cmd[c].want)}
    [] At(c, "ports") /\ ~PortsRefused(c) -> {PortsAfter(c)}
    [] OTHER -> {}

FailNetwork(c) ==
  /\ ~At(c, "idle") /\ net.faults > 0
  /\ net' = [net EXCEPT !.faults = @ - 1]
  /\ rules' \in CallEffect(c)
  /\ End(c)
  /\ UNCHANGED <<cloud, conf, address, named>>

-------------------------------------------------------------------------------
(* The operator and the world *)

Spend == net.changes > 0 /\ net' = [net EXCEPT !.changes = @ - 1]

EditToml ==
  /\ Spend
  /\ conf' \in Config \ {conf}
  /\ UNCHANGED <<cloud, address, rules, named, cmd>>

Move ==
  /\ Spend
  /\ address' \in Addresses \ {address}
  /\ UNCHANGED <<cloud, conf, rules, named, cmd>>

HandMade ==
  /\ cloud = "aws" /\ Spend
  /\ \E r \in ByHand \ rules : rules' = rules \cup {r}
  /\ cmd' = [k \in Cmds |-> [cmd[k] EXCEPT !.alone = @ /\ At(k, "idle")]]
  /\ UNCHANGED <<cloud, conf, address, named>>

\* `adopt` finds the rules by their names and writes a new record.
AdoptRules ==
  /\ cloud = "gcp" /\ ~RecordTrue(named) /\ Spend
  /\ named' = (PortRules(rules) # {})
  /\ UNCHANGED <<cloud, conf, address, rules, cmd>>

NetworkStep ==
  \/ \E c \in Cmds :
       Detect(c) \/ ListRules(c) \/ Add(c) \/ Added(c) \/ Revoke(c)
         \/ PatchSsh(c) \/ Reconciled(c) \/ CallRefused(c) \/ FailNetwork(c)
  \/ EditToml \/ Move \/ HandMade \/ AdoptRules

BeginAny == \E c \in Cmds : BeginNetwork(c) \/ BeginSsh(c)

\* Any number of runs.
NetworkSpec == NetworkInit /\ [][BeginAny \/ NetworkStep]_netVars

-------------------------------------------------------------------------------
(* Properties *)

\* Where the record names the rules there are and nobody else changed them
\* meanwhile, a run that does not throw leaves exactly the declared rules, what
\* an earlier run left half done included.
ConvergeStep ==
  \A c \in Cmds : Reconciled(c) /\ cmd[c].alone /\ cmd[c].told => rules' = cmd[c].want

Admits(s, a) == s \cap {Ssh(a), Ssh(Anyone)} # {}

\* Runs that do not overlap never lock the operator out: who could reach the box
\* and is asked for in the rules can reach it after every single call, and when
\* the run fails there.
LockoutStep ==
  /\ net'.calm
  /\ Admits(rules, address)
  /\ \A c \in Cmds : cmd[c].want # {} => Admits(cmd[c].want, address)
  => Admits(rules', address)

NetworkConverges == [][ConvergeStep]_netVars
NeverLockedOut == [][LockoutStep]_netVars

\* "reconcileNetwork is idempotent (one Describe when nothing drifted)"
\* (update.ts:77): a run that finds the declared rules in force, that nobody
\* disturbs and of which no call fails by itself does not throw.
Idempotent ==
  \A c \in Cmds : cmd[c].settled /\ cmd[c].alone =>
    ~ (At(c, "ports") /\ PortsRefused(c)) /\ (At(c, "add") => cmd[c].add = {})

===============================================================================
