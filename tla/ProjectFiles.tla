----------------------------- MODULE ProjectFiles -----------------------------
(***************************************************************************)
(* The files of one deployment on the operator's machine: its age key, and *)
(* in the project directory .sops.yaml, secrets.env.enc and hermes.toml.   *)
(* The commands that make, read, change and remove them run in processes   *)
(* of the CLI and as requests of the dashboard's server.                   *)
(*                                                                         *)
(* File operations and sops are synchronous calls, so between two awaits a *)
(* request of the server is alone in it; a CLI process comes in between    *)
(* any two of them, and a process may die between any two of them.  A test *)
(* for a file and the read right after it are one step: the file may be    *)
(* gone in between, and then the operation ends with an error.             *)
(***************************************************************************)
EXTENDS Naturals, FiniteSets, Sequences

CONSTANTS
  Cli,       \* commands of the CLI, each a process of its own
  Web,       \* requests in the server
  Keys,      \* age keys there will ever be
  NoKey,     \* no key
  Torn,      \* a key file without its contents
  Names,     \* names of secrets
  NoName,    \* in place of a name where there is none
  Scenes,    \* what the CLI and the server are asked for: pairs of sets of operations
  MaxOps,    \* bound: operations
  MaxMishaps \* bound: crashes, and calls that fail for no reason in the model

Actors == Cli \cup Web

ASSUME FilesAssumption ==
  /\ Cli \cap Web = {}
  /\ NoKey \notin Keys /\ Torn \notin Keys /\ NoKey # Torn
  /\ NoName \notin Names
  /\ {MaxOps, MaxMishaps} \subseteq Nat

VARIABLES
  key,       \* age_keys/<name>
  rules,     \* .sops.yaml: the key whose public half it names
  secrets,   \* secrets.env.enc
  toml,      \* hermes.toml: "missing", "torn" or "valid"
  recorded,  \* whether state.toml has the deployment
  copy,      \* where the operator keeps what `key export` printed
  act,       \* what the actors are doing
  used,      \* keys made so far
  hist,      \* history: crashes, failures, overlaps, two commands that made the
             \* secrets' file at once, a destroy that ended, the secrets acknowledged
  left,      \* operations and mishaps left
  scene      \* what is asked for

fileVars == <<key, rules, secrets, toml, recorded, copy>>

vars == <<fileVars, act, used, hist, left, scene>>

Ops == {"init", "up", "set", "remove", "edit", "list", "import", "export",
        "destroy", "putToml"}

\* They make, replace or remove the key and what is encrypted with it.
Makers == {"init", "up", "import", "destroy"}

\* They write secrets.
Writers == {"set", "remove", "edit"}

NoFile == [form |-> "missing", to |-> NoKey, names |-> {}]

Idle == [op |-> "list", pc |-> "idle", name |-> NoName, seen |-> {}, pub |-> NoKey]

Pcs == {"idle", "key", "keygen", "keyfile", "rules", "rulesFile", "boot", "bootFile",
        "wrap", "wrapped", "toml", "record", "read", "plain", "encrypt", "replace",
        "clean", "editor", "copy", "fill", "unlinkKey", "unlinkRules", "unlinkSecrets",
        "forget"}

\* A command here has found no secrets and makes the file.
BootPcs == {"bootFile", "wrap", "wrapped"}

TypeOK ==
  /\ key \in Keys \cup {NoKey, Torn}
  /\ {rules, copy} \subseteq Keys \cup {NoKey, Torn}
  /\ secrets \in [form : {"missing", "plain", "cipher"}, to : Keys \cup {NoKey},
                  names : SUBSET Names]
  /\ toml \in {"missing", "torn", "valid"}
  /\ recorded \in BOOLEAN
  /\ act \in [Actors -> [op : Ops, pc : Pcs, name : Names \cup {NoName},
                         seen : SUBSET Names, pub : Keys \cup {NoKey}]]
  /\ used \subseteq Keys
  /\ hist \in [crash : BOOLEAN, fail : BOOLEAN, race : BOOLEAN, twice : BOOLEAN,
               ended : BOOLEAN, acked : SUBSET Names]
  /\ left \in [ops : 0..MaxOps, mishaps : 0..MaxMishaps]
  /\ scene \in Scenes

Init ==
  /\ key = NoKey /\ rules = NoKey /\ copy = NoKey
  /\ secrets = NoFile
  /\ toml = "missing"
  /\ recorded = FALSE
  /\ act = [a \in Actors |-> Idle]
  /\ used = {}
  /\ hist = [crash |-> FALSE, fail |-> FALSE, race |-> FALSE, twice |-> FALSE,
             ended |-> FALSE, acked |-> {}]
  /\ left = [ops |-> MaxOps, mishaps |-> MaxMishaps]
  /\ scene \in Scenes

-----------------------------------------------------------------------------
(* Processes *)

At(a, pc) == act[a].pc = pc

Going(a, pc) == act' = [act EXCEPT ![a].pc = pc]

Ending(a) == act' = [act EXCEPT ![a] = Idle]

\* Mutant: secrets are read and written in two turns of the event loop.
AwaitingReads(a) ==
  \/ act[a].pc \in {"idle", "read", "record", "editor", "forget", "unlinkKey", "plain"}
  \/ act[a].op = "up" /\ act[a].pc = "rules"

\* Between these points and the next one there is an await.  readSecrets and
\* writeSecrets are async in name only: awaiting them lets no other request in.
Awaiting(a) ==
  \/ act[a].pc \in {"idle", "read", "record", "editor", "forget", "unlinkKey"}
  \/ act[a].op = "up" /\ act[a].pc = "rules"

\* The server's event loop runs one request up to its next await.
Runs(a) == a \in Web => \A b \in Web \ {a} : Awaiting(b)

\* A call fails: the actor's operation ends with an error.
Fails(a) ==
  /\ left.mishaps > 0
  /\ left' = [left EXCEPT !.mishaps = @ - 1]
  /\ hist' = [hist EXCEPT !.fail = TRUE]
  /\ Ending(a)

Same == UNCHANGED <<hist, left>>

\* Two operations overlap of which one makes or removes keys.
Overlaps(op) ==
  \E b \in Actors :
    /\ ~At(b, "idle")
    /\ \/ op \in Makers /\ act[b].op \in Makers \cup Writers
       \/ act[b].op \in Makers /\ op \in Makers \cup Writers

\* An operation begins, at pc.
Begin(a, op, pc, name) ==
  /\ At(a, "idle") /\ Runs(a)
  /\ op \in IF a \in Cli THEN scene.cli ELSE scene.web
  /\ left.ops > 0
  /\ left' = [left EXCEPT !.ops = @ - 1]
  /\ hist' = [hist EXCEPT !.race = @ \/ Overlaps(op)]
  /\ act' = [act EXCEPT ![a] = [Idle EXCEPT !.op = op, !.pc = pc, !.name = name]]

-----------------------------------------------------------------------------
(* init, and the keys of up *)

\* initCommand refuses a directory that has a hermes.toml.
BeginInit(a) ==
  /\ toml = "missing"
  /\ Begin(a, "init", "key", NoName)
  /\ UNCHANGED <<fileVars, used>>

\* runDeploy first loads hermes.toml and wants every file it names, the
\* secrets too.  The dashboard has one up or destroy of a name at a time.
BeginUp(a) ==
  /\ toml = "valid" /\ secrets.form # "missing"
  /\ a \in Web => \A b \in Web : At(b, "idle") \/ act[b].op \notin {"up", "destroy"}
  /\ Begin(a, "up", "key", NoName)
  /\ UNCHANGED <<fileVars, used>>

\* existsSync of the key, and its public half from the file.
FindKey(a) ==
  /\ At(a, "key") /\ Runs(a)
  /\ act' = [act EXCEPT ![a] =
               IF key = NoKey THEN [@ EXCEPT !.pc = "keygen"]
               ELSE IF key = Torn THEN Idle
               ELSE [@ EXCEPT !.pc = "rules", !.pub = key]]
  /\ UNCHANGED <<fileVars, used>> /\ Same

\* generateAgeKeypair asks again whether there is a key; age-keygen may fail.
Keygen(a) ==
  /\ At(a, "keygen") /\ Runs(a)
  /\ \/ key # NoKey /\ Ending(a) /\ Same /\ UNCHANGED used
     \/ Fails(a) /\ UNCHANGED used
     \/ /\ key = NoKey /\ used # Keys
        /\ LET k == CHOOSE k \in Keys \ used : TRUE IN
             /\ used' = used \cup {k}
             /\ act' = [act EXCEPT ![a].pc = "keyfile", ![a].pub = k]
        /\ Same
  /\ UNCHANGED <<fileVars>>

\* writeFileSync is cut off by a crash at worst.
WriteKey(a) ==
  /\ At(a, "keyfile") /\ Runs(a)
  /\ key' = act[a].pub
  /\ Going(a, "rules")
  /\ UNCHANGED <<rules, secrets, toml, recorded, copy, used>> /\ Same

\* ensureSopsBootstrap: existsSync of .sops.yaml.
FindRules(a) ==
  /\ At(a, "rules") /\ Runs(a)
  /\ Going(a, IF rules = NoKey THEN "rulesFile" ELSE "boot")
  /\ UNCHANGED <<fileVars, used>> /\ Same

\* .sops.yaml is written, over one made since.
WriteRules(a) ==
  /\ At(a, "rulesFile") /\ Runs(a)
  /\ rules' = act[a].pub
  /\ Going(a, "boot")
  /\ UNCHANGED <<key, secrets, toml, recorded, copy, used>> /\ Same

Bootstrapped(a) == IF act[a].op = "init" THEN "toml" ELSE "record"

\* existsSync of secrets.env.enc.
FindSecrets(a) ==
  /\ At(a, "boot") /\ Runs(a)
  /\ IF secrets.form = "missing"
       THEN /\ Going(a, "bootFile")
            /\ hist' = [hist EXCEPT !.twice =
                          @ \/ \E b \in Actors \ {a} : act[b].pc \in BootPcs]
       ELSE /\ Going(a, Bootstrapped(a))
            /\ UNCHANGED hist
  /\ UNCHANGED <<fileVars, used, left>>

\* The placeholder is written as plain text, over a file made since.
WritePlaceholder(a) ==
  /\ At(a, "bootFile") /\ Runs(a)
  /\ secrets' = [NoFile EXCEPT !.form = "plain"]
  /\ Going(a, "wrap")
  /\ UNCHANGED <<key, rules, toml, recorded, copy, used>> /\ Same

\* sops --encrypt --in-place reads the file and the key .sops.yaml names.  It
\* does not encrypt twice.
WrapPlaceholder(a) ==
  /\ At(a, "wrap") /\ Runs(a)
  /\ \/ /\ secrets.form = "plain" /\ rules \in Keys
        /\ act' = [act EXCEPT ![a].pc = "wrapped", ![a].pub = rules]
        /\ Same
     \/ /\ secrets.form # "plain" \/ rules \notin Keys
        /\ Ending(a) /\ Same
     \/ Fails(a)
  /\ UNCHANGED <<fileVars, used>>

\* It writes the cipher text in place of the plain.
WriteWrapped(a) ==
  /\ At(a, "wrapped") /\ Runs(a)
  /\ secrets' = [form |-> "cipher", to |-> act[a].pub, names |-> {}]
  /\ Going(a, Bootstrapped(a))
  /\ UNCHANGED <<key, rules, toml, recorded, copy, used>> /\ Same

\* The rest of init: hermes.toml and the files that have no part here.
WriteToml(a) ==
  /\ At(a, "toml") /\ Runs(a)
  /\ toml' = "valid"
  /\ Ending(a)
  /\ UNCHANGED <<key, rules, secrets, recorded, copy, used>> /\ Same

\* The rest of up: provisioning fails or the deployment is recorded.
Record(a) ==
  /\ At(a, "record") /\ Runs(a)
  /\ \/ recorded' = TRUE
     \/ UNCHANGED recorded
  /\ hist' = IF recorded' /\ ~recorded THEN [hist EXCEPT !.ended = FALSE] ELSE hist
  /\ Ending(a)
  /\ UNCHANGED <<key, rules, secrets, toml, copy, used, left>>

-----------------------------------------------------------------------------
(* secret set, rm, list, get, edit *)

\* getContext: the project's hermes.toml, and the key's path from the record
\* or, before the first up, from the name.  The server only knows recorded
\* deployments.
BeginSecret(a, op, name) ==
  /\ toml = "valid"
  /\ recorded \/ (a \in Cli /\ key # NoKey)
  /\ op = "edit" => a \in Cli
  /\ Begin(a, op, "read", name)
  /\ UNCHANGED <<fileVars, used>>

\* sops can decrypt what was encrypted for the key on the disk.
Opens == secrets.form = "cipher" /\ secrets.to = key

\* readSecrets, and what the operation makes of them.
ReadSecrets(a) ==
  /\ At(a, "read") /\ Runs(a)
  /\ \/ /\ Opens
        /\ act' = [act EXCEPT ![a] =
             CASE act[a].op = "list" -> Idle
               [] act[a].op = "set" ->
                    [@ EXCEPT !.pc = "plain", !.seen = secrets.names \cup {act[a].name}]
               [] act[a].op = "remove" ->
                    [@ EXCEPT !.pc = "plain", !.seen = secrets.names \ {act[a].name}]
               [] act[a].op = "edit" ->
                    [@ EXCEPT !.pc = "editor", !.pub = secrets.to,
                              !.seen = secrets.names \cup {act[a].name}]]
        /\ Same
     \/ ~Opens /\ Ending(a) /\ Same
     \/ Fails(a)
  /\ UNCHANGED <<fileVars, used>>

\* writeSecrets: the plain text into a temp file of this process.
WritePlain(a) ==
  /\ At(a, "plain") /\ Runs(a)
  /\ Going(a, "encrypt")
  /\ UNCHANGED <<fileVars, used>> /\ Same

\* sops --encrypt for the key .sops.yaml names; finally removes the temp file.
Encrypt(a) ==
  /\ At(a, "encrypt") /\ Runs(a)
  /\ \/ /\ rules \in Keys
        /\ act' = [act EXCEPT ![a].pc = "replace", ![a].pub = rules]
        /\ Same
     \/ rules \notin Keys /\ Ending(a) /\ Same
     \/ Fails(a)
  /\ UNCHANGED <<fileVars, used>>

\* The cipher text's temp file is renamed over secrets.env.enc.
Replace(a) ==
  /\ At(a, "replace") /\ Runs(a)
  /\ secrets' = [form |-> "cipher", to |-> act[a].pub, names |-> act[a].seen]
  /\ hist' = IF act[a].op = "remove" THEN [hist EXCEPT !.acked = @ \ {act[a].name}] ELSE hist
  /\ Going(a, "clean")
  /\ UNCHANGED <<key, rules, toml, recorded, copy, used, left>>

\* The plaintext temp file goes, and the operation is acknowledged.
CleanUp(a) ==
  /\ At(a, "clean") /\ Runs(a)
  /\ hist' = IF act[a].op = "set" THEN [hist EXCEPT !.acked = @ \cup {act[a].name}] ELSE hist
  /\ Ending(a)
  /\ UNCHANGED <<fileVars, used, left>>

\* sops and the editor, on the file itself and for its own key.
SaveEdited(a) ==
  /\ At(a, "editor")
  /\ secrets' = [form |-> "cipher", to |-> act[a].pub, names |-> act[a].seen]
  /\ Ending(a)
  /\ UNCHANGED <<key, rules, toml, recorded, copy, used>> /\ Same

-----------------------------------------------------------------------------
(* key export and import *)

ExportKey(a) ==
  /\ key # NoKey
  /\ Begin(a, "export", "idle", NoName)
  /\ copy' = key
  /\ UNCHANGED <<key, rules, secrets, toml, recorded, used>>

\* keyImport: not over a key that is there.
BeginImport(a) ==
  /\ key = NoKey /\ copy # NoKey
  /\ Begin(a, "import", "copy", NoName)
  /\ UNCHANGED <<fileVars, used>>

CopyKey(a) ==
  /\ At(a, "copy") /\ Runs(a)
  /\ key' = copy
  /\ Ending(a)
  /\ UNCHANGED <<rules, secrets, toml, recorded, copy, used>> /\ Same

-----------------------------------------------------------------------------
(* PUT of hermes.toml in the dashboard *)

\* The contents have been validated; writeFileSync empties the file first.
BeginPut(a) ==
  /\ a \in Web
  /\ recorded
  /\ Begin(a, "putToml", "fill", NoName)
  /\ toml' = "torn"
  /\ UNCHANGED <<key, rules, secrets, recorded, copy, used>>

FillToml(a) ==
  /\ At(a, "fill")
  /\ toml' = "valid"
  /\ Ending(a)
  /\ UNCHANGED <<key, rules, secrets, recorded, copy, used>> /\ Same

-----------------------------------------------------------------------------
(* destroy *)

\* Mutant: the record goes first.
BeginDestroyForgetting(a) ==
  /\ recorded
  /\ recorded' = FALSE
  /\ Begin(a, "destroy", "unlinkKey", NoName)
  /\ UNCHANGED <<key, rules, secrets, toml, copy, used>>

\* The resources are gone; the files go next.
BeginDestroy(a) ==
  /\ recorded
  /\ a \in Web => \A b \in Web : At(b, "idle") \/ act[b].op \notin {"up", "destroy"}
  /\ Begin(a, "destroy", "unlinkKey", NoName)
  /\ UNCHANGED <<fileVars, used>>

\* An unlink that fails is passed over.
Passed ==
  /\ left.mishaps > 0
  /\ left' = [left EXCEPT !.mishaps = @ - 1]
  /\ hist' = [hist EXCEPT !.fail = TRUE]

UnlinkKey(a) ==
  /\ At(a, "unlinkKey") /\ Runs(a)
  /\ \/ key' = NoKey /\ Same
     \/ key # NoKey /\ Passed /\ UNCHANGED key
  /\ Going(a, "unlinkRules")
  /\ UNCHANGED <<rules, secrets, toml, recorded, copy, used>>

UnlinkRules(a) ==
  /\ At(a, "unlinkRules") /\ Runs(a)
  /\ \/ rules' = NoKey /\ Same
     \/ rules # NoKey /\ Passed /\ UNCHANGED rules
  /\ Going(a, "unlinkSecrets")
  /\ UNCHANGED <<key, secrets, toml, recorded, copy, used>>

\* Mutant: secrets.env.enc is not on the list.
UnlinkSecretsNever(a) ==
  /\ At(a, "unlinkSecrets") /\ Runs(a)
  /\ Going(a, "forget")
  /\ UNCHANGED <<fileVars, used>> /\ Same

UnlinkSecrets(a) ==
  /\ At(a, "unlinkSecrets") /\ Runs(a)
  /\ \/ /\ secrets' = NoFile
        /\ hist' = [hist EXCEPT !.acked = {}]
        /\ UNCHANGED left
     \/ secrets # NoFile /\ Passed /\ UNCHANGED secrets
  /\ Going(a, "forget")
  /\ UNCHANGED <<key, rules, toml, recorded, copy, used>>

\* The record is deleted, last.
Forget(a) ==
  /\ At(a, "forget") /\ Runs(a)
  /\ recorded' = FALSE
  /\ hist' = [hist EXCEPT !.ended = TRUE]
  /\ Ending(a)
  /\ UNCHANGED <<key, rules, secrets, toml, copy, used, left>>

-----------------------------------------------------------------------------

\* Processes that die take all their operations with them: a CLI command, or
\* the server.  A key file or .sops.yaml that was being written is cut off.
Crash ==
  /\ left.mishaps > 0
  /\ \E dead \in {{c} : c \in Cli} \cup {Web} :
       /\ \E a \in dead : ~At(a, "idle")
       /\ act' = [a \in Actors |-> IF a \in dead THEN Idle ELSE act[a]]
       /\ hist' = [hist EXCEPT !.crash = TRUE]
       /\ \/ UNCHANGED key
          \/ (\E a \in dead : At(a, "keyfile") \/ At(a, "copy")) /\ key' = Torn
       /\ \/ UNCHANGED rules
          \/ (\E a \in dead : At(a, "rulesFile")) /\ rules' = Torn
  /\ left' = [left EXCEPT !.mishaps = @ - 1]
  /\ UNCHANGED <<secrets, toml, recorded, copy, used>>

InitSteps(a) ==
  \/ BeginInit(a) \/ BeginUp(a)
  \/ FindKey(a) \/ Keygen(a) \/ WriteKey(a) \/ FindRules(a) \/ WriteRules(a)
  \/ FindSecrets(a) \/ WritePlaceholder(a) \/ WrapPlaceholder(a) \/ WriteWrapped(a)
  \/ WriteToml(a) \/ Record(a)

SecretSteps(a) ==
  \/ \E op \in Writers, n \in Names : BeginSecret(a, op, n)
  \/ BeginSecret(a, "list", NoName)
  \/ ReadSecrets(a) \/ WritePlain(a) \/ Encrypt(a) \/ Replace(a) \/ CleanUp(a)
  \/ SaveEdited(a)

KeySteps(a) == ExportKey(a) \/ BeginImport(a) \/ CopyKey(a)

DestroySteps(a) ==
  \/ BeginDestroy(a) \/ UnlinkKey(a) \/ UnlinkRules(a) \/ UnlinkSecrets(a) \/ Forget(a)

Next ==
  /\ \/ \E a \in Actors :
          \/ InitSteps(a) \/ SecretSteps(a) \/ KeySteps(a) \/ DestroySteps(a)
          \/ BeginPut(a) \/ FillToml(a)
     \/ Crash
  /\ UNCHANGED scene

Spec == Init /\ [][Next]_vars

-----------------------------------------------------------------------------
(* Properties *)

MakerAtWork == \E a \in Actors : ~At(a, "idle") /\ act[a].op \in Makers

\* Outside of init, up, import and destroy the secrets open with the key that is
\* there, whatever sequence of commands has led there, as long as none of them
\* was cut off by a crash or a failed call or overlapped with another.
SecretsOpen ==
  ~MakerAtWork /\ ~hist.crash /\ ~hist.fail /\ ~hist.race
    => secrets.form = "missing" \/ Opens

\* A crash, in the middle of a destroy too, never leaves secrets no key opens
\* without a record by which a second destroy would find and remove them.
StrandedIsRecorded ==
  ~MakerAtWork /\ ~hist.fail /\ ~hist.race
    => secrets.form # "cipher" \/ Opens \/ recorded

\* What the dashboard has acknowledged is in the file until somebody removes
\* it, across crashes, beside any init and up: unless the CLI writes secrets or
\* destroys the deployment, which may come between the dashboard's read of the
\* file and its answer, or two commands have found no file and both made it.
AckedSecretsKept ==
  scene.cli \cap (Writers \cup {"destroy"}) = {} /\ ~hist.twice
    => hist.acked \subseteq secrets.names

\* docs/getting-started.md: after a destroy, "The next `hermes-deploy up` from the
\* same project directory starts from a clean slate."  Were it so, up would find
\* the files it wants.
CleanSlate ==
  hist.ended /\ toml = "valid" /\ (\A a \in Actors : At(a, "idle"))
    => secrets.form # "missing"

=============================================================================
