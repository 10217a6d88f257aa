------------------------------ MODULE ConfigSync ------------------------------
(***************************************************************************)
(* One deployment's path from the project directory to the box: runDeploy  *)
(* (src/orchestrator/deploy.ts), runUpdate (update.ts), runUpgrade         *)
(* (upgrade.ts) and the helpers they share (shared.ts), with the hashes in *)
(* state.toml that let an update skip work.                                *)
(*                                                                         *)
(* The operator edits files at any time, a run can fail at any remote step,*)
(* and a later run decides from the recorded hashes what to push.  A       *)
(* content is a version; a hash is the record of the contents it covers,   *)
(* so two hashes are equal exactly when the contents are.  One run at a    *)
(* time: what keeps runs apart is the subject of another module.           *)
(***************************************************************************)
EXTENDS Naturals, FiniteSets

CONSTANTS
  Versions,    \* contents a file or a section of hermes.toml can have
  Profiles,    \* names [[hermes.profiles]] can declare
  DocNames,    \* keys a profile's document can be declared under
  Domains,     \* names [domain] can have
  Editable,    \* what the operator edits, among Field
  Kinds,       \* the commands the operator runs, among Command
  FailPoints,  \* <<kind of run, step>>: the steps that may throw
  Drifts,      \* what changes behind the tool's back, among {"net", "cron"}
  EditsMidRun, \* whether the operator edits while a run is under way
  Unhealthy,   \* whether the healthcheck can find the service inactive
  Undeclared,  \* hermes.toml has no [[hermes.cron]] section
  NoDomain,    \* hermes.toml has no [domain] section, or there is no record
  Blank,       \* not on the box, or only in part
  Pending      \* a hash no content has: 'pending', 'sha256:unknown'

\* "extra" is the adding of nix_extra, "extraGone" its removal.
Field == {"nix", "net", "cron", "dom", "profiles", "docs", "files", "pfiles",
          "extra", "extraGone"}

\* "redeploy" is an up of a deployment that exists.
Command == {"up", "redeploy", "update", "upgrade"}

ASSUME SyncAssumption ==
  /\ Versions # {}
  /\ Editable \subseteq Field
  /\ Kinds \subseteq Command
  /\ EditsMidRun \in BOOLEAN /\ Unhealthy \in BOOLEAN
  /\ Undeclared \notin Versions
  /\ NoDomain \notin Domains
  /\ Blank \notin Versions \cup Domains \cup Profiles \cup {NoDomain}

-------------------------------------------------------------------------------
(* Contents and hashes *)

\* hermes.toml: the fields that reach the generated Nix (environment,
\* document keys, watchdog, cachix), whether nix_extra is set, [network],
\* [[hermes.cron]], [domain] and [[hermes.profiles]], each with one document and
\* the key it is declared under.
Toml == [nix : Versions, extra : BOOLEAN, net : Versions,
         cron : Versions \cup {Undeclared}, dom : Domains \cup {NoDomain},
         profiles : SUBSET Profiles, docs : [Profiles -> DocNames]]

\* A project directory: hermes.toml, the files hashed with it (config.yaml,
\* secrets.env.enc, nix_extra, documents) and the contents of each profile's
\* files, its document's included.
Project == [toml : Toml, files : Versions, pfiles : [Profiles -> Versions]]

\* What a NixOS generation is built from, and what computeNixHash covers.
Build == [nix : Versions, extra : BOOLEAN, dom : Domains \cup {NoDomain},
          files : Versions]

\* The same with parts the box has not received.
BoxBuild == [nix : Versions \cup {Blank}, extra : BOOLEAN,
             dom : Domains \cup {NoDomain, Blank}, files : Versions \cup {Blank}]

\* A profile's home on the box: config.yaml and .env, each name's document, and
\* (history) the name its document was last uploaded under.
BoxProfile == [files : Versions \cup {Blank}, docs : [DocNames -> Versions \cup {Blank}],
               as : DocNames \cup {Blank}]

\* What the generated hermes.nix says of hermes.toml (environment, document keys,
\* watchdog), and what configuration.nix does (the domain; the cache goes with the
\* former).  Both are fixed texts otherwise.
HermesNix(toml) == toml.nix
ConfigurationNix(toml) == toml.dom

\* computeNixHash(projectDir, config): the files as they are on disk now,
\* and the hermes.toml fields as the run loaded them.
NixHash(d, toml) ==
  [nix |-> toml.nix, extra |-> toml.extra, dom |-> toml.dom, files |-> d.files]

ProfileHashes == UNION {[S -> Versions] : S \in SUBSET Profiles}
NoHashes == [p \in {} |-> Pending]

\* computeProfileHash of every profile the loaded hermes.toml declares: contents
\* only, whatever key a document is declared under.
ProfileHash(d, toml) == [p \in toml.profiles |-> d.pfiles[p]]

\* Every hash of the whole configuration covers hermes.toml as it is on disk.
ConfigHash == [toml : Toml, files : Versions, pfiles : ProfileHashes]

\* What stands for "no hash" is no content's hash.
ASSUME HashAssumption == Pending \notin ConfigHash /\ Pending \notin Build

\* Mutant: profile files left out, so that an edit of one goes unnoticed.
UpdateHashNoProfiles(d, toml) ==
  [toml |-> d.toml, files |-> d.files, pfiles |-> NoHashes]

\* runUpdate's newHash, profile files included.
UpdateHash(d, toml) ==
  [toml |-> d.toml, files |-> d.files, pfiles |-> ProfileHash(d, toml)]

\* recordConfigAndHealthcheck's configHash, without the profile files.
RecordedHash(d) == [toml |-> d.toml, files |-> d.files, pfiles |-> NoHashes]

-------------------------------------------------------------------------------
(* State *)

VARIABLES
  disk,    \* the project directory
  rec,     \* the deployment's record in state.toml
  box,     \* /etc/nixos, the active generation, cron jobs and profiles
  net,     \* the cloud firewall rules in force
  dns,     \* names: those that have an A record to the box; left (history):
           \* the one whose delete failed, one failure being the bound
  run,     \* the run under way
  report   \* history: how the last run ended, until anything else happens

vars == <<disk, rec, box, net, dns, run, report>>

Record == [exists : BOOLEAN,
           config : ConfigHash \cup {Pending},  \* last_config_hash
           nix : Build \cup {Pending},          \* last_nix_hash
           profiles : ProfileHashes,            \* profile_hashes
           dom : Domains \cup {NoDomain}]       \* domain_name, dns_record_id

NoRecord == [exists |-> FALSE, config |-> Pending, nix |-> Pending,
             profiles |-> NoHashes, dom |-> NoDomain]

Step == {"provision", "persist", "waitSsh",            \* up
         "reconcileNetwork", "hashCheck", "nixCheck",  \* update
         "connect", "flakeUpdate",                     \* update; upgrade
         "dns", "dnsRecord", "cron", "upload", "uploadFiles", "rebuild",
         "recordConfig", "health", "hashProfiles", "syncProfiles",
         "recordProfiles"}

Outcome == {"none", "failed", "unhealthy", "upToDate", "networkOnly", "applied"}

\* Outcomes that tell the operator the box is as the project says.
Success == {"upToDate", "networkOnly", "applied"}

Idle == [pc |-> "idle", kind |-> "none", toml |-> Blank, dep |-> NoRecord,
         hashes |-> NoHashes, left |-> {}, current |-> Blank, full |-> FALSE,
         after |-> "none"]

Run == [pc : Step \cup {"idle"},
        kind : {"none", "up", "update", "upgrade"},
        toml : Toml \cup {Blank},  \* hermes.toml as loaded at the start
        dep : Record,              \* the record as read at the start
        hashes : ProfileHashes,    \* profileHashMap
        left : SUBSET Profiles,    \* profiles still to upload
        current : Profiles \cup {Blank},  \* up: the profile just uploaded
        full : BOOLEAN,            \* rebuilding, not only syncing profiles
        after : Outcome]           \* history: how the run before it ended, if
                                   \* nothing has changed since

TypeOK ==
  /\ disk \in Project
  /\ rec \in Record
  /\ box \in [staged : BoxBuild, active : BoxBuild,
              cron : Versions \cup {Blank},
              profiles : [Profiles -> BoxProfile]]
  /\ net \in Versions \cup {Blank}
  /\ dns \in [names : SUBSET Domains, left : Domains \cup {NoDomain}]
  /\ run \in Run
  /\ report \in [outcome : Outcome, kind : {"none", "up", "update", "upgrade"},
                after : Outcome]

NoReport == [outcome |-> "none", kind |-> "none", after |-> "none"]
NoProfile == [files |-> Blank, docs |-> [d \in DocNames |-> Blank], as |-> Blank]
BlankBuild == [nix |-> Blank, extra |-> FALSE, dom |-> Blank, files |-> Blank]

\* A project as `init` leaves it, not deployed.
Init ==
  /\ \E v \in Versions, c \in Versions \cup {Undeclared},
        docs \in [Profiles -> DocNames] :
       /\ c = Undeclared \/ c = v
       /\ "cron" \notin Editable \cup Drifts => c = Undeclared
       /\ disk = [toml |-> [nix |-> v, extra |-> FALSE, net |-> v, cron |-> c,
                            dom |-> NoDomain, profiles |-> Profiles, docs |-> docs],
                  files |-> v, pfiles |-> [p \in Profiles |-> v]]
  /\ rec = NoRecord
  /\ box = [staged |-> BlankBuild, active |-> BlankBuild, cron |-> Blank,
            profiles |-> [p \in Profiles |-> NoProfile]]
  /\ net = Blank
  /\ dns = [names |-> {}, left |-> NoDomain]
  /\ run = Idle
  /\ report = NoReport

At(step) == run.pc = step
Goto(step) == run' = [run EXCEPT !.pc = step]

\* The command returns.
End(outcome) ==
  /\ run' = Idle
  /\ report' = [outcome |-> outcome, kind |-> run.kind, after |-> run.after]

-------------------------------------------------------------------------------
(* The start of a command *)

\* loadHermesToml, validateProjectFiles and store.read: the run keeps what it
\* loaded here to the end.
Begin(kind, first) ==
  /\ At("idle")
  /\ run' = [Idle EXCEPT !.pc = first, !.kind = kind, !.toml = disk.toml,
                         !.dep = rec, !.after = report.outcome]
  /\ report' = NoReport
  /\ UNCHANGED <<disk, rec, box, net, dns>>

Up ==
  /\ (IF rec.exists THEN "redeploy" ELSE "up") \in Kinds
  /\ Begin("up", "provision")
Update == "update" \in Kinds /\ rec.exists /\ Begin("update", "reconcileNetwork")
Upgrade == "upgrade" \in Kinds /\ rec.exists /\ Begin("upgrade", "flakeUpdate")

-------------------------------------------------------------------------------
(* runDeploy *)

\* provider.provision.  On a box that exists already (GCP answers 409) every
\* resource is reused as it is, firewall rules included.
Provision ==
  /\ At("provision")
  /\ net' = IF net = Blank THEN run.toml.net ELSE net
  /\ Goto("persist")
  /\ UNCHANGED <<disk, rec, box, dns, report>>

\* The record is replaced: pending hashes, no profile hashes, no domain.
Persist ==
  /\ At("persist")
  /\ rec' = [NoRecord EXCEPT !.exists = TRUE]
  /\ Goto(IF run.toml.dom # NoDomain THEN "dns" ELSE "waitSsh")
  /\ UNCHANGED <<disk, box, net, dns, report>>

WaitSsh ==
  /\ At("waitSsh")
  /\ Goto("upload")
  /\ UNCHANGED <<disk, rec, box, net, dns, report>>

-------------------------------------------------------------------------------
(* runUpdate, up to the rebuild *)

\* provider.reconcileNetwork, before the hash short-circuit.
ReconcileNetwork ==
  /\ At("reconcileNetwork")
  /\ net' = run.toml.net
  /\ Goto("hashCheck")
  /\ UNCHANGED <<disk, rec, box, dns, report>>

\* Mutant: crons are reconciled after the Nix check, in full updates only.
AfterHashCheckNoCron ==
  IF run.toml.dom # NoDomain \/ run.dep.dom # NoDomain THEN "dns" ELSE "nixCheck"

\* Where the hash check leads when something changed: DNS only has work to do
\* when a domain is declared or recorded.
AfterHashCheck ==
  IF run.toml.dom # NoDomain \/ run.dep.dom # NoDomain THEN "dns" ELSE "cron"

\* Nothing changed since the recorded configuration: return without SSH.
ShortCircuit ==
  /\ At("hashCheck")
  /\ UpdateHash(disk, run.toml) = run.dep.config
  /\ End("upToDate")
  /\ UNCHANGED <<disk, rec, box, net, dns>>

Changed ==
  /\ At("hashCheck")
  /\ UpdateHash(disk, run.toml) # run.dep.config
  /\ Goto(AfterHashCheck)
  /\ UNCHANGED <<disk, rec, box, net, dns, report>>

\* Mutant: a name that is no longer declared is left.
DeletedNever(fqdn, names) == names

\* deleteDnsRecord: the A record found under the name, if there is one; the
\* provider swallows every error.
Deleted(fqdn, names) == names \ {fqdn}

\* upsertDnsRecord: whatever the name had before, it has the box's address now.
\* NoDomain for a section that is not there.
Upserted(fqdn, names) == names \cup ({fqdn} \ {NoDomain})

\* Mutant: a removed section is upserted.
DnsAlwaysUpsert ==
  /\ At("dns")
  /\ dns' = [dns EXCEPT !.names = Deleted(run.dep.dom, @) \cup {run.toml.dom}]
  /\ Goto("dnsRecord")
  /\ UNCHANGED <<disk, rec, box, net, report>>

\* The recorded name an update looks at; an up only upserts.
OldName == IF run.kind = "up" THEN NoDomain ELSE run.dep.dom

\* Upsert the declared name, after a best-effort delete of another recorded
\* one; or delete the recorded name when the section is gone.
Dns ==
  /\ At("dns")
  /\ \/ dns' = [dns EXCEPT !.names = Upserted(run.toml.dom, Deleted(OldName, @))]
     \/ /\ <<run.kind, "dnsDelete">> \in FailPoints
        /\ dns.left = NoDomain
        /\ OldName \notin {NoDomain, run.toml.dom}
        /\ dns' = [names |-> Upserted(run.toml.dom, dns.names), left |-> OldName]
  /\ Goto("dnsRecord")
  /\ UNCHANGED <<disk, rec, box, net, report>>

DnsRecord ==
  /\ At("dnsRecord")
  /\ rec' = [rec EXCEPT !.dom = run.toml.dom]
  /\ Goto(IF run.kind = "up" THEN "waitSsh" ELSE "cron")
  /\ UNCHANGED <<disk, box, net, dns, report>>

\* reconcileCrons, when the section is declared.  In an update it comes before
\* the nix check; in an up it is the last step.
Cron ==
  /\ At("cron")
  /\ box' = IF run.toml.cron = Undeclared THEN box
            ELSE [box EXCEPT !.cron = run.toml.cron]
  /\ IF run.kind = "up" THEN End("applied")
     ELSE Goto("nixCheck") /\ report' = report
  /\ UNCHANGED <<disk, rec, net, dns>>

\* Nothing that reaches Nix changed: no rebuild, only profiles.
NixCheck ==
  /\ At("nixCheck")
  /\ LET same == NixHash(disk, run.toml) = run.dep.nix
     IN  run' = [run EXCEPT !.pc = IF same THEN "hashProfiles" ELSE "upload",
                            !.full = ~same]
  /\ UNCHANGED <<disk, rec, box, net, dns, report>>

-------------------------------------------------------------------------------
(* uploadAndRebuild and recordConfigAndHealthcheck *)

\* Mutant: hermes.nix is not uploaded.
UploadNoHermesNix ==
  /\ At("upload")
  /\ box' = [box EXCEPT !.staged.dom = ConfigurationNix(run.toml)]
  /\ Goto("uploadFiles")
  /\ UNCHANGED <<disk, rec, net, dns, report>>

\* The generated flake.nix, configuration.nix and hermes.nix.  The flake takes
\* hermes.extra.nix in whenever it is there.
Upload ==
  /\ At("upload")
  /\ box' = [box EXCEPT !.staged.nix = HermesNix(run.toml),
                         !.staged.dom = ConfigurationNix(run.toml)]
  /\ Goto("uploadFiles")
  /\ UNCHANGED <<disk, rec, net, dns, report>>

\* config.yaml, secrets, documents and, when set, nix_extra, read from the disk
\* now.  Nothing is ever deleted from /etc/nixos.
UploadFiles ==
  /\ At("uploadFiles")
  /\ box' = [box EXCEPT !.staged.files = disk.files,
                         !.staged.extra = @ \/ run.toml.extra]
  /\ Goto("rebuild")
  /\ UNCHANGED <<disk, rec, net, dns, report>>

\* Mutant: rebuild.success is not looked at.
RebuildUnchecked ==
  /\ At("rebuild")
  /\ box' \in {box, [box EXCEPT !.active = box.staged]}
  /\ Goto(CASE run.kind = "up" -> "recordConfig"
            [] run.kind = "update" -> "connect"
            [] OTHER -> "health")
  /\ UNCHANGED <<disk, rec, net, dns, report>>

\* nixos-rebuild switch of what /etc/nixos holds.  An update then opens a
\* fresh session for the healthcheck; an up goes on with the one it has.
Rebuild ==
  /\ At("rebuild")
  /\ box' = [box EXCEPT !.active = box.staged]
  /\ Goto(CASE run.kind = "up" -> "recordConfig"
            [] run.kind = "update" -> "connect"
            [] OTHER -> "health")
  /\ UNCHANGED <<disk, rec, net, dns, report>>

Connect ==
  /\ At("connect")
  /\ Goto("recordConfig")
  /\ UNCHANGED <<disk, rec, box, net, dns, report>>

\* Mutant: only last_nix_hash is recorded.
RecordNixOnly ==
  /\ At("recordConfig")
  /\ rec' = [rec EXCEPT !.nix = NixHash(disk, run.toml)]
  /\ Goto("health")
  /\ UNCHANGED <<disk, box, net, dns, report>>

\* Both hashes, computed from the disk as it is after the rebuild.
RecordConfig ==
  /\ At("recordConfig")
  /\ rec' = [rec EXCEPT !.config = RecordedHash(disk),
                        !.nix = NixHash(disk, run.toml)]
  /\ Goto("health")
  /\ UNCHANGED <<disk, box, net, dns, report>>

\* pollHermesHealth.  An unhealthy up or update returns before profiles and
\* crons; an unhealthy upgrade throws.
Healthcheck ==
  /\ At("health")
  /\ \/ IF run.kind = "upgrade" THEN End("applied")
        ELSE Goto("hashProfiles") /\ report' = report
     \/ Unhealthy /\ End("unhealthy")
  /\ UNCHANGED <<disk, rec, box, net, dns>>

-------------------------------------------------------------------------------
(* Profiles *)

\* An update uploads the profiles whose hash differs from the recorded one;
\* an up uploads them all.
HashProfiles ==
  /\ At("hashProfiles")
  /\ LET now == ProfileHash(disk, run.toml)
         same(p) == p \in DOMAIN run.dep.profiles
                      /\ run.dep.profiles[p] = now[p]
         left == IF run.kind = "up" THEN run.toml.profiles
                 ELSE {p \in run.toml.profiles : ~same(p)}
     IN  run' = [run EXCEPT
           !.pc = IF left # {} THEN "syncProfiles"
                  ELSE IF run.kind = "up" THEN "cron" ELSE "recordProfiles",
           !.hashes = now,
           !.left = left]
  /\ UNCHANGED <<disk, rec, box, net, dns, report>>

\* uploadProfileFiles, from the disk as it is now and under the names of the
\* hermes.toml the run loaded; nothing is deleted.  An up records each
\* profile's hash before the next upload, an update all of them at the end.
SyncProfile(p) ==
  /\ At("syncProfiles")
  /\ p \in run.left
  /\ box' = [box EXCEPT !.profiles[p] =
       [files |-> disk.pfiles[p],
        docs |-> [@.docs EXCEPT ![run.toml.docs[p]] = disk.pfiles[p]],
        as |-> run.toml.docs[p]]]
  /\ run' = [run EXCEPT
       !.left = @ \ {p},
       !.current = p,
       !.pc = IF run.kind = "up" \/ run.left = {p} THEN "recordProfiles" ELSE @]
  /\ UNCHANGED <<disk, rec, net, dns, report>>

\* deploy.ts:265: the hash of the file as it is on disk after the upload.
RecordProfile ==
  /\ At("recordProfiles")
  /\ run.kind = "up"
  /\ rec' = [rec EXCEPT !.profiles =
       [p \in DOMAIN @ \cup {run.current} |->
          IF p = run.current THEN disk.pfiles[p] ELSE rec.profiles[p]]]
  /\ Goto(IF run.left = {} THEN "cron" ELSE "syncProfiles")
  /\ UNCHANGED <<disk, box, net, dns, report>>

\* update.ts:240 and 326: the hashes computed before the uploads, replacing
\* the recorded ones.
RecordProfiles ==
  /\ At("recordProfiles")
  /\ run.kind = "update"
  /\ rec' = [rec EXCEPT !.profiles = run.hashes]
  /\ End(IF run.full THEN "applied" ELSE "networkOnly")
  /\ UNCHANGED <<disk, box, net, dns>>

-------------------------------------------------------------------------------
(* runUpgrade: nix flake update on the box; Rebuild and Healthcheck do the rest *)

FlakeUpdate ==
  /\ At("flakeUpdate")
  /\ Goto("rebuild")
  /\ UNCHANGED <<disk, rec, box, net, dns, report>>

-------------------------------------------------------------------------------
(* Failures *)

\* The step throws before it has any effect and the command exits.
Fail ==
  /\ <<run.kind, run.pc>> \in FailPoints
  /\ End("failed")
  /\ UNCHANGED <<disk, rec, box, net, dns>>

\* An upload or a cron command fails half-way.
FailHalfway ==
  /\ <<run.kind, run.pc>> \in FailPoints
  /\ \/ /\ At("syncProfiles")
        /\ \E p \in run.left :
             box' = [box EXCEPT !.profiles[p] =
               [@ EXCEPT !.files = Blank, !.docs[run.toml.docs[p]] = Blank]]
     \/ /\ At("cron")
        /\ run.toml.cron # Undeclared
        /\ box' = [box EXCEPT !.cron = Blank]
  /\ End("failed")
  /\ UNCHANGED <<disk, rec, net, dns>>

\* The poll gives up after 30 minutes while the build goes on under nohup and
\* activates; or the switch activates and then exits non-zero (a unit that does
\* not start), which the run takes for a failed rebuild.
RebuildTimeout ==
  /\ <<run.kind, "rebuildTimeout">> \in FailPoints
  /\ At("rebuild")
  /\ box' = [box EXCEPT !.active = box.staged]
  /\ End("failed")
  /\ UNCHANGED <<disk, rec, net, dns>>

-------------------------------------------------------------------------------
(* The operator and the world *)

\* One edit of one file, by an editor, `secret set` or the dashboard.
Edit ==
  /\ EditsMidRun \/ At("idle")
  /\ \/ /\ "nix" \in Editable
        /\ \E v \in Versions : disk' = [disk EXCEPT !.toml.nix = v]
     \/ "extra" \in Editable /\ disk' = [disk EXCEPT !.toml.extra = TRUE]
     \/ "extraGone" \in Editable /\ disk' = [disk EXCEPT !.toml.extra = FALSE]
     \/ /\ "net" \in Editable
        /\ \E v \in Versions : disk' = [disk EXCEPT !.toml.net = v]
     \/ /\ "cron" \in Editable
        /\ \E v \in Versions \cup {Undeclared} :
             disk' = [disk EXCEPT !.toml.cron = v]
     \/ /\ "dom" \in Editable
        /\ \E d \in Domains \cup {NoDomain} :
             disk' = [disk EXCEPT !.toml.dom = d]
     \/ /\ "profiles" \in Editable
        /\ \E S \in SUBSET Profiles : disk' = [disk EXCEPT !.toml.profiles = S]
     \/ /\ "docs" \in Editable
        /\ \E p \in Profiles, d \in DocNames :
             disk' = [disk EXCEPT !.toml.docs[p] = d]
     \/ /\ "files" \in Editable
        /\ \E v \in Versions : disk' = [disk EXCEPT !.files = v]
     \/ /\ "pfiles" \in Editable
        /\ \E p \in Profiles, v \in Versions :
             disk' = [disk EXCEPT !.pfiles[p] = v]
  /\ disk' # disk
  /\ run' = [run EXCEPT !.after = "none"]
  /\ report' = NoReport
  /\ UNCHANGED <<rec, box, net, dns>>

\* Between runs, the operator's public IP changes under ssh_allowed_from =
\* "auto", or somebody edits the cron jobs on the box.
Drift ==
  /\ At("idle")
  /\ rec.exists
  /\ \/ /\ "net" \in Drifts
        /\ net' \in Versions \ {net}
        /\ box' = box
     \/ /\ "cron" \in Drifts
        /\ \E v \in Versions \ {box.cron} : box' = [box EXCEPT !.cron = v]
        /\ net' = net
  /\ report' = NoReport
  /\ UNCHANGED <<disk, rec, dns, run>>

DeployStep == Provision \/ Persist \/ WaitSsh \/ RecordProfile
UpdateStep == ReconcileNetwork \/ ShortCircuit \/ Changed \/ NixCheck
                \/ Connect \/ RecordProfiles
SharedStep == Dns \/ DnsRecord \/ Cron \/ Upload \/ UploadFiles \/ Rebuild
                \/ RecordConfig \/ Healthcheck \/ HashProfiles
                \/ (\E p \in Profiles : SyncProfile(p))

Next ==
  \/ Up \/ Update \/ Upgrade
  \/ DeployStep \/ UpdateStep \/ SharedStep \/ FlakeUpdate
  \/ Fail \/ FailHalfway \/ RebuildTimeout
  \/ Edit \/ Drift

Spec == Init /\ [][Next]_vars

-------------------------------------------------------------------------------
(* Properties *)

\* The generation the project directory describes.
BuildOf(d) == [nix |-> d.toml.nix, extra |-> d.toml.extra, dom |-> d.toml.dom,
               files |-> d.files]

\* Between the activation of a generation and the recording of its hash.
Recording == run.pc \in {"connect", "recordConfig"}

\* last_nix_hash is the hash of what the box runs: "the new config was
\* successfully applied by nixos-rebuild -- that fact is what it records"
\* (shared.ts:170), and a run that fails leaves "state unchanged, previous
\* good config still on the box" (design document, section 9).
RecordedIsRunning ==
  rec.nix # Pending /\ ~Recording => rec.nix = box.active

\* "No changes, already up-to-date" is true of the generation and of the
\* firewall: the short-circuit never hides an edit, across failed runs,
\* unhealthy runs and reverted edits (update.ts:121).
UpToDateIsTrue ==
  report.outcome = "upToDate" => box.active = BuildOf(disk)
                                 /\ net = disk.toml.net

\* The same for the declared cron jobs: "reconciled onto the box on every
\* up/update", box drift included (schema-reference.md:63, update.ts:173).
CronUpToDate ==
  report.outcome \in Success /\ report.kind # "upgrade"
      /\ disk.toml.cron # Undeclared
    => box.cron = disk.toml.cron

\* A run that went past the short-circuit and succeeded has delivered the
\* build, the firewall rules and the cron jobs it loaded.
SuccessDelivers ==
  report.outcome \in {"networkOnly", "applied"} /\ report.kind # "upgrade" =>
    /\ box.active = BuildOf(disk)
    /\ net = disk.toml.net
    /\ disk.toml.cron # Undeclared => box.cron = disk.toml.cron

\* After every successful up or update each declared profile on the box has
\* the project's files: skipping a profile by its recorded hash is sound.  Its
\* document is right unless its key was renamed since it was last uploaded:
\* the hash does not cover the key (shared.ts:335), the upload is skipped, and
\* the declared name holds nothing or an older content.
ProfilesSynced ==
  report.outcome \in Success /\ report.kind # "upgrade" =>
    \A p \in disk.toml.profiles :
      LET home == box.profiles[p]
      IN  /\ home.files = disk.pfiles[p]
          /\ disk.toml.docs[p] = home.as => home.docs[home.as] = disk.pfiles[p]

\* Every A record is the one state.toml knows, so that update and destroy can
\* delete it, except while a run moves it and for a name whose best-effort delete
\* failed.
DnsTracked ==
  run.pc \notin {"dns", "dnsRecord"} => dns.names \subseteq {rec.dom, dns.left}

\* "Running update with no local changes is a no-op" (design document, section
\* 8.2): after a rebuild or a no-op, the next update short-circuits.
NoOpRerun ==
  report.kind = "update" /\ report.after \in {"applied", "upToDate"} =>
    report.outcome \in {"upToDate", "failed"}

===============================================================================
