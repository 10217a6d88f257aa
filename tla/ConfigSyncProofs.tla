--------------------------- MODULE ConfigSyncProofs ---------------------------
(***************************************************************************)
(* Proofs about ConfigSync, for every set of contents, profiles and        *)
(* domains and every choice of what may fail: its types, and each of its   *)
(* invariants under the weakest conditions on the bounds it needs.         *)
(***************************************************************************)
EXTENDS ConfigSync, TLAPS

-------------------------------------------------------------------------------
(* The conditions *)

\* Files are not edited during a run, nix_extra is not taken back, an update does
\* not fail between the activation and the recording of its hash, and where
\* there are upgrades it does not fail with new files in /etc/nixos.
CarefulBuilds ==
  /\ ~EditsMidRun
  /\ "extraGone" \notin Editable
  /\ \A s \in {"connect", "recordConfig", "rebuildTimeout"} :
       <<"update", s>> \notin FailPoints
  /\ "upgrade" \in Kinds =>
       \A s \in {"uploadFiles", "rebuild"} : <<"update", s>> \notin FailPoints

\* The first provisioning is the only one, or the rules never change: otherwise a
\* second up finds old rules and keeps them.
FreshRules ==
  \/ "net" \notin Editable \cup Drifts
  \/ "redeploy" \notin Kinds /\ <<"up", "persist">> \notin FailPoints

\* An update that uploads profiles comes to record them.
CarefulProfiles ==
  /\ ~EditsMidRun
  /\ <<"update", "syncProfiles">> \notin FailPoints
  /\ <<"update", "recordProfiles">> \notin FailPoints

\* No second up, and no failure between a DNS change and its recording.
CarefulDns ==
  /\ "redeploy" \notin Kinds
  /\ \A k \in {"up", "update"} : <<k, "dnsRecord">> \notin FailPoints

\* No profile is declared, and no upgrade runs.
PlainProject == ~EditsMidRun /\ Profiles = {} /\ "upgrade" \notin Kinds

-------------------------------------------------------------------------------
(* Invariants: control *)

UpSteps == {"provision", "persist", "dns", "dnsRecord", "waitSsh", "upload",
            "uploadFiles", "rebuild", "recordConfig", "health", "hashProfiles",
            "syncProfiles", "recordProfiles", "cron"}

UpdateSteps == {"reconcileNetwork", "hashCheck", "dns", "dnsRecord", "cron",
                "nixCheck", "upload", "uploadFiles", "rebuild", "connect",
                "recordConfig", "health", "hashProfiles", "syncProfiles",
                "recordProfiles"}

UpgradeSteps == {"flakeUpdate", "rebuild", "health"}

\* Each command takes its own steps; a run has loaded a hermes.toml, the one before
\* it has been reported on, and past the first steps of an up there is a record.
Control ==
  /\ (run.pc = "idle") <=> (run.kind = "none")
  /\ run.kind = "up" => run.pc \in UpSteps
  /\ run.kind = "update" => run.pc \in UpdateSteps
  /\ run.kind = "upgrade" => run.pc \in UpgradeSteps /\ "upgrade" \in Kinds
  /\ run.pc # "idle" => run.toml \in Toml /\ report.outcome = "none"
  /\ run.kind = "up" /\ run.pc = "recordProfiles" => run.current \in Profiles
  /\ run.pc \notin {"idle", "provision", "persist"} => rec.exists

TypeInv == TypeOK /\ Control

\* What an update read of the record is still there, part by part.
DepInv ==
  run.kind = "update" =>
    /\ run.pc \in {"reconcileNetwork", "hashCheck", "dns"} => run.dep.dom = rec.dom
    /\ run.pc \notin {"health", "hashProfiles", "syncProfiles", "recordProfiles"}
         => run.dep.nix = rec.nix /\ run.dep.config = rec.config
    /\ run.dep.profiles = rec.profiles

\* hermes.toml on the disk is the one the run has loaded.
Loaded == run.pc # "idle" => run.toml = disk.toml

-------------------------------------------------------------------------------
(* Invariants: builds *)

\* From the upload to the recording of its hash, what a run puts on the box is
\* what the project says.
Staging ==
  /\ box.staged.extra => disk.toml.extra
  /\ run.kind # "upgrade" /\ run.pc = "uploadFiles" =>
       box.staged.nix = disk.toml.nix /\ box.staged.dom = disk.toml.dom
  /\ run.kind # "upgrade" /\ run.pc = "rebuild" => box.staged = BuildOf(disk)
  /\ Recording => box.active = BuildOf(disk) /\ box.staged = box.active

\* While an up replaces what is on the box, no hash is recorded.
Unrecorded ==
  run.kind = "up" /\ run.pc \in {"dns", "dnsRecord", "waitSsh", "upload",
                                 "uploadFiles", "rebuild", "recordConfig"}
    => rec.nix = Pending

\* An upgrade finds in /etc/nixos what is running.
StagedIsRunning ==
  /\ "upgrade" \in Kinds
  /\ rec.nix # Pending
  /\ ~(run.kind = "update" /\ run.pc \in {"uploadFiles", "rebuild"})
  => box.staged = box.active

\* The hash of the configuration covers the build that was recorded with it.
HashesAgree ==
  rec.config # Pending =>
    /\ rec.nix = BuildOf(rec.config)
    /\ rec.config.pfiles = NoHashes

NetChecked ==
  run.kind = "update" /\ run.pc # "reconcileNetwork" => net = run.toml.net

BuildInv ==
  /\ Loaded /\ Staging /\ Unrecorded /\ StagedIsRunning /\ RecordedIsRunning
  /\ HashesAgree /\ NetChecked /\ UpToDateIsTrue

-------------------------------------------------------------------------------
(* Invariants: what a successful run delivers *)

AfterRebuild == {"health", "hashProfiles", "syncProfiles", "recordProfiles"}

\* Where the rules may change, they are made by the up that makes the box.
RulesFresh ==
  \/ "net" \notin Editable \cup Drifts /\ net \in {Blank, disk.toml.net}
  \/ /\ "redeploy" \notin Kinds /\ <<"up", "persist">> \notin FailPoints
     /\ ~rec.exists /\ run.pc \in {"idle", "provision"} => net = Blank
     /\ run.kind = "up" /\ run.pc = "provision" => ~rec.exists

Delivering ==
  /\ run.kind = "up" /\ run.pc # "provision" => net = run.toml.net
  /\ run.kind = "up" /\ run.pc \in AfterRebuild \cup {"cron"}
       => box.active = BuildOf(disk)
  /\ run.kind = "update" /\ run.pc \in AfterRebuild => box.active = BuildOf(disk)
  /\ run.kind = "update" /\ run.pc \in AfterRebuild \cup
       {"nixCheck", "upload", "uploadFiles", "rebuild", "connect", "recordConfig"}
       => run.toml.cron = Undeclared \/ box.cron = run.toml.cron

DeliveryInv == RulesFresh /\ Delivering /\ SuccessDelivers

-------------------------------------------------------------------------------
(* Invariants: profiles *)

Syncing == run.pc \in {"syncProfiles", "recordProfiles"}

\* The box has the contents v of a profile: its fixed files, and its document
\* under the name it was last uploaded with.
Has(p, v) ==
  LET home == box.profiles[p]
  IN  home.files = v /\ home.docs[home.as] = v

\* A profile's recorded hash is that of the files on the box, except while an
\* update uploads.
HashedIsThere ==
  ~(run.kind = "update" /\ Syncing) =>
    \A p \in DOMAIN rec.profiles : Has(p, rec.profiles[p])

\* The declared profiles that are not left to upload are as on the disk.
Synced(left) ==
  \A p \in run.toml.profiles \ left : Has(p, disk.pfiles[p])

ProfilesOfUp ==
  run.kind = "up" =>
    /\ run.pc \notin {"provision", "persist", "syncProfiles", "recordProfiles", "cron"}
         => DOMAIN rec.profiles = {}
    /\ Syncing => /\ run.left \cap DOMAIN rec.profiles = {}
                  /\ run.left \subseteq run.toml.profiles
                  /\ Synced(run.left)
    /\ run.pc = "recordProfiles" => /\ run.current \notin run.left
                                    /\ Has(run.current, disk.pfiles[run.current])
    /\ run.pc = "cron" => Synced({})

ProfilesOfUpdate ==
  run.kind = "update" /\ Syncing =>
    /\ run.hashes = ProfileHash(disk, run.toml)
    /\ run.left \subseteq run.toml.profiles
    /\ Synced(run.left)
    /\ run.pc = "recordProfiles" => run.left = {}

\* The recorded hash of the configuration has no profiles in it.
ConfigHashesNone == rec.config # Pending => rec.config.pfiles = NoHashes

ProfileInv ==
  /\ Loaded /\ HashedIsThere /\ ProfilesOfUp /\ ProfilesOfUpdate
  /\ ConfigHashesNone /\ ProfilesSynced

-------------------------------------------------------------------------------
(* Invariants: DNS and the rerun *)

DnsInv ==
  /\ run.pc # "dnsRecord" => dns.names \subseteq {rec.dom, dns.left}
  /\ run.pc = "dnsRecord" => dns.names \subseteq {run.toml.dom, dns.left}
  /\ ~rec.exists => dns.names = {}
  /\ run.kind = "up" /\ run.pc \in {"provision", "persist"} => ~rec.exists
  /\ run.kind = "up" /\ run.pc = "dns" => dns.names = {}

Rerun == run.kind = "update" /\ run.after \in {"applied", "upToDate"}

RerunInv ==
  /\ Loaded
  /\ report.outcome \in {"applied", "upToDate"} => rec.config = RecordedHash(disk)
  /\ Rerun => /\ run.pc \in {"reconcileNetwork", "hashCheck"}
              /\ run.dep.config = RecordedHash(disk)
  /\ run.kind \in {"up", "update"} /\ run.pc = "health" => rec.config = RecordedHash(disk)
  /\ run.kind = "up" /\ run.pc \in AfterRebuild \cup {"cron"}
       => rec.config = RecordedHash(disk)
  /\ run.kind = "update" /\ run.pc \in AfterRebuild /\ run.full
       => rec.config = RecordedHash(disk)
  /\ NoOpRerun

-------------------------------------------------------------------------------
(* Types *)

\* No record and no run are well typed, and there are no profile hashes to
\* begin with.
LEMMA IdleTypes ==
  NoHashes \in ProfileHashes /\ NoRecord \in Record /\ Idle \in Run
<1>1. NoHashes \in [{} -> Versions]
  BY DEF NoHashes
<1>2. NoHashes \in ProfileHashes
  BY <1>1 DEF ProfileHashes
<1>3. NoRecord \in Record
  BY <1>2 DEF NoRecord, Record
<1>. QED
  BY <1>2, <1>3 DEF Idle, Run, Outcome

\* The hashes of a project directory are hashes.
LEMMA HashTypes ==
  ASSUME NEW d \in Project, NEW toml \in Toml
  PROVE  /\ ProfileHash(d, toml) \in ProfileHashes
         /\ NixHash(d, toml) \in Build
         /\ RecordedHash(d) \in ConfigHash
<1>1. toml.profiles \subseteq Profiles /\ d.pfiles \in [Profiles -> Versions]
      /\ d.toml \in Toml /\ d.files \in Versions
  BY DEF Project, Toml
<1>2. ProfileHash(d, toml) \in [toml.profiles -> Versions]
  BY <1>1 DEF ProfileHash
<1>3. ProfileHash(d, toml) \in ProfileHashes
  BY <1>1, <1>2 DEF ProfileHashes
<1>4. NixHash(d, toml) \in Build
  BY <1>1 DEF NixHash, Build, Toml
<1>5. RecordedHash(d) \in ConfigHash
  BY <1>1, IdleTypes DEF RecordedHash, ConfigHash
<1>. QED
  BY <1>3, <1>4, <1>5

\* A step that moves a run to the next line keeps it a run.
LEMMA GotoType ==
  ASSUME run \in Run, NEW step \in Step, Goto(step)
  PROVE  /\ run' \in Run
         /\ run'.pc = step
         /\ run'.kind = run.kind /\ run'.toml = run.toml /\ run'.dep = run.dep
         /\ run'.hashes = run.hashes /\ run'.left = run.left
         /\ run'.current = run.current /\ run'.full = run.full
         /\ run'.after = run.after
BY DEF Goto, Run

\* A command that returns leaves no run and a report.
LEMMA EndType ==
  ASSUME run \in Run, NEW outcome \in Outcome, End(outcome)
  PROVE  /\ run' = Idle /\ run' \in Run /\ run'.pc = "idle" /\ run'.kind = "none"
         /\ report'.outcome = outcome /\ report'.kind = run.kind
         /\ report'.after = run.after
         /\ report' \in [outcome : Outcome, kind : {"none", "up", "update", "upgrade"},
                         after : Outcome]
BY IdleTypes DEF End, Run, Idle

\* A command begins from what is on the disk and in the record.
LEMMA BeginType ==
  ASSUME TypeOK, NEW kind \in {"up", "update", "upgrade"}, NEW first \in Step,
         Begin(kind, first)
  PROVE  /\ run' \in Run /\ report' = NoReport
         /\ run'.pc = first /\ run'.kind = kind
         /\ run'.toml = disk.toml /\ run'.toml \in Toml
         /\ run'.dep = rec /\ run'.after = report.outcome
         /\ report' \in [outcome : Outcome, kind : {"none", "up", "update", "upgrade"},
                         after : Outcome]
BY IdleTypes DEF TypeOK, Begin, Run, Idle, Project, NoReport, Outcome

\* A new project has the types and no run.
LEMMA TypeInvInit == Init => TypeInv
<1> SUFFICES ASSUME Init
             PROVE  TypeInv
  OBVIOUS
<1>1. disk \in Project
  BY DEF Init, Project, Toml
<1>2. box \in [staged : BoxBuild, active : BoxBuild, cron : Versions \cup {Blank},
               profiles : [Profiles -> BoxProfile]]
  BY DEF Init, BoxBuild, BlankBuild, BoxProfile, NoProfile
<1>3. TypeOK
  BY <1>1, <1>2, IdleTypes DEF Init, TypeOK, NoReport, Outcome
<1>. QED
  BY <1>3 DEF Init, TypeInv, Control, Idle

\* An edit leaves a project directory.
LEMMA EditTypes ==
  ASSUME disk \in Project, Edit
  PROVE  disk' \in Project
<1>1. disk.toml \in Toml
  BY DEF Project
<1>2. ASSUME NEW t \in Toml, disk' = [disk EXCEPT !.toml = t]
      PROVE  disk' \in Project
  BY <1>2 DEF Project
<1>3. ASSUME NEW v \in Versions, disk' = [disk EXCEPT !.files = v]
      PROVE  disk' \in Project
  BY <1>3 DEF Project
<1>4. ASSUME NEW p \in Profiles, NEW v \in Versions,
             disk' = [disk EXCEPT !.pfiles[p] = v]
      PROVE  disk' \in Project
  BY <1>4 DEF Project
<1>5. \A b \in BOOLEAN : [disk.toml EXCEPT !.extra = b] \in Toml
  BY <1>1 DEF Toml
<1>6. \A v \in Versions : /\ [disk.toml EXCEPT !.nix = v] \in Toml
                          /\ [disk.toml EXCEPT !.net = v] \in Toml
  BY <1>1 DEF Toml
<1>7. \A v \in Versions \cup {Undeclared} : [disk.toml EXCEPT !.cron = v] \in Toml
  BY <1>1 DEF Toml
<1>8. \A d \in Domains \cup {NoDomain} : [disk.toml EXCEPT !.dom = d] \in Toml
  BY <1>1 DEF Toml
<1>9. \A S \in SUBSET Profiles : [disk.toml EXCEPT !.profiles = S] \in Toml
  BY <1>1 DEF Toml
<1>10. \A p \in Profiles, d \in DocNames : [disk.toml EXCEPT !.docs[p] = d] \in Toml
  BY <1>1 DEF Toml
<1>. QED
  BY <1>2, <1>3, <1>4, <1>5, <1>6, <1>7, <1>8, <1>9, <1>10 DEF Edit

\* Every step keeps the types, and every command on its own steps.
LEMMA TypeInvStep == TypeInv /\ [Next]_vars => TypeInv'
<1> SUFFICES ASSUME TypeInv, [Next]_vars
             PROVE  TypeInv'
  OBVIOUS
<1> USE DEF TypeInv, TypeOK, Control, UpSteps, UpdateSteps, UpgradeSteps
<1>a. run \in Run /\ disk \in Project /\ rec \in Record
  OBVIOUS
<1>b. run.pc # "idle" => run.toml \in Toml
  OBVIOUS
<1>1. CASE Up
  BY <1>1, BeginType DEF Up, Begin, Step, NoReport
<1>2. CASE Update
  BY <1>2, BeginType DEF Update, Begin, Step, NoReport
<1>3. CASE Upgrade
  BY <1>3, BeginType DEF Upgrade, Begin, Step, NoReport
<1>4. CASE Provision
  BY <1>4, GotoType DEF Provision, At, Step, Toml
<1>5. CASE Persist
  <2>1. rec' \in Record
    BY <1>5, IdleTypes DEF Persist, Record
  <2>. QED
    BY <1>5, <2>1, GotoType DEF Persist, At, Step
<1>6. CASE WaitSsh
  BY <1>6, GotoType DEF WaitSsh, At, Step
<1>7. CASE RecordProfile
  <2>1. run.current \in Profiles
    BY <1>7 DEF RecordProfile, At
  <2>2. PICK S \in SUBSET Profiles : rec.profiles \in [S -> Versions]
    BY DEF Record, ProfileHashes
  <2>3. disk.pfiles \in [Profiles -> Versions]
    BY DEF Project
  <2>4. rec'.profiles \in [S \cup {run.current} -> Versions]
    BY <1>7, <2>1, <2>2, <2>3 DEF RecordProfile, Record
  <2>5. rec'.profiles \in ProfileHashes
    BY <2>1, <2>4 DEF ProfileHashes
  <2>6. rec' \in Record
    BY <1>7, <2>5 DEF RecordProfile, Record
  <2>. QED
    BY <1>7, <2>6, GotoType DEF RecordProfile, At, Step
<1>8. CASE ReconcileNetwork
  BY <1>8, GotoType DEF ReconcileNetwork, At, Step, Toml
<1>9. CASE ShortCircuit
  BY <1>9, EndType DEF ShortCircuit, At, Outcome, Idle
<1>10. CASE Changed
  BY <1>10, GotoType DEF Changed, AfterHashCheck, At, Step
<1>11. CASE NixCheck
  BY <1>11 DEF NixCheck, At, Run, Step
<1>12. CASE Connect
  BY <1>12, GotoType DEF Connect, At, Step
<1>13. CASE RecordProfiles
  <2>1. rec' \in Record
    BY <1>13 DEF RecordProfiles, Record, Run
  <2>. QED
    BY <1>13, <2>1, EndType DEF RecordProfiles, At, Outcome, Idle
<1>14. CASE Dns
  <2>1. /\ run.toml.dom \in Domains \cup {NoDomain}
        /\ run.dep.dom \in Domains \cup {NoDomain}
    BY <1>14 DEF Dns, At, Toml, Run, Record
  <2>2. dns' \in [names : SUBSET Domains, left : Domains \cup {NoDomain}]
    BY <1>14, <2>1, SyncAssumption DEF Dns, Upserted, Deleted, OldName
  <2>. QED
    BY <1>14, <2>2, GotoType DEF Dns, At, Step
<1>15. CASE DnsRecord
  <2>1. rec' \in Record
    BY <1>15 DEF DnsRecord, Record, Toml, At
  <2>. QED
    BY <1>15, <2>1, GotoType DEF DnsRecord, At, Step
<1>16. CASE Cron
  <2>1. box' \in [staged : BoxBuild, active : BoxBuild,
                  cron : Versions \cup {Blank},
                  profiles : [Profiles -> BoxProfile]]
    BY <1>16 DEF Cron, At, Toml
  <2>2. CASE run.kind = "up"
    BY <1>16, <2>1, <2>2, EndType DEF Cron, At, Outcome, Idle
  <2>3. CASE run.kind # "up"
    BY <1>16, <2>1, <2>3, GotoType DEF Cron, At, Step
  <2>. QED
    BY <2>2, <2>3
<1>17. CASE Upload
  BY <1>17, GotoType DEF Upload, At, Step, Toml, BoxBuild, HermesNix, ConfigurationNix
<1>18. CASE UploadFiles
  <2>1. (box.staged.extra \/ run.toml.extra) \in BOOLEAN
    OBVIOUS
  <2>2. box.staged \in BoxBuild /\ disk.files \in Versions
    BY DEF Project
  <2>3. box'.staged \in BoxBuild
    BY <1>18, <2>1, <2>2 DEF UploadFiles, BoxBuild
  <2>. QED
    BY <1>18, <2>3, GotoType DEF UploadFiles, At, Step
<1>19. CASE Rebuild
  <2>1. PICK step \in {"recordConfig", "connect", "health"} :
          /\ Goto(step)
          /\ run.kind = "up" => step = "recordConfig"
          /\ run.kind = "upgrade" => step = "health"
    BY <1>19 DEF Rebuild
  <2>. QED
    BY <1>19, <2>1, GotoType DEF Rebuild, At, Step
<1>20. CASE RecordConfig
  BY <1>20, GotoType, HashTypes DEF RecordConfig, At, Step, Record
<1>21. CASE Healthcheck
  <2>1. CASE run' = Idle
    BY <1>21, <2>1, EndType DEF Healthcheck, At, Outcome, Idle, End, Goto, Run
  <2>2. CASE Goto("hashProfiles") /\ report' = report /\ run.kind # "upgrade"
    BY <1>21, <2>2, GotoType DEF Healthcheck, At, Step
  <2>. QED
    BY <1>21, <2>1, <2>2 DEF Healthcheck, End
<1>22. CASE HashProfiles
  <2>1. run.toml \in Toml /\ run.toml.profiles \subseteq Profiles
    BY <1>22 DEF HashProfiles, At, Toml
  <2>2. ProfileHash(disk, run.toml) \in ProfileHashes
    BY <2>1, HashTypes
  <2>. QED
    BY <1>22, <2>1, <2>2 DEF HashProfiles, At, Run, Step
<1>23. ASSUME NEW p \in Profiles, SyncProfile(p)
       PROVE  TypeInv'
  <2>1. disk.pfiles[p] \in Versions /\ run.toml.docs[p] \in DocNames
    BY <1>23 DEF SyncProfile, At, Project, Toml
  <2>2. box'.profiles[p] \in BoxProfile
    BY <1>23, <2>1 DEF SyncProfile, BoxProfile
  <2>3. box' \in [staged : BoxBuild, active : BoxBuild, cron : Versions \cup {Blank},
                  profiles : [Profiles -> BoxProfile]]
    BY <1>23, <2>2 DEF SyncProfile
  <2>. QED
    BY <1>23, <2>3 DEF SyncProfile, At, Run, Step
<1>24. CASE FlakeUpdate
  BY <1>24, GotoType DEF FlakeUpdate, At, Step
<1>25. CASE Fail
  BY <1>25, EndType DEF Fail, At, Outcome, Idle
<1>26. CASE FailHalfway
  <2>1. box' \in [staged : BoxBuild, active : BoxBuild,
                  cron : Versions \cup {Blank},
                  profiles : [Profiles -> BoxProfile]]
    <3>1. ASSUME NEW p \in Profiles, NEW home \in BoxProfile,
                 box' = [box EXCEPT !.profiles[p] = home]
          PROVE  box'.profiles \in [Profiles -> BoxProfile]
      BY <3>1
    <3>2. CASE run.pc = "syncProfiles" /\ run.toml \in Toml
      <4>1. PICK p \in run.left : box' = [box EXCEPT !.profiles[p] =
              [@ EXCEPT !.files = Blank, !.docs[run.toml.docs[p]] = Blank]]
        BY <1>26, <3>2 DEF FailHalfway, At
      <4>2. p \in Profiles
        BY DEF Run
      <4>3. [box.profiles[p] EXCEPT !.files = Blank, !.docs[run.toml.docs[p]] = Blank]
              \in BoxProfile
        BY <4>2 DEF BoxProfile
      <4>. QED
        BY <3>1, <4>1, <4>2, <4>3
    <3>3. CASE run.pc = "cron" /\ run.toml \in Toml
      BY <1>26, <3>3 DEF FailHalfway, At, Toml
    <3>. QED
      BY <1>26, <3>2, <3>3 DEF FailHalfway, At
  <2>. QED
    BY <1>26, <2>1, EndType DEF FailHalfway, At, Outcome, Idle
<1>27. CASE RebuildTimeout
  BY <1>27, EndType DEF RebuildTimeout, At, Outcome, Idle
<1>28. CASE Edit
  <2>1. disk' \in Project
    BY <1>28, EditTypes
  <2>2. run' \in Run /\ run' = [run EXCEPT !.after = "none"]
    BY <1>28 DEF Edit, Run, Outcome
  <2>. QED
    BY <1>28, <2>1, <2>2 DEF Edit, Run, NoReport, Outcome
<1>29. CASE Drift
  BY <1>29 DEF Drift, NoReport, Outcome, At
<1>30. CASE UNCHANGED vars
  BY <1>30 DEF vars
<1>. QED
  BY <1>1, <1>2, <1>3, <1>4, <1>5, <1>6, <1>7, <1>8, <1>9, <1>10, <1>11, <1>12,
     <1>13, <1>14, <1>15, <1>16, <1>17, <1>18, <1>19, <1>20, <1>21, <1>22, <1>23,
     <1>24, <1>25, <1>26, <1>27, <1>28, <1>29, <1>30
  DEF Next, DeployStep, UpdateStep, SharedStep

\* The record, the box, the run and the report are what their types say,
\* whatever fails and whoever edits: a run in progress always has a hermes.toml
\* and takes the steps of its own command only.
THEOREM TypeCorrect == Spec => []TypeOK
<1>1. Spec => []TypeInv
  BY TypeInvInit, TypeInvStep, PTL DEF Spec
<1>. QED
  BY <1>1, PTL DEF TypeInv

-------------------------------------------------------------------------------
(* What an update read of the record *)

\* No update is under way at first.
LEMMA DepInvInit == Init => DepInv
BY DEF Init, DepInv, Idle

\* Nothing but the run itself writes the parts of the record it has yet to use.
LEMMA DepInvStep == TypeInv /\ DepInv /\ [Next]_vars => DepInv'
<1> SUFFICES ASSUME TypeInv, DepInv, [Next]_vars
             PROVE  DepInv'
  OBVIOUS
<1> USE DEF TypeInv, TypeOK, Control, DepInv, UpSteps, UpdateSteps,
   UpgradeSteps
<1>1. CASE Up
  BY <1>1, BeginType DEF Up, At, Step, NoReport, Begin
<1>2. CASE Update
  BY <1>2, BeginType DEF Update, At, Step, NoReport, Begin
<1>3. CASE Upgrade
  BY <1>3, BeginType DEF Upgrade, At, Step, NoReport, Begin
<1>4. CASE Provision
  BY <1>4, GotoType DEF Provision, At, Step
<1>5. CASE Persist
  BY <1>5, GotoType DEF Persist, At, Step
<1>6. CASE WaitSsh
  BY <1>6, GotoType DEF WaitSsh, At, Step
<1>7. CASE RecordProfile
  BY <1>7, GotoType DEF RecordProfile, At, Step
<1>8. CASE ReconcileNetwork
  BY <1>8, GotoType DEF ReconcileNetwork, At, Step
<1>9. CASE ShortCircuit
  BY <1>9, EndType DEF ShortCircuit, At, Outcome, Idle
<1>10. CASE Changed
  BY <1>10, GotoType DEF Changed, At, Step, AfterHashCheck
<1>11. CASE NixCheck
  BY <1>11 DEF NixCheck, At, Run
<1>12. CASE Connect
  BY <1>12, GotoType DEF Connect, At, Step
<1>13. CASE RecordProfiles
  BY <1>13, EndType DEF RecordProfiles, At, Outcome, Idle
<1>14. CASE Dns
  BY <1>14, GotoType DEF Dns, At, Step
<1>15. CASE DnsRecord
  BY <1>15, GotoType DEF DnsRecord, At, Step, Record
<1>16. CASE Cron
  BY <1>16, GotoType, EndType DEF Cron, At, Step, Outcome, Idle
<1>17. CASE Upload
  BY <1>17, GotoType DEF Upload, At, Step
<1>18. CASE UploadFiles
  BY <1>18, GotoType DEF UploadFiles, At, Step
<1>19. CASE Rebuild
  BY <1>19, GotoType DEF Rebuild, At, Goto, Run
<1>20. CASE RecordConfig
  BY <1>20, GotoType DEF RecordConfig, At, Step, Record
<1>21. CASE Healthcheck
  BY <1>21, GotoType, EndType DEF Healthcheck, At, Step, Outcome, Idle
<1>22. CASE HashProfiles
  BY <1>22 DEF HashProfiles, At, Run
<1>23. ASSUME NEW p \in Profiles, SyncProfile(p)
       PROVE  DepInv'
  BY <1>23 DEF SyncProfile, At, Run
<1>24. CASE FlakeUpdate
  BY <1>24, GotoType DEF FlakeUpdate, At, Step
<1>25. CASE Fail
  BY <1>25, EndType DEF Fail, At, Outcome, Idle
<1>26. CASE FailHalfway
  BY <1>26, EndType DEF FailHalfway, At, Outcome, Idle
<1>27. CASE RebuildTimeout
  BY <1>27, EndType DEF RebuildTimeout, At, Outcome, Idle
<1>28. CASE Edit
  BY <1>28 DEF Edit, Run
<1>29. CASE Drift
  BY <1>29 DEF Drift, At
<1>30. CASE UNCHANGED vars
  BY <1>30 DEF vars
<1>. QED
  BY <1>1, <1>2, <1>3, <1>4, <1>5, <1>6, <1>7, <1>8, <1>9, <1>10,
   <1>11, <1>12, <1>13, <1>14, <1>15, <1>16, <1>17, <1>18, <1>19, <1>20,
   <1>21, <1>22, <1>23, <1>24, <1>25, <1>26, <1>27, <1>28, <1>29, <1>30 DEF
   Next, DeployStep, UpdateStep, SharedStep

-------------------------------------------------------------------------------
(* Builds *)

\* runUpdate's hash is a hash.
LEMMA UpdateHashType ==
  ASSUME NEW d \in Project, NEW toml \in Toml
  PROVE  UpdateHash(d, toml) \in ConfigHash
BY HashTypes DEF UpdateHash, ConfigHash, Project

\* Nothing is on the box, recorded or reported at first.
LEMMA BuildInvInit == Init => BuildInv
BY DEF Init, BuildInv, Loaded, Staging, Recording, Unrecorded, StagedIsRunning,
   RecordedIsRunning, HashesAgree, NetChecked, UpToDateIsTrue, Idle, NoRecord,
   NoReport, BlankBuild

\* From the upload to the recording, and from a recording to the next upload, what
\* is built, what runs and what is recorded stay the same.
LEMMA BuildInvStep ==
  ASSUME CarefulBuilds, TypeInv, DepInv, BuildInv, [Next]_vars
  PROVE  BuildInv'
<1> USE DEF TypeInv, TypeOK, Control, DepInv, UpSteps, UpdateSteps,
   UpgradeSteps, BuildInv, Loaded, Staging, Recording, Unrecorded,
   StagedIsRunning, RecordedIsRunning, HashesAgree, NetChecked,
   UpToDateIsTrue, BuildOf, CarefulBuilds
<1>1. CASE Up
  BY <1>1, BeginType DEF Up, At, Step, NoReport, Begin
<1>2. CASE Update
  BY <1>2, BeginType DEF Update, At, Step, NoReport, Begin
<1>3. CASE Upgrade
  BY <1>3, BeginType DEF Upgrade, At, Step, NoReport, Begin
<1>4. CASE Provision
  BY <1>4, GotoType DEF Provision, At, Step
<1>5. CASE Persist
  BY <1>5, GotoType DEF Persist, At, Step, NoRecord
<1>6. CASE WaitSsh
  BY <1>6, GotoType DEF WaitSsh, At, Step
<1>7. CASE RecordProfile
  BY <1>7, GotoType DEF RecordProfile, At, Step
<1>8. CASE ReconcileNetwork
  BY <1>8, GotoType DEF ReconcileNetwork, At, Step
<1>9. CASE ShortCircuit
  <2>1. run.kind = "update" /\ run.toml = disk.toml
    BY <1>9 DEF ShortCircuit, At, Run
  <2>2. rec.config = UpdateHash(disk, run.toml)
    BY <1>9, <2>1 DEF ShortCircuit, At
  <2>3. rec.config # Pending
    BY <2>2, HashAssumption, <1>9, UpdateHashType DEF ShortCircuit, At
  <2>4. rec.nix = BuildOf(disk) /\ rec.nix # Pending
    BY <2>2, <2>3, <1>9, HashTypes, HashAssumption
    DEF UpdateHash, ShortCircuit, At, NixHash
  <2>5. box.active = BuildOf(disk) /\ net = disk.toml.net
    BY <2>1, <2>4, <1>9 DEF ShortCircuit, At
  <2>6. /\ run'.pc = "idle" /\ run'.kind = "none"
        /\ disk' = disk /\ rec' = rec /\ box' = box /\ net' = net
    BY <1>9, EndType DEF ShortCircuit, Outcome, Idle
  <2>. QED
    BY <1>9, <2>5, <2>6 DEF ShortCircuit, At
<1>10. CASE Changed
  BY <1>10, GotoType DEF Changed, At, Step, AfterHashCheck
<1>11. CASE NixCheck
  BY <1>11 DEF NixCheck, At, Run
<1>12. CASE Connect
  BY <1>12, GotoType DEF Connect, At, Step
<1>13. CASE RecordProfiles
  BY <1>13, EndType DEF RecordProfiles, At, Outcome, Idle
<1>14. CASE Dns
  BY <1>14, GotoType DEF Dns, At, Step
<1>15. CASE DnsRecord
  BY <1>15, GotoType DEF DnsRecord, At, Step, Record
<1>16. CASE Cron
  BY <1>16, GotoType, EndType DEF Cron, At, Step, Outcome, Idle
<1>17. CASE Upload
  <2>1. /\ box'.staged.nix = disk.toml.nix /\ box'.staged.dom = disk.toml.dom
        /\ box'.staged.extra = box.staged.extra /\ box'.active = box.active
    BY <1>17 DEF Upload, At, HermesNix, ConfigurationNix, BoxBuild
  <2>2. (run.kind = "up" /\ rec.nix = Pending) \/ run.kind = "update"
    BY <1>17 DEF Upload, At, Run
  <2>3. /\ run'.pc = "uploadFiles" /\ run'.kind = run.kind /\ run'.toml = run.toml
        /\ disk' = disk /\ rec' = rec /\ net' = net /\ report' = report
    BY <1>17, GotoType DEF Upload, Step
  <2>. QED
    BY <1>17, <2>1, <2>2, <2>3 DEF Upload, At
<1>18. CASE UploadFiles
  <2>1. (box.staged.extra \/ run.toml.extra) = disk.toml.extra
    <3>1. box.staged.extra \in BOOLEAN /\ disk.toml.extra \in BOOLEAN
      BY DEF BoxBuild, Project, Toml
    <3>2. run.toml.extra = disk.toml.extra /\ (box.staged.extra => disk.toml.extra)
      BY <1>18 DEF UploadFiles, At
    <3>. QED
      BY <3>1, <3>2
  <2>2. /\ box'.active = box.active
        /\ box'.staged = [box.staged EXCEPT !.files = disk.files, !.extra = disk.toml.extra]
    BY <1>18, <2>1 DEF UploadFiles, At
  <2>3. box'.staged = BuildOf(disk)
    BY <1>18, <2>2 DEF UploadFiles, At, BoxBuild
  <2>4. box'.active = box.active
    BY <2>2
  <2>5. /\ run.pc = "uploadFiles"
        /\ (run.kind = "up" /\ rec.nix = Pending) \/ run.kind = "update"
    BY <1>18 DEF UploadFiles, At, Run
  <2>6. /\ run'.pc = "rebuild" /\ run'.kind = run.kind /\ run'.toml = run.toml
        /\ disk' = disk /\ rec' = rec /\ net' = net /\ report' = report
    BY <1>18, GotoType DEF UploadFiles, Step
  <2>. QED
    BY <2>3, <2>4, <2>5, <2>6
<1>19. CASE Rebuild
  <2>1. /\ box'.staged = box.staged /\ box'.active = box.staged
        /\ rec' = rec /\ disk' = disk /\ net' = net /\ report' = report
    BY <1>19 DEF Rebuild, At
  <2>2. PICK step \in {"recordConfig", "connect", "health"} :
          /\ Goto(step)
          /\ run.kind \in {"up", "update"} <=> step # "health"
          /\ run.kind \in {"up", "update", "upgrade"}
    BY <1>19 DEF Rebuild, At, Run
  <2>3. run.kind # "upgrade" => box.staged = BuildOf(disk)
    BY <1>19 DEF Rebuild, At
  <2>4. run.kind = "up" => rec.nix = Pending
    BY <1>19 DEF Rebuild, At
  <2>5. run.kind = "upgrade" /\ rec.nix # Pending => box.staged = box.active
    BY <1>19 DEF Rebuild, At
  <2>. QED
    BY <1>19, <2>1, <2>2, <2>3, <2>4, <2>5, GotoType DEF Rebuild, At, Step
<1>20. CASE RecordConfig
  <2>1. disk \in Project /\ run.toml \in Toml
    BY <1>20 DEF RecordConfig, At
  <2>2. NixHash(disk, run.toml) \in Build /\ RecordedHash(disk) \in ConfigHash
    BY <2>1, HashTypes
  <2>3. rec'.nix = BuildOf(disk) /\ rec'.config = RecordedHash(disk)
    BY <1>20 DEF RecordConfig, At, NixHash, Record
  <2>. QED
    BY <1>20, <2>2, <2>3, GotoType DEF RecordConfig, At, Step, RecordedHash
<1>21. CASE Healthcheck
  BY <1>21, GotoType, EndType DEF Healthcheck, At, Step, Outcome, Idle
<1>22. CASE HashProfiles
  BY <1>22 DEF HashProfiles, At, Run
<1>23. ASSUME NEW p \in Profiles, SyncProfile(p)
       PROVE  BuildInv'
  BY <1>23 DEF SyncProfile, At, Run
<1>24. CASE FlakeUpdate
  <2>1. run.kind = "upgrade"
    BY <1>24 DEF FlakeUpdate, At, Run
  <2>2. /\ run'.pc = "rebuild" /\ run'.kind = run.kind /\ run'.toml = run.toml
        /\ disk' = disk /\ rec' = rec /\ net' = net /\ report' = report
        /\ box' = box
    BY <1>24, GotoType DEF FlakeUpdate, Step
  <2>. QED
    BY <1>24, <2>1, <2>2 DEF FlakeUpdate, At
<1>25. CASE Fail
  BY <1>25, EndType DEF Fail, At, Outcome, Idle
<1>26. CASE FailHalfway
  BY <1>26, EndType DEF FailHalfway, At, Outcome, Idle
<1>27. CASE RebuildTimeout
  <2>1. run.kind = "up" => rec.nix = Pending
    BY <1>27 DEF RebuildTimeout, At
  <2>2. run.kind = "upgrade" /\ rec.nix # Pending => box.staged = box.active
    BY <1>27 DEF RebuildTimeout, At
  <2>3. run.kind \in {"up", "upgrade"}
    BY <1>27 DEF RebuildTimeout, At, Run
  <2>4. box'.staged = box.staged /\ box'.active = box.staged
    BY <1>27 DEF RebuildTimeout, At
  <2>. QED
    BY <1>27, <2>1, <2>2, <2>3, <2>4, EndType DEF RebuildTimeout, At, Outcome, Idle
<1>28. CASE Edit
  <2>1. run.pc = "idle" /\ run'.pc = "idle" /\ run'.kind = run.kind
    BY <1>28 DEF Edit, At, Run
  <2>2. box.staged.extra => disk'.toml.extra
    BY <1>28 DEF Edit, Project, Toml
  <2>. QED
    BY <1>28, <2>1, <2>2 DEF Edit, NoReport
<1>29. CASE Drift
  BY <1>29 DEF Drift, At, NoReport
<1>30. CASE UNCHANGED vars
  BY <1>30 DEF vars
<1>. QED
  BY <1>1, <1>2, <1>3, <1>4, <1>5, <1>6, <1>7, <1>8, <1>9, <1>10,
   <1>11, <1>12, <1>13, <1>14, <1>15, <1>16, <1>17, <1>18, <1>19, <1>20,
   <1>21, <1>22, <1>23, <1>24, <1>25, <1>26, <1>27, <1>28, <1>29, <1>30 DEF
   Next, DeployStep, UpdateStep, SharedStep

\* last_nix_hash, whenever there is one, is the hash of what the box runs,
\* through failed, unhealthy and repeated runs of all three commands.
THEOREM RecordedIsWhatRuns ==
  ASSUME CarefulBuilds
  PROVE  Spec => []RecordedIsRunning
<1>1. Spec => [](TypeInv /\ DepInv /\ BuildInv)
  BY TypeInvInit, TypeInvStep, DepInvInit, DepInvStep, BuildInvInit, BuildInvStep,
     PTL DEF Spec
<1>. QED
  BY <1>1, PTL DEF BuildInv

\* "No changes, already up-to-date" is true of the generation and of the firewall
\* rules: the short-circuit by last_config_hash hides no edit.
THEOREM UpToDateIsNeverWrong ==
  ASSUME CarefulBuilds
  PROVE  Spec => []UpToDateIsTrue
<1>1. Spec => [](TypeInv /\ DepInv /\ BuildInv)
  BY TypeInvInit, TypeInvStep, DepInvInit, DepInvStep, BuildInvInit, BuildInvStep,
     PTL DEF Spec
<1>. QED
  BY <1>1, PTL DEF BuildInv

-------------------------------------------------------------------------------
(* What a successful run delivers *)

\* There are no rules, no box and no report at first.
LEMMA DeliveryInvInit == FreshRules /\ Init => DeliveryInv
BY DEF Init, FreshRules, DeliveryInv, RulesFresh, Delivering, SuccessDelivers, Idle,
   NoRecord, NoReport

\* An up or an update that comes to its end has pushed what it loaded, and what it
\* loaded is what is on the disk.
LEMMA DeliveryInvStep ==
  ASSUME CarefulBuilds, FreshRules, TypeInv, DepInv, BuildInv, DeliveryInv, [Next]_vars
  PROVE  DeliveryInv'
<1> USE DEF TypeInv, TypeOK, Control, UpSteps, UpdateSteps, UpgradeSteps,
   DepInv, BuildInv, Loaded, Staging, Recording, Unrecorded,
   RecordedIsRunning, NetChecked, CarefulBuilds, FreshRules, RulesFresh,
   Delivering, DeliveryInv, SuccessDelivers, AfterRebuild
<1>1. CASE Up
  BY <1>1, BeginType DEF Up, At, Step, NoReport, Begin
<1>2. CASE Update
  BY <1>2, BeginType DEF Update, At, Step, NoReport, Begin
<1>3. CASE Upgrade
  BY <1>3, BeginType DEF Upgrade, At, Step, NoReport, Begin
<1>4. CASE Provision
  BY <1>4, GotoType DEF Provision, At, Step
<1>5. CASE Persist
  BY <1>5, GotoType DEF Persist, At, Step
<1>6. CASE WaitSsh
  BY <1>6, GotoType DEF WaitSsh, At, Step
<1>7. CASE RecordProfile
  BY <1>7, GotoType DEF RecordProfile, At, Step
<1>8. CASE ReconcileNetwork
  <2>1. /\ run.pc = "reconcileNetwork" /\ run.kind = "update" /\ rec.exists
        /\ net' = disk.toml.net
    BY <1>8 DEF ReconcileNetwork, At, Run
  <2>. QED
    BY <1>8, <2>1, GotoType DEF ReconcileNetwork, Step
<1>9. CASE ShortCircuit
  BY <1>9, EndType DEF ShortCircuit, At, Outcome
<1>10. CASE Changed
  BY <1>10, GotoType DEF Changed, AfterHashCheck, At, Step
<1>11. CASE NixCheck
  <2>1. run.kind = "update" /\ run.toml = disk.toml /\ rec.nix = run.dep.nix /\ rec.exists
    BY <1>11 DEF NixCheck, At, Run
  <2>2. ASSUME NixHash(disk, run.toml) = run.dep.nix
        PROVE  box.active = BuildOf(disk)
    <3>1. rec.nix = BuildOf(disk) /\ rec.nix \in Build
      BY <2>1, <2>2, HashTypes DEF NixHash, BuildOf, Project
    <3>. QED
      BY <1>11, <3>1, HashAssumption DEF NixCheck, At
  <2>3. /\ run' \in Run /\ run'.kind = "update" /\ run'.toml = run.toml
        /\ run'.pc \in {"hashProfiles", "upload"}
        /\ run'.pc = "hashProfiles" => NixHash(disk, run.toml) = run.dep.nix
    BY <1>11, <2>1 DEF NixCheck, At, Run, Step
  <2>. QED
    BY <1>11, <2>1, <2>2, <2>3 DEF NixCheck, At
<1>12. CASE Connect
  BY <1>12, GotoType DEF Connect, At, Step
<1>13. CASE RecordProfiles
  <2>1. /\ run.kind = "update" /\ rec.exists /\ run.pc = "recordProfiles"
        /\ run.toml = disk.toml
    BY <1>13 DEF RecordProfiles, At
  <2>2. /\ run'.pc = "idle" /\ run'.kind = "none" /\ rec'.exists = rec.exists
        /\ disk' = disk /\ net' = net /\ box' = box
    BY <1>13, EndType DEF RecordProfiles, Outcome, Record
  <2>. QED
    BY <2>1, <2>2
<1>14. CASE Dns
  BY <1>14, GotoType DEF Dns, At, Step
<1>15. CASE DnsRecord
  BY <1>15, GotoType DEF DnsRecord, At, Step
<1>16. CASE Cron
  <2>1. /\ run.pc = "cron" /\ rec.exists /\ run.toml = disk.toml
        /\ run.toml.cron = Undeclared \/ box'.cron = run.toml.cron
        /\ box'.active = box.active
    BY <1>16 DEF Cron, At
  <2>2. CASE run.kind = "up"
    BY <1>16, <2>1, <2>2, EndType DEF Cron, Outcome
  <2>3. CASE run.kind = "update"
    BY <1>16, <2>1, <2>3, GotoType DEF Cron, Step
  <2>. QED
    BY <2>1, <2>2, <2>3 DEF Run
<1>17. CASE Upload
  BY <1>17, GotoType DEF Upload, At, Step
<1>18. CASE UploadFiles
  BY <1>18, GotoType DEF UploadFiles, At, Step
<1>19. CASE Rebuild
  BY <1>19, GotoType DEF Rebuild, At, Goto, Run
<1>20. CASE RecordConfig
  BY <1>20, GotoType DEF RecordConfig, At, Step
<1>21. CASE Healthcheck
  <2>1. run.pc = "health" /\ rec.exists /\ run.toml = disk.toml
    BY <1>21 DEF Healthcheck, At
  <2>2. CASE Goto("hashProfiles") /\ report' = report
    BY <1>21, <2>1, <2>2, GotoType DEF Healthcheck, Step
  <2>3. CASE End("applied") /\ run.kind = "upgrade"
    BY <1>21, <2>1, <2>3, EndType DEF Healthcheck, Outcome
  <2>4. CASE End("unhealthy")
    BY <1>21, <2>1, <2>4, EndType DEF Healthcheck, Outcome
  <2>. QED
    BY <1>21, <2>2, <2>3, <2>4 DEF Healthcheck
<1>22. CASE HashProfiles
  BY <1>22 DEF HashProfiles, At, Run
<1>23. ASSUME NEW p \in Profiles, SyncProfile(p)
       PROVE  DeliveryInv'
  BY <1>23 DEF SyncProfile, At, Run
<1>24. CASE FlakeUpdate
  BY <1>24, GotoType DEF FlakeUpdate, At, Step
<1>25. CASE Fail
  <2>1. /\ run'.pc = "idle" /\ run'.kind = "none" /\ report'.outcome = "failed"
    BY <1>25, EndType DEF Fail, Outcome
  <2>2. run.kind # "none" => run.pc # "idle" /\ <<run.kind, run.pc>> \in FailPoints
    BY <1>25 DEF Fail
  <2>. QED
    BY <1>25, <2>1, <2>2 DEF Fail, Run
<1>26. CASE FailHalfway
  <2>1. /\ run'.pc = "idle" /\ run'.kind = "none" /\ report'.outcome = "failed"
    BY <1>26, EndType DEF FailHalfway, Outcome
  <2>2. rec.exists
    BY <1>26 DEF FailHalfway, At
  <2>. QED
    BY <1>26, <2>1, <2>2 DEF FailHalfway
<1>27. CASE RebuildTimeout
  <2>1. /\ run'.pc = "idle" /\ run'.kind = "none" /\ report'.outcome = "failed"
    BY <1>27, EndType DEF RebuildTimeout, Outcome
  <2>2. rec.exists
    BY <1>27 DEF RebuildTimeout, At
  <2>. QED
    BY <1>27, <2>1, <2>2 DEF RebuildTimeout
<1>28. CASE Edit
  BY <1>28 DEF Edit, At, Run, Project, Toml, NoReport
<1>29. CASE Drift
  BY <1>29 DEF Drift, At, NoReport
<1>30. CASE UNCHANGED vars
  BY <1>30 DEF vars
<1>. QED
  BY <1>1, <1>2, <1>3, <1>4, <1>5, <1>6, <1>7, <1>8, <1>9, <1>10,
   <1>11, <1>12, <1>13, <1>14, <1>15, <1>16, <1>17, <1>18, <1>19, <1>20,
   <1>21, <1>22, <1>23, <1>24, <1>25, <1>26, <1>27, <1>28, <1>29, <1>30 DEF
   Next, DeployStep, UpdateStep, SharedStep

\* An up or update that went past the short-circuit and succeeded has the build,
\* the firewall rules and the cron jobs of the project directory in force.
THEOREM SuccessIsDelivery ==
  ASSUME CarefulBuilds, FreshRules
  PROVE  Spec => []SuccessDelivers
<1>1. Spec => [](TypeInv /\ DepInv /\ BuildInv)
  BY TypeInvInit, TypeInvStep, DepInvInit, DepInvStep, BuildInvInit, BuildInvStep,
     PTL DEF Spec
<1>2. Spec => []DeliveryInv
  BY <1>1, DeliveryInvInit, DeliveryInvStep, PTL DEF Spec
<1>. QED
  BY <1>2, PTL DEF DeliveryInv

-------------------------------------------------------------------------------
(* Profiles *)

\* No profile is recorded at first.
LEMMA ProfileInvInit == Init => ProfileInv
BY DEF Init, ProfileInv, Loaded, HashedIsThere, ProfilesOfUp, ProfilesOfUpdate,
   Syncing, ConfigHashesNone, ProfilesSynced, Success, Idle, NoRecord, NoHashes,
   NoReport

\* A profile that is skipped has its recorded hash's files, and one that is uploaded
\* has the disk's.
LEMMA ProfileInvStep ==
  ASSUME CarefulProfiles, TypeInv, DepInv, ProfileInv, [Next]_vars
  PROVE  ProfileInv'
<1> USE DEF TypeInv, TypeOK, Control, UpSteps, UpdateSteps, UpgradeSteps,
   DepInv, ProfileInv, Loaded, HashedIsThere, ProfilesOfUp, ProfilesOfUpdate,
   Synced, Syncing, Has, ConfigHashesNone, ProfilesSynced, Success,
   CarefulProfiles
<1>1. CASE Up
  BY <1>1, BeginType DEF Up, At, Step, NoReport, Begin
<1>2. CASE Update
  BY <1>2, BeginType DEF Update, At, Step, NoReport, Begin
<1>3. CASE Upgrade
  BY <1>3, BeginType DEF Upgrade, At, Step, NoReport, Begin
<1>4. CASE Provision
  BY <1>4, GotoType DEF Provision, At, Step
<1>5. CASE Persist
  BY <1>5, GotoType DEF Persist, At, Step, NoRecord, NoHashes
<1>6. CASE WaitSsh
  BY <1>6, GotoType DEF WaitSsh, At, Step
<1>7. CASE RecordProfile
  BY <1>7, GotoType DEF RecordProfile, At, Step
<1>8. CASE ReconcileNetwork
  BY <1>8, GotoType DEF ReconcileNetwork, At, Step
<1>9. CASE ShortCircuit
  <2>1. run.kind = "update" /\ run.toml = disk.toml /\ disk.toml \in Toml
    BY <1>9 DEF ShortCircuit, At, Run
  <2>2. rec.config = UpdateHash(disk, run.toml) /\ rec.config # Pending
    BY <1>9, <2>1, UpdateHashType, HashAssumption DEF ShortCircuit, At
  <2>3. ProfileHash(disk, run.toml) = NoHashes
    BY <2>2 DEF UpdateHash
  <2>4. disk.toml.profiles = {}
    BY <2>1, <2>3 DEF ProfileHash, NoHashes
  <2>. QED
    BY <1>9, <2>1, <2>4, EndType DEF ShortCircuit, At, Outcome
<1>10. CASE Changed
  BY <1>10, GotoType DEF Changed, AfterHashCheck, At, Step
<1>11. CASE NixCheck
  BY <1>11 DEF NixCheck, At, Run
<1>12. CASE Connect
  BY <1>12, GotoType DEF Connect, At, Step
<1>13. CASE RecordProfiles
  <2>1. /\ run.kind = "update" /\ run.toml = disk.toml /\ run.toml \in Toml
        /\ run.pc = "recordProfiles" /\ run.left = {}
        /\ run.hashes = ProfileHash(disk, run.toml)
        /\ Synced({})
    BY <1>13 DEF RecordProfiles, At
  <2>2. /\ run'.pc = "idle" /\ run'.kind = "none"
        /\ rec'.profiles = run.hashes /\ rec'.config = rec.config
        /\ disk' = disk /\ box' = box
    BY <1>13, EndType DEF RecordProfiles, Outcome, Record
  <2>3. \A p \in run.toml.profiles : Has(p, run.hashes[p])
    BY <2>1 DEF ProfileHash
  <2>4. DOMAIN run.hashes = run.toml.profiles
    BY <2>1 DEF ProfileHash
  <2>. QED
    BY <2>1, <2>2, <2>3, <2>4
<1>14. CASE Dns
  BY <1>14, GotoType DEF Dns, At, Step
<1>15. CASE DnsRecord
  BY <1>15, GotoType DEF DnsRecord, At, Step
<1>16. CASE Cron
  <2>1. /\ run.pc = "cron" /\ run.toml = disk.toml
        /\ box'.profiles = box.profiles
    BY <1>16 DEF Cron, At
  <2>2. CASE run.kind = "up"
    BY <1>16, <2>1, <2>2, EndType DEF Cron, Outcome
  <2>3. CASE run.kind = "update"
    BY <1>16, <2>1, <2>3, GotoType DEF Cron, Step
  <2>. QED
    BY <2>1, <2>2, <2>3 DEF Run
<1>17. CASE Upload
  BY <1>17, GotoType DEF Upload, At, Step
<1>18. CASE UploadFiles
  BY <1>18, GotoType DEF UploadFiles, At, Step
<1>19. CASE Rebuild
  BY <1>19, GotoType DEF Rebuild, At, Goto, Run
<1>20. CASE RecordConfig
  BY <1>20, GotoType DEF RecordConfig, At, Step, RecordedHash, Record
<1>21. CASE Healthcheck
  <2>1. run.pc = "health" /\ run.toml = disk.toml
    BY <1>21 DEF Healthcheck, At
  <2>2. CASE Goto("hashProfiles") /\ report' = report
    BY <1>21, <2>1, <2>2, GotoType DEF Healthcheck, Step
  <2>3. CASE End("applied") /\ run.kind = "upgrade"
    BY <1>21, <2>1, <2>3, EndType DEF Healthcheck, Outcome
  <2>4. CASE End("unhealthy")
    BY <1>21, <2>1, <2>4, EndType DEF Healthcheck, Outcome
  <2>. QED
    BY <1>21, <2>2, <2>3, <2>4 DEF Healthcheck
<1>22. CASE HashProfiles
  <2> DEFINE now == ProfileHash(disk, run.toml)
             same(p) == /\ p \in DOMAIN run.dep.profiles
                        /\ run.dep.profiles[p] = now[p]
             left == IF run.kind = "up" THEN run.toml.profiles
                     ELSE {p \in run.toml.profiles : ~same(p)}
  <2>1. run.pc = "hashProfiles" /\ run.kind \in {"up", "update"} /\ run.toml = disk.toml
    BY <1>22 DEF HashProfiles, At, Run
  <2>2. /\ run'.pc = IF left # {} THEN "syncProfiles"
                     ELSE IF run.kind = "up" THEN "cron" ELSE "recordProfiles"
        /\ run'.hashes = now /\ run'.left = left
        /\ run'.kind = run.kind /\ run'.toml = run.toml
    BY <1>22 DEF HashProfiles, Run
  <2>3. /\ left \subseteq run.toml.profiles
        /\ run.kind = "up" => left = run.toml.profiles
    OBVIOUS
  <2>4. ASSUME NEW p \in run.toml.profiles, p \notin left
        PROVE  Has(p, disk.pfiles[p])
    <3>1. /\ run.kind = "update" /\ run.dep.profiles = rec.profiles
          /\ p \in DOMAIN rec.profiles /\ rec.profiles[p] = now[p]
      BY <2>1, <2>4
    <3>2. now[p] = disk.pfiles[p]
      BY DEF ProfileHash
    <3>. QED
      BY <2>1, <3>1, <3>2
  <2>5. /\ disk' = disk /\ rec' = rec /\ box' = box /\ report' = report
    BY <1>22 DEF HashProfiles
  <2> HIDE DEF left, now, same
  <2>. QED
    BY <2>1, <2>2, <2>3, <2>4, <2>5 DEF now
<1>23. ASSUME NEW p \in Profiles, SyncProfile(p)
       PROVE  ProfileInv'
  <2>1. /\ run.pc = "syncProfiles" /\ run.kind \in {"up", "update"} /\ p \in run.left
        /\ run.toml = disk.toml /\ run.toml.docs[p] \in DocNames
    BY <1>23 DEF SyncProfile, At, Run, Toml
  <2>2. /\ box'.profiles[p] = [files |-> disk.pfiles[p],
             docs |-> [box.profiles[p].docs EXCEPT ![run.toml.docs[p]] = disk.pfiles[p]],
             as |-> run.toml.docs[p]]
        /\ \A q \in Profiles \ {p} : box'.profiles[q] = box.profiles[q]
    BY <1>23 DEF SyncProfile
  <2>3. box.profiles[p].docs \in [DocNames -> Versions \cup {Blank}]
    BY DEF BoxProfile
  <2>4. Has(p, disk.pfiles[p])'
    <3>1. /\ disk' = disk
          /\ box'.profiles[p].files = disk.pfiles[p]
          /\ box'.profiles[p].as = run.toml.docs[p]
      BY <1>23, <2>2 DEF SyncProfile
    <3>2. box'.profiles[p].docs[run.toml.docs[p]] = disk.pfiles[p]
      BY <2>1, <2>2, <2>3
    <3>. QED
      BY <3>1, <3>2
  <2>5. /\ run'.kind = run.kind /\ run'.toml = run.toml /\ run'.hashes = run.hashes
        /\ run'.left = run.left \ {p} /\ run'.current = p
        /\ run'.pc \in {"syncProfiles", "recordProfiles"}
        /\ run.kind = "update" /\ run'.pc = "recordProfiles" => run'.left = {}
        /\ disk' = disk /\ rec' = rec /\ report' = report
    BY <1>23, <2>1 DEF SyncProfile, Run
  <2>6. \A q \in Profiles \ {p} : \A v : Has(q, v) => Has(q, v)'
    BY <2>2
  <2>7. run.toml.profiles \subseteq Profiles /\ DOMAIN rec.profiles \subseteq Profiles
    BY <2>1 DEF Toml, Record, ProfileHashes
  <2> HIDE DEF Has
  <2>. QED
    BY <2>1, <2>4, <2>5, <2>6, <2>7
<1>24. CASE FlakeUpdate
  BY <1>24, GotoType DEF FlakeUpdate, At, Step
<1>25. CASE Fail
  <2>1. /\ run'.pc = "idle" /\ run'.kind = "none" /\ report'.outcome = "failed"
    BY <1>25, EndType DEF Fail, Outcome
  <2>2. <<run.kind, run.pc>> \in FailPoints
    BY <1>25 DEF Fail
  <2>. QED
    BY <1>25, <2>1, <2>2 DEF Fail, Run
<1>26. CASE FailHalfway
  <2>1. /\ run'.pc = "idle" /\ run'.kind = "none" /\ report'.outcome = "failed"
        /\ rec' = rec /\ disk' = disk
    BY <1>26, EndType DEF FailHalfway, Outcome
  <2>2. CASE box'.profiles = box.profiles /\ run.pc = "cron"
    BY <2>1, <2>2
  <2>3. ASSUME NEW p \in run.left, run.pc = "syncProfiles",
               NEW home, box' = [box EXCEPT !.profiles[p] = home]
        PROVE  ProfileInv'
    <3>1. run.kind = "up"
      BY <1>26, <2>3 DEF FailHalfway, Run
    <3>2. \A q \in DOMAIN rec.profiles : q # p
      BY <2>3, <3>1
    <3>3. \A q \in DOMAIN rec.profiles : box'.profiles[q] = box.profiles[q]
      <4>1. DOMAIN rec.profiles \subseteq Profiles
        BY DEF Record, ProfileHashes
      <4>. QED
        BY <2>3, <3>2, <4>1
    <3>. QED
      BY <2>1, <3>1, <3>3
  <2>4. CASE run.pc = "syncProfiles"
    <3>1. PICK p \in run.left : box' = [box EXCEPT !.profiles[p] =
            [@ EXCEPT !.files = Blank, !.docs[run.toml.docs[p]] = Blank]]
      BY <1>26, <2>4 DEF FailHalfway, At
    <3>. QED
      BY <2>3, <2>4, <3>1
  <2>. QED
    BY <1>26, <2>2, <2>4 DEF FailHalfway, At
<1>27. CASE RebuildTimeout
  BY <1>27, EndType DEF RebuildTimeout, At, Outcome
<1>28. CASE Edit
  BY <1>28 DEF Edit, At, Run, Project, Toml, NoReport
<1>29. CASE Drift
  BY <1>29 DEF Drift, At, NoReport
<1>30. CASE UNCHANGED vars
  BY <1>30 DEF vars
<1>. QED
  BY <1>1, <1>2, <1>3, <1>4, <1>5, <1>6, <1>7, <1>8, <1>9, <1>10,
   <1>11, <1>12, <1>13, <1>14, <1>15, <1>16, <1>17, <1>18, <1>19, <1>20,
   <1>21, <1>22, <1>23, <1>24, <1>25, <1>26, <1>27, <1>28, <1>29, <1>30 DEF
   Next, DeployStep, UpdateStep, SharedStep

\* After a successful up or update every declared profile's files on the box are
\* those on the disk, whichever uploads were skipped for their recorded hash; so
\* is its document, unless its key was renamed since it was last uploaded.
THEOREM SuccessSyncsProfiles ==
  ASSUME CarefulProfiles
  PROVE  Spec => []ProfilesSynced
<1>1. Spec => [](TypeInv /\ DepInv)
  BY TypeInvInit, TypeInvStep, DepInvInit, DepInvStep, PTL DEF Spec
<1>2. Spec => []ProfileInv
  BY <1>1, ProfileInvInit, ProfileInvStep, PTL DEF Spec
<1>. QED
  BY <1>2, PTL DEF ProfileInv

-------------------------------------------------------------------------------
(* DNS records *)

\* There are no records at first.
LEMMA DnsInvInit == Init => DnsInv
BY DEF Init, DnsInv, Idle

\* A name enters the DNS only on its way into the record, and leaves the record only
\* when its delete has been tried.
LEMMA DnsInvStep ==
  ASSUME CarefulDns, TypeInv, DepInv, DnsInv, [Next]_vars
  PROVE  DnsInv'
<1> USE DEF TypeInv, TypeOK, Control, UpSteps, UpdateSteps, UpgradeSteps,
   DepInv, DnsInv, CarefulDns
<1>1. CASE Up
  BY <1>1, BeginType DEF Up, At, Step, NoReport, Begin, Idle
<1>2. CASE Update
  BY <1>2, BeginType DEF Update, At, Step, NoReport, Begin
<1>3. CASE Upgrade
  BY <1>3, BeginType DEF Upgrade, At, Step, NoReport, Begin
<1>4. CASE Provision
  BY <1>4, GotoType DEF Provision, At, Step
<1>5. CASE Persist
  <2>1. PICK step \in {"dns", "waitSsh"} : Goto(step)
    BY <1>5 DEF Persist
  <2>2. run.pc = "persist" /\ run.kind = "up" /\ dns.names = {}
    BY <1>5 DEF Persist, At, Run
  <2>. QED
    BY <1>5, <2>1, <2>2, GotoType DEF Persist, Step, NoRecord
<1>6. CASE WaitSsh
  BY <1>6, GotoType DEF WaitSsh, At, Step
<1>7. CASE RecordProfile
  BY <1>7, GotoType DEF RecordProfile, At, Step
<1>8. CASE ReconcileNetwork
  BY <1>8, GotoType DEF ReconcileNetwork, At, Step
<1>9. CASE ShortCircuit
  BY <1>9, EndType DEF ShortCircuit, At, Outcome, Idle
<1>10. CASE Changed
  BY <1>10, GotoType DEF Changed, AfterHashCheck, At, Step
<1>11. CASE NixCheck
  BY <1>11 DEF NixCheck, At, Run
<1>12. CASE Connect
  BY <1>12, GotoType DEF Connect, At, Step
<1>13. CASE RecordProfiles
  BY <1>13, EndType DEF RecordProfiles, At, Outcome, Idle
<1>14. CASE Dns
  <2>1. run.pc = "dns" /\ run.kind \in {"up", "update"} /\ rec.exists
    BY <1>14 DEF Dns, At, Run
  <2>2. /\ run'.pc = "dnsRecord" /\ run'.kind = run.kind /\ run'.toml = run.toml
        /\ rec' = rec
    BY <1>14, GotoType DEF Dns, Step
  <2>3. run.kind = "up" => OldName = NoDomain /\ dns.names = {}
    BY <2>1 DEF OldName
  <2>4. run.kind = "update" => OldName = rec.dom
    BY <2>1 DEF OldName
  <2>5. dns.names \subseteq {rec.dom, dns.left} /\ NoDomain \notin dns.names
    BY <2>1, SyncAssumption
  <2>6. dns'.names \subseteq {run.toml.dom, dns'.left}
    <3>1. CASE dns' = [dns EXCEPT !.names = Upserted(run.toml.dom, Deleted(OldName, @))]
      BY <2>1, <2>3, <2>4, <2>5, <3>1 DEF Upserted, Deleted
    <3>2. CASE /\ dns.left = NoDomain /\ OldName # NoDomain
               /\ dns' = [names |-> Upserted(run.toml.dom, dns.names), left |-> OldName]
      BY <2>1, <2>3, <2>4, <2>5, <3>2 DEF Upserted
    <3>. QED
      BY <1>14, <3>1, <3>2 DEF Dns
  <2>. QED
    BY <2>1, <2>2, <2>6
<1>15. CASE DnsRecord
  BY <1>15, GotoType DEF DnsRecord, At, Step
<1>16. CASE Cron
  BY <1>16, GotoType, EndType DEF Cron, At, Step, Outcome, Idle
<1>17. CASE Upload
  BY <1>17, GotoType DEF Upload, At, Step
<1>18. CASE UploadFiles
  BY <1>18, GotoType DEF UploadFiles, At, Step
<1>19. CASE Rebuild
  BY <1>19, GotoType DEF Rebuild, At, Goto, Run
<1>20. CASE RecordConfig
  BY <1>20, GotoType DEF RecordConfig, At, Step
<1>21. CASE Healthcheck
  BY <1>21, GotoType, EndType DEF Healthcheck, At, Step, Outcome, Idle
<1>22. CASE HashProfiles
  BY <1>22 DEF HashProfiles, At, Run
<1>23. ASSUME NEW p \in Profiles, SyncProfile(p)
       PROVE  DnsInv'
  BY <1>23 DEF SyncProfile, At, Run
<1>24. CASE FlakeUpdate
  BY <1>24, GotoType DEF FlakeUpdate, At, Step
<1>25. CASE Fail
  BY <1>25, EndType DEF Fail, At, Outcome, Idle
<1>26. CASE FailHalfway
  BY <1>26, EndType DEF FailHalfway, At, Outcome, Idle
<1>27. CASE RebuildTimeout
  BY <1>27, EndType DEF RebuildTimeout, At, Outcome, Idle
<1>28. CASE Edit
  BY <1>28 DEF Edit, At, Run
<1>29. CASE Drift
  BY <1>29 DEF Drift, At, NoReport
<1>30. CASE UNCHANGED vars
  BY <1>30 DEF vars
<1>. QED
  BY <1>1, <1>2, <1>3, <1>4, <1>5, <1>6, <1>7, <1>8, <1>9, <1>10,
   <1>11, <1>12, <1>13, <1>14, <1>15, <1>16, <1>17, <1>18, <1>19, <1>20,
   <1>21, <1>22, <1>23, <1>24, <1>25, <1>26, <1>27, <1>28, <1>29, <1>30 DEF
   Next, DeployStep, UpdateStep, SharedStep

\* Every A record's name is in state.toml, or its best-effort delete failed, except
\* while a run moves it: update and destroy can delete what was created.
THEOREM DnsIsTracked ==
  ASSUME CarefulDns
  PROVE  Spec => []DnsTracked
<1>1. Spec => [](TypeInv /\ DepInv)
  BY TypeInvInit, TypeInvStep, DepInvInit, DepInvStep, PTL DEF Spec
<1>2. Spec => []DnsInv
  BY <1>1, DnsInvInit, DnsInvStep, PTL DEF Spec
<1>3. DnsInv => DnsTracked
  BY DEF DnsInv, DnsTracked
<1>. QED
  BY <1>2, <1>3, PTL

-------------------------------------------------------------------------------
(* A second run *)

\* Where there are no profiles, the two hashes of a configuration are the same.
LEMMA PlainHash ==
  ASSUME PlainProject, TypeInv, RerunInv, run.pc # "idle"
  PROVE  UpdateHash(disk, run.toml) = RecordedHash(disk)
<1>1. run.toml \in Toml /\ run.toml.profiles = {}
  BY DEF PlainProject, TypeInv, Control, Toml
<1>2. ProfileHash(disk, run.toml) = NoHashes
  BY <1>1 DEF ProfileHash, NoHashes
<1>. QED
  BY <1>2 DEF UpdateHash, RecordedHash

\* Nothing has run at first.
LEMMA RerunInvInit == Init => RerunInv
BY DEF Init, RerunInv, Loaded, Rerun, NoOpRerun, Idle, NoReport

\* A run that rebuilt leaves the hash the next update compares with.
LEMMA RerunInvStep ==
  ASSUME PlainProject, TypeInv, DepInv, RerunInv, [Next]_vars
  PROVE  RerunInv'
<1> USE DEF TypeInv, TypeOK, Control, UpSteps, UpdateSteps, UpgradeSteps,
   DepInv, RerunInv, Loaded, Rerun, NoOpRerun, AfterRebuild, PlainProject
<1>1. CASE Up
  BY <1>1, BeginType DEF Up, At, Step, NoReport, Begin
<1>2. CASE Update
  BY <1>2, BeginType DEF Update, At, Step, NoReport, Begin
<1>3. CASE Upgrade
  BY <1>3, BeginType DEF Upgrade, At, Step, NoReport, Begin
<1>4. CASE Provision
  BY <1>4, GotoType DEF Provision, At, Step
<1>5. CASE Persist
  BY <1>5, GotoType DEF Persist, At, Step
<1>6. CASE WaitSsh
  BY <1>6, GotoType DEF WaitSsh, At, Step
<1>7. CASE RecordProfile
  BY <1>7, GotoType DEF RecordProfile, At, Step, Record
<1>8. CASE ReconcileNetwork
  BY <1>8, GotoType DEF ReconcileNetwork, At, Step
<1>9. CASE ShortCircuit
  <2>1. run.kind = "update" /\ run.pc = "hashCheck"
    BY <1>9 DEF ShortCircuit, At, Run
  <2>2. rec.config = RecordedHash(disk)
    BY <1>9, <2>1, PlainHash DEF ShortCircuit
  <2>. QED
    BY <1>9, <2>1, <2>2, EndType DEF ShortCircuit, Outcome
<1>10. CASE Changed
  <2>1. run.kind = "update" /\ run.pc = "hashCheck"
    BY <1>10 DEF Changed, At, Run
  <2>2. ~Rerun
    BY <1>10, <2>1, PlainHash DEF Changed
  <2>. QED
    BY <1>10, <2>1, <2>2, GotoType DEF Changed, AfterHashCheck, Step
<1>11. CASE NixCheck
  BY <1>11 DEF NixCheck, At, Run
<1>12. CASE Connect
  BY <1>12, GotoType DEF Connect, At, Step
<1>13. CASE RecordProfiles
  BY <1>13, EndType DEF RecordProfiles, At, Outcome, Idle, Record
<1>14. CASE Dns
  BY <1>14, GotoType DEF Dns, At, Step
<1>15. CASE DnsRecord
  BY <1>15, GotoType DEF DnsRecord, At, Step, Record
<1>16. CASE Cron
  BY <1>16, GotoType, EndType DEF Cron, At, Step, Outcome, Idle
<1>17. CASE Upload
  BY <1>17, GotoType DEF Upload, At, Step
<1>18. CASE UploadFiles
  BY <1>18, GotoType DEF UploadFiles, At, Step
<1>19. CASE Rebuild
  BY <1>19, GotoType DEF Rebuild, At, Goto, Run
<1>20. CASE RecordConfig
  <2>1. run.pc = "recordConfig" /\ rec'.config = RecordedHash(disk)
    BY <1>20 DEF RecordConfig, At, Record
  <2>. QED
    BY <1>20, <2>1, GotoType DEF RecordConfig, Step
<1>21. CASE Healthcheck
  BY <1>21, GotoType, EndType DEF Healthcheck, At, Step, Outcome, Idle
<1>22. CASE HashProfiles
  BY <1>22 DEF HashProfiles, At, Run
<1>23. ASSUME NEW p \in Profiles, SyncProfile(p)
       PROVE  RerunInv'
  BY <1>23 DEF SyncProfile, At, Run
<1>24. CASE FlakeUpdate
  BY <1>24, GotoType DEF FlakeUpdate, At, Step
<1>25. CASE Fail
  BY <1>25, EndType DEF Fail, At, Outcome, Idle
<1>26. CASE FailHalfway
  BY <1>26, EndType DEF FailHalfway, At, Outcome, Idle
<1>27. CASE RebuildTimeout
  BY <1>27, EndType DEF RebuildTimeout, At, Outcome, Idle
<1>28. CASE Edit
  BY <1>28 DEF Edit, At, Run, NoReport
<1>29. CASE Drift
  BY <1>29 DEF Drift, At, NoReport
<1>30. CASE UNCHANGED vars
  BY <1>30 DEF vars
<1>. QED
  BY <1>1, <1>2, <1>3, <1>4, <1>5, <1>6, <1>7, <1>8, <1>9, <1>10,
   <1>11, <1>12, <1>13, <1>14, <1>15, <1>16, <1>17, <1>18, <1>19, <1>20,
   <1>21, <1>22, <1>23, <1>24, <1>25, <1>26, <1>27, <1>28, <1>29, <1>30 DEF
   Next, DeployStep, UpdateStep, SharedStep

\* "Running update with no local changes is a no-op": an update that follows an
\* applied or an up-to-date run, with nothing edited or drifted since, ends
\* up-to-date or fails.
THEOREM SecondUpdateIsNoOp ==
  ASSUME PlainProject
  PROVE  Spec => []NoOpRerun
<1>1. Spec => [](TypeInv /\ DepInv)
  BY TypeInvInit, TypeInvStep, DepInvInit, DepInvStep, PTL DEF Spec
<1>2. Spec => []RerunInv
  BY <1>1, RerunInvInit, RerunInvStep, PTL DEF Spec
<1>. QED
  BY <1>2, PTL DEF RerunInv

===============================================================================
