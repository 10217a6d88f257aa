# A verification model of hermes-deploy

hermes-deploy is a command line tool, with a local dashboard server, that
provisions one cloud machine per deployment (AWS or GCP), turns it into a NixOS
box that runs hermes-agent, and pushes configuration to it over SSH. What it
knows about its deployments is in one file, `~/.config/hermes-deploy/state.toml`.

This directory holds TLA+ modules translated from the source, TLC
configurations that check them on small instances, and TLAPS proofs of the
results that hold for every instance. `PROJECT.json` maps every definition to
the lines it models.

## 1. Inventory

Paths are relative to `src/` of the repository.

| Component | State it keeps | Operations | Talks to | What is hard | What makes it correct |
|---|---|---|---|---|---|
| State store (`state/store.ts`, `migrations.ts`) | `state.toml`, its lock directory, its backups | `read`, `update` | every orchestrator and command, in several OS processes | concurrent processes, crashes inside an in-place overwrite, first use, stale locks | one writer at a time; no finished update lost, none invented; the lock always comes back |
| Deploy / update / upgrade (`orchestrator/{deploy,update,upgrade,shared}.ts`) | the hashes, profile hashes and domain in the deployment's record; what is on the box | `runDeploy`, `runUpdate`, `runUpgrade` | store, cloud provider, SSH session, cron reconciler, project files | any step fails, files are edited meanwhile, later runs skip work because of recorded hashes | what is recorded is what runs; "up-to-date" is true; a successful run delivered; a rerun is a no-op; every DNS record is known |
| Destroy (`orchestrator/destroy.ts`) | deletes all of the above | `runDestroy` | store, provider, project files | partial failure, repeated runs | nothing survives that no record names |
| Cloud providers (`cloud/aws`, `cloud/gcp`) | cloud resources and the ledger that names them | provision, destroy, adopt, reconcileNetwork, DNS, status | the orchestrators, the clouds' APIs | a failure between two resources, rollback, name collisions, eventual consistency | all resources exist and are in the ledger, or none exists |
| Network reconciliation (`orchestrator/ssh-ingress.ts`, `cloud/{aws,gcp}/reconcile-network.ts`) | the firewall rules in force; on GCP a rule's name in the record | the first phase of `update`, and of `ssh` | the cloud, an address service, `hermes.toml` | no atomic replace, two commands for two addresses, a copy of the record that is dropped | the rules in force are the declared ones; the operator can always get in |
| Remote operations (`remote-ops`) | files under `/tmp` and `/etc/nixos` of the box, the cron scheduler's jobs | `runNixosRebuild`, `reconcileCrons`, `pollHermesHealth`, `waitForSshPort`, sessions | orchestrators, dashboard routes | lost connections, polling with a timeout, a stopped gateway that must start again | the verdict is the verdict of the build that was started; the gateway is running afterwards; the declared jobs are on the box |
| Dashboard jobs (`server/singleflight.ts`, `server/routes/deployments.ts`, `server/reporter-bus.ts`) | running locks by deployment, job records, event buffers, subscribers | POST up / update / destroy / upgrade / adopt, job event stream | orchestrators | two requests at once, locks that are never released, late subscribers, buffers at their limit | one job per deployment; every job ends and frees its lock; a subscriber sees every event in order |
| Dashboard agent data (`server/agent-data-source.ts`, `server/routes/{agent-data,org}.ts`) | SSH session cache, per-agent lock, `.tmp` siblings on the box | reads of databases and files, edits of cron jobs and skill files, gateway commands | SSH sessions, the box, its scheduler | read-modify-write of remote files, cached sessions that died or were closed by another request | no lost write; files are whole; every request is answered |
| Live sessions page (`web/src/features/agent/SessionsTab.tsx`, `web/src/lib/agent-api.ts`, the socket of `agent-data.ts`) | a pushed list, fetched lists, a socket and the loop behind it | select, push, refetch, reconnect | agent data | dropped sockets, failed queries, a session that ends while watched | the page ends up with all messages of the session selected |
| Project files and secrets (`commands/{init,secret,key}.ts`, `sops`, `crypto`, `server/routes/{config,secrets,keys}.ts`) | age key, `.sops.yaml`, `secrets.env.enc`, `hermes.toml` | init, secret set / rm / edit / list, key export / import, PUT, the file part of up and destroy | sops, the file system | crashes between two files, CLI and server at once | the secrets open with the key that is there; what was acknowledged stays |
| End-to-end sweep (`scripts/e2e-sweep.mjs`) | what it has listed | a nightly sweep, dry runs | both clouds, tests that run in the same account | resources in use, failed calls, tests that are under way | leaks go in the end; nothing else ever does |
| Schemas and algorithms (`schema`, `state/hash.ts`, `orchestrator/cron-diff.ts`, `nix-gen`) | none | parse, migrate, hash, diff, generate Nix | everything above | boundary cases | a diff applied gives the declared set; hashes cover what the generated files depend on |
| Terminal UI, the rest of the web UI, `ls`, `status`, `logs`, domain and update checks | none that outlives a call, or a cache of a displayed answer | display | store, provider, SSH | rendering | not modelled |

### How a command runs

`up`, `update` and `destroy` are one asynchronous function each, one step after
the other, with no parallelism inside. Concurrency comes from outside: other
processes (CLI and dashboard) on the same state file, the operator editing
files, the box and the cloud changing by themselves, and requests inside the one
dashboard process. Every remote step may throw; except where noted nothing is
rolled back, and it is the *next* command that has to cope.

## 2. The modules

### `StateStore` (state/store.ts)

`StateStore.update` is the only writer of `state.toml`. Each process goes
through `existsSync` (`Begin`), the creation of a blank file outside the lock
(`OpenBlank`, `FillBlank`), `lockfile.lock` (`Acquire`, `GiveUp`), `read`
(`Read`, `ReadFails`), `backup` and `pruneOldBackups` (`Backup`), the mutator and
its validation (`MutatorFails`), `writeFileSync` (`Truncate`, then `Write`), and
the `finally` block (`Release`). `Crash` may strike in any of them; `Restore` is
the operator copying the newest backup over a torn file.

Abstractions: the file's content is the set of mutations it reflects (each
mutation adds one element, whatever it does to the TOML); a torn file is one
value, since `read` refuses every one of them (an empty table has no
`schema_version`). `proper-lockfile` is external: an existing lock directory
excludes, its owner refreshes it while alive, and one not refreshed for 30 s is
taken over. The model therefore assumes that a live owner is never suspended for
30 s. Backups made in the same millisecond have the same name in the code and
are two entries here.

`AtomicStore` is what callers rely on: a value that grows by one mutation at a
time. `ImplementsAtomicStore` is the refinement, under the mapping `Durable`:
the file's content, or the newest backup's while the file is torn.

### `ConfigSync` (orchestrator/{deploy,update,upgrade,shared}.ts)

One deployment, one command at a time, one action per remote step. `disk` is the
project directory, `rec` the deployment's record, `box` what is on the machine
(`staged` is `/etc/nixos`, `active` the generation that runs, the cron jobs and
the profile files), `net` the firewall in force, `dns` the names with a record,
`run` the command under way with what it has loaded, `report` how the last one
ended. `FailPoints` names the steps that may throw as pairs of a kind of run and
a step, since the same step is harmless to one kind and not to another.

A content is a version and a hash is the record of the contents it covers, so
that the four hashes can be compared exactly as the code compares them:
`UpdateHash` (update.ts:97-120) covers profile files, `RecordedHash`
(shared.ts:241-256) does not, `NixHash` (shared.ts:220-234) combines the files on
disk *now* with the `hermes.toml` *loaded at the start*, `ProfileHash`
(shared.ts:335-342) is per profile, and covers contents only: under which key of
`documents`, that is in which file on the box, a document goes is not in it. The
box's profile therefore has a content per document name, and `as` remembers the
name of the last upload. `HermesNix` and `ConfigurationNix` say what
the generated Nix files depend on, so that a dependency the hash does not cover
would show; `extra` is `nix_extra`, the optional file `hermes.extra.nix`.
`Upserted` and `Deleted` are the two calls on a DNS record; a delete that fails is
ignored by the code, and `dns.left` remembers the name it left.

| Steps of the code | Actions |
|---|---|
| load and validate, read the record | `Up`, `Update`, `Upgrade` |
| provision, persist, wait for SSH (deploy.ts:69-216) | `Provision`, `Persist`, `WaitSsh` |
| reconcileNetwork, hash short-circuit (update.ts:71-128) | `ReconcileNetwork`, `ShortCircuit`, `Changed` |
| DNS, crons, Nix check (update.ts:130-204) | `Dns`, `DnsRecord`, `Cron`, `NixCheck` |
| uploads, rebuild, new session (shared.ts:97-155, update.ts:278) | `Upload`, `UploadFiles`, `Rebuild`, `Connect` |
| record the hashes, poll health (shared.ts:262-278) | `RecordConfig`, `Healthcheck` |
| profiles (update.ts:205-249, 297-328, deploy.ts:253-271) | `HashProfiles`, `SyncProfile`, `RecordProfile`, `RecordProfiles` |
| `nix flake update` (upgrade.ts:24-36) | `FlakeUpdate` |
| an exception; a step half done; the 30-minute limit | `Fail`, `FailHalfway`, `RebuildTimeout` |
| the operator's editor, `secret set`, dashboard PUT; the world | `Edit`, `Drift` |

Abstractions: provisioning is one step, with GCP's treatment of what exists
already (everything is reused as it is); on AWS an `up` of an existing
deployment fails in that step, which `Fail` covers. Validation that refuses to
start is left out, as are the recorded health, addresses and agent revision.
`--skip-network` is left out: with it no claim is made about the firewall.
Sections of `hermes.toml` that go to the same places are one field: `nix`
(environment, the agent's own document names, watchdog, cachix), `net`, `cron`,
`dom`, `profiles`, and `docs`, the key of each profile's document. A rebuild that
fails leaves the running generation as it was (`Fail`); a `nixos-rebuild switch`
that has activated and then exits non-zero is the transition of `RebuildTimeout`,
an active generation and a failed run, and is in or out of a run with it. Drift happens between runs. One edit changes one field. Three steps
are atomic here and have a module of their own below: the firewall
(`NetworkRules`), the rebuild (`Rebuild`), the cron jobs (`CronReconcile`).

### `DashboardJobs` (server/singleflight.ts, reporter-bus.ts, routes/deployments.ts, routes/jobs.ts)

The server is one thread, so an action is the code between two awaits. A POST
handler tests the lock (`Busy`, `Enter`), awaits `state.toml`, and then either
fails its setup (`SetupFails`), finds the lock taken (`LosesRace`) or makes a job
and takes the lock (`Launch`); `Adopt` awaits nothing first; `KeyMissing` is the
upgrade route's `readFileSync`. An orchestrator is what it reports (`Progress`,
`Success`) and how it ends (`Finish`, `Fail`, each of which settles the job and
releases the lock in the same callback). `Subscribe`, `Leave` and `Cleanup` are
the web socket route, the browser that goes, and the ten-minute expiry. A
request makes at most one job, so the request stands for the random job id; each
event carries its position in `log`, the history of all events of a job, so that
a gap or a repetition shows.

Abstractions: phases and log lines are both `progress`; reading a job by GET and
the read-only routes change nothing; the 400s come before any state is read.
A restart of the dashboard forgets everything here and is left out.

### `CloudResources` (cloud/{aws,gcp}/{provision,destroy,adopt}.ts, orchestrator/destroy.ts, commands/adopt.ts)

The resources of one deployment, on one of the two clouds: what exists (`live`),
what the record names (`record`), the key files (`keys`) and the command under
way with its ledger (`run`). One command runs at a time, one action per call:

| Steps of the code | Actions |
|---|---|
| ensure keys, start `provision` with an empty ledger (deploy.ts:42-96) | `Up` |
| one resource after the other, in the order of `Plan` | `Create`, `CreateRefused`, `CreateFails`, `CreateLost` |
| ingress rules, wait for running, association | `Settle`, `SettleFails` |
| the catch block: destroy what the ledger names, errors swallowed | `RollBack`, then `Delete`, `DeleteFails`, `Deleted` |
| the record is written (deploy.ts:98-153) | `Persist`, `PersistFails` |
| `runDestroy`: a copy of the ledger, in the order of `Teardown`, then files and record | `Destroy`, `Delete`, `DeleteFails`, `Deleted`, `Unlink`, `UnlinkFails`, `Forget` |
| the search by tag or name, the refusals, the save | `Adopt`, `AdoptMisses`, `Persist` |
| the process dies | `Crash` |

The clouds differ as the code does: AWS gives fresh ids and refuses a second key
pair or group of one name; GCP names everything and reuses what exists; the GCP
firewall rules wait in a local (`run.rules`) until the last one is made. A call
may fail before it took effect or after. `tainted` remembers that a crash, a
lost answer, a failed rollback or a failed save may have left something that
nothing names: the code promises nothing then, except through adopt.

Abstractions: the ingress rules of an AWS group and the association of the
address are part of `Settle` (a failure anywhere between two creates is
`CreateFails` of the next); the NixOS image, the domain's record and reading the
status are left out; the key files are one value.

### `NetworkRules` (orchestrator/ssh-ingress.ts, update.ts:71-95, cloud/{aws,gcp}/reconcile-network.ts)

The single-port TCP rules in force (`rules`), `hermes.toml` (`conf`), the
operator's public address, whether the record names the GCP ports rule (`named`),
and up to two commands under way, one action per call:

| Steps of the code | Actions |
|---|---|
| `update` up to its network phase; `ssh` | `BeginNetwork`, `BeginSsh` |
| `detectPublicIp` | `Detect` |
| AWS: Describe, then Authorize and Revoke one rule each | `ListRules`, `Add`, `Added`, `Revoke` |
| GCP: the patch of the SSH rule; insert, patch or delete of the ports rule | `PatchSsh`, `Reconciled`, `CallRefused` (409, 404) |
| an exception, before or after the call took effect | `FailNetwork` |
| the operator, the console, `adopt` | `EditToml`, `Move`, `HandMade`, `AdoptRules` |

The parameter of the record is a copy in the code, so no action of a command
changes `named`. Other rules of the group (ranges, other protocols), which the
code never touches, and propagation delays are left out.

### `Box` and its parties

`Box` composes what works on one deployed box at the same time. Its constant
`Scenes` names combinations of parties, the first contents of `jobs.json` and
how many requests there are; parties that share no state do not act in one scene.

`BoxState` is what they share: the agent's `jobs.json`, the gateway service and
the scheduler's own copy of the jobs, which it writes back whole
(`SchedulerSave`). The agent is external. The file has a shape because its two
readers in this repository disagree on one: `remote-ops/cron.ts` wants an object
with a field `jobs`, the dashboard's routes a bare list.

`AgentLink` (server/agent-data-source.ts) is the SSH session cache and the helper
calls over it: `Acquire` (a hit, or an expired entry disposed of and a miss),
`Connect`, `ConnectFails`, `Run`, `Answer`, `Refused`, `SkipPython`, `Expire` (30 s)
and `Break`. A helper is a sequence of commands, each of which asks the cache
again.

`AgentRoutes` (server/routes/agent-data.ts, routes/org.ts) is the requests:

| Routes | Actions |
|---|---|
| every one | `Post`, `NotFound` |
| the reads, as rounds of parallel helper calls (`ReadRoutes`) | `BeginReading`, `NextRound`, `EndReading` |
| create, toggle, put, delete of a cron job, under `withAgentLock` | `Enqueue`, `EnterLock`, `ReadJobs`, `Edit`, `EditRefused`, `EndEdit` |
| PUT of a skill file | `BeginSkillPut`, `WriteSkill`, `EndSkillPut` |
| start, stop, restart of the gateway | `BeginGateway`, `RunGateway`, `EndGateway` |
| `writeRemoteFile`: upload to the `.tmp` sibling, then `mv` | `OpenTmp`, `FillTmp`, `Mv` |

An upload opens and cuts the file, then writes into it at the offsets of its own
stream, wherever a `mv` of another request has put that file meanwhile. In a file
that a second stream has had open as well (`shared`), what is there in the end
need not be whole: the short text of one may be followed by the tail of the
other's longer one. Which of the two is written last, and whether it is the
longer, is left open. What a route computes from its answers is left out:
a read route is the calls it makes and the order it makes them in. A create makes up
the id of its job when it edits (`Made`), one that nobody has: `genCronId` joins the
time and four random characters, and two alike are left out. `Ids` is a bound, so a
create that finds no id free ends as one whose write fails does. `Picked` is
`filter`: the entries at some positions, in their order.

`CronReconcile` (remote-ops/cron.ts, orchestrator/cron-diff.ts) is the plan
(`Removes`, `Creates`, `Edits`, `Toggles`, translated from `diffCrons`), the stop
of the gateway (`GatewayStopped`, `StopFails`), the commands one by one (`Apply`,
`CommandFails`, `EndApply`), pause and resume (`SetEnabled`, `EndPause`), the
`finally` block (`GatewayStarted`, `StartFails`) and a session that dies
(`Disconnect`). `systemctl stop` and `start` may fail over a live session too, with
or without an effect; `Ended` keeps whether the run has thrown.

`Rebuild` (remote-ops/nixos-rebuild.ts) is `runNixosRebuild` and the background
build it starts: `StartBuild`, `RemoveMarkers` and `EndBuild` on the box;
`PollFindsExit`, `ReturnResult`, `ReadFails` and `GiveUp` (30 minutes) in the
caller; `Forget` when both are over.

`LiveView` (web/src/features/agent/SessionsTab.tsx, web/src/lib/agent-api.ts and
the socket route of agent-data.ts) is the sessions page: the agent (`AddMessage`,
`EndChat`), the page (`Select`, `RefetchSessions`, `RefetchMessages`, `Receive`,
`Reconnect`), the server's loop (`BeginLoop`, `Poll`) and a connection that breaks
(`Drop`). A list is its session and its length.

### `ProjectFiles` (commands/{init,secret,key}.ts, sops/bootstrap.ts, crypto, server/routes/{config,secrets,keys}.ts)

The age key, `.sops.yaml`, `secrets.env.enc`, `hermes.toml`, whether `state.toml`
has the deployment, and the copy `key export` printed. Calls of sops and of the
file system are synchronous, so a request of the server runs alone up to its next
`await` (`Runs`, `Awaiting`), while a CLI process comes in between any two calls that
matter: the tests for `.sops.yaml` and `secrets.env.enc` and the writes that follow
are steps of their own, and so are what sops reads and what it writes. A test and a
read of the same file right after it (`FindKey`) are one step, since all that can
come of the pause is that the read fails and the operation ends.

| Operation | Actions |
|---|---|
| `init`, and the bootstrap of `up` | `BeginInit`, `BeginUp`, `FindKey`, `Keygen`, `WriteKey`, `FindRules`, `WriteRules`, `FindSecrets`, `WritePlaceholder`, `WrapPlaceholder`, `WriteWrapped`, `WriteToml`, `Record` |
| `secret set`, `rm`, `list`, `edit`, and the routes | `BeginSecret`, `ReadSecrets`, `WritePlain`, `Encrypt`, `Replace`, `CleanUp`, `SaveEdited` |
| `key export`, `key import` | `ExportKey`, `BeginImport`, `CopyKey` |
| PUT of `hermes.toml` | `BeginPut`, `FillToml` |
| `destroy`, after the resources are gone | `BeginDestroy`, `UnlinkKey`, `UnlinkRules`, `UnlinkSecrets`, `Forget` |
| a process dies | `Crash` |

sops and age-keygen are external: a file opens with the key it was encrypted for.
A value is left out, a secret is its name.

### `Sweeper` (scripts/e2e-sweep.mjs)

What tests, users and others have in a cloud account (`has`), the tests (`Begin`,
`Create`, `End`, `Destroy`, `Crash`, `Age`) and the nightly sweep, one kind of
resource after the other (`StartSweep`, `ListKind`, `DeleteListed`, `DeleteFails`,
`NextKind`). `Eligible` is the rails: the label, the prefix `e2e-`, the age, which
is not asked of what AWS gives no creation time. `InUse` is what the cloud refuses to
delete: a group from the launch of its instance, an address on GCP likewise, an
address on AWS only from its association, which provisioning makes after the
instance runs (aws/provision.ts:113-141) and which is a step of `Create`.

## 3. The runs

| Run | Instance | What it shows |
|---|---|---|
| `store_existing` | 3 processes, 4 mutations, 2 backups, 3 crashes, `state.toml` present | type, mutual exclusion, durability, refinement of `AtomicStore` |
| `store_firstuse` | 2 processes, 3 mutations, 1 crash, no `state.toml`, fair | every live owner of the lock lets go, whatever fails, first use included |
| `sync_build` | up and update; edits of nix, net, files, domain, an added `nix_extra`; `BuildFailures`; unhealthy services; firewall drift | recorded = running, truth of "up-to-date", no-op rerun, DNS records known |
| `sync_side` | up, redeploy, update, upgrade; 1 profile, whose document has 2 keys to be declared under, and cron jobs, edited, removed, drifting; `SideFailures` | a successful run delivered; skipping by profile hash is sound but for a renamed document |
| `sync_cron_revert` (violation) | cron edits only, no failure | a reverted cron edit is never applied |
| `jobs` | 3 requests of any kind, 2 names, 1 socket, buffer of 2, up to 4 events a job | one orchestrator per name, who may keep a lock, gap-free streams, verdicts |
| `cloud` | both clouds, 3 ups, 2 faults, 1 crash, any number of destroys and adopts | what a failed up leaves and deletes, what destroy may forget, destroy can always be run again, adopt finds everything |
| `box` | the scenes of `MCBox` | one editor at a time, atomic edits, whole files, no leaked session, own verdicts, delivered crons, no gateway left down unless its stop or start failed and the run says so, converging firewall rules nobody is locked out by; every request answered, the page catches up |
| `net_rerun` (violation) | GCP and AWS, 2 changes, no failing call | on GCP a second update, with nothing changed, is refused |
| `files` | 4 scenes of CLI commands and requests, 5 operations, 1 crash or failed call | secrets open, stranded secrets stay recorded, acknowledged secrets stay unless two commands made the file |
| `files_cleanslate` (violation) | init, up and destroy of one project, no mishap | after a destroy, `up` and `init` both refuse the directory |
| `sweep` | both clouds, 2 tests, a user, a stranger, 2 failed calls, 1 dry run, fair | the sweep spares what is not a leak; every leak is gone in the end |

Bounds. Two contents per file are enough: every decision compares two contents
for equality, and the interesting histories are "changed" and "changed back".
Two domains show the interference of one with another, two document keys a name
that is left behind; profiles do not affect one another, so one is enough. For the
store, three processes give one that holds the lock, one that waits and one that
takes over; three crashes reach a crash during the recovery of a crash; two
backups make pruning happen. Contents, names, processes and mutations are
interchangeable, hence the symmetry sets. For the dashboard, two requests race
for a lock while the third is the next owner or the one a leaked lock refuses; a
job of four events overflows the buffer of two, as one of 1001 does in the code;
sockets do not affect one another, so one is enough. For the cloud, the second
up meets what the first left and the third what an adopt made of it; two faults
make a create fail and its rollback too.

For the box, two requests are under way at a time and up to three are posted, so
that one takes over a lock while another waits; three sessions are one more than
two requests hold, the one that leaks; one break strikes at any command. A
reconciliation meets no file, one of either shape, a job that is not declared and
one name twice, and a second run meets what the first left. Two rebuilds share
the markers, the third run of either is a repetition. One page, two sessions, two
messages each and two clicks give every change between live and ended. Two
commands, two addresses, a port that may be open by hand and one failed call
give every partial update of the firewall and what the next run makes of it. For
the project files, five operations are init, up, an operation, destroy and one
after it; two keys tell what was encrypted for a former one. For the sweep, two
tests are one that runs while the other's leaks go, and two failures hit one
deletion twice. No run constrains the state space otherwise.

Fairness. Four runs check liveness.

- `store_firstuse`: weak fairness of `Step(p)`, the next step of a process that is
  inside `update()`. The code is a straight line of `await`s in a process that
  runs by itself; nobody is obliged to call `update()`, and crashes and restores
  are not fair.
- `box`, requests: weak fairness of the steps of each posted request. A handler
  goes on by itself once its `await` is over; that a helper call ends is assumed
  (the commands end, or the connection breaks and the channel closes), since the
  code sets no time limit of its own on a command. Posting is not fair.
- `box`, page: weak fairness of the page's timers (15 s, the backoff), of the
  loop's timer (2 s) and of delivery on an open socket. The agent, the clicks and
  the failures are not fair, and bounded.
- `sweep`: weak fairness of the sweep, which the workflow starts every night, and
  of the passing of time for what a crashed or finished test has left. Failed calls
  are bounded.

`CHECK_DEADLOCK FALSE` is used where mutations, requests, ups, operations or tests
are bounded, so that the system stops when all are done: the store, the
dashboard, the cloud, the box and the project files. The other runs check
deadlock.

### What does not hold, and which bounds keep it out of the passing runs

Besides the violation runs, the following behaviours of the code contradict
properties the passing runs check, or what its comments and documents say. Where
a constant or a definition is named in parentheses, changing that constant of the
named configuration, or checking that definition in it, reproduces the behaviour.

The store and the orchestrators:

- *Two first invocations* (`NoLostUpdate` as an invariant of
  `MCStateStore_firstuse.cfg`): store.ts:42 tests for the file and writes the blank
  one outside the lock, so the slower process overwrites the other's finished
  update.
- *Files edited during a run* (`EditsMidRun`, `sync_build`): shared.ts:247 hashes
  the disk after a rebuild that takes minutes; an edit made in between is recorded
  and not applied (`UpToDateIsTrue`).
- *Lost connection after the activation* (`<<"update", "connect">>` in the
  `FailPoints` of `sync_build`): update.ts:278 opens a new session before the
  hashes are recorded; if it fails the box runs the new configuration under the
  old hash, and after a reverted edit `UpToDateIsTrue` fails. An update's
  `recordConfig` and `rebuildTimeout` are alike, the latter with a switch that
  activates and exits non-zero.
- *Upgrade after a half-done update* (`upgrade` in `Kinds` and
  `<<"update", "uploadFiles">>`, `sync_build`): upgrade.ts:40 activates whatever
  `/etc/nixos` holds; after the edit is taken back `UpToDateIsTrue` fails.
- *A removed nix_extra* (`extraGone` in `Editable`, `sync_build`): nothing deletes
  `hermes.extra.nix` from `/etc/nixos`, and the flake imports it when it is there, so
  the old part stays in every later generation (`RecordedIsRunning`).
- *Half-uploaded profile* (`<<"update", "syncProfiles">>`, `sync_side`): the box has
  new files under an old hash; when the edit is taken back no update uploads the
  profile again (`ProfilesSynced`). An up starts from a record without hashes and
  is not affected.
- *Renamed document* (the last line of `ProfilesSynced` without `= home.as`,
  `sync_side`): a profile's document is declared under a new key of
  `[hermes.profiles.documents]`, with the same contents. The hash of the whole
  configuration changes, the hash of the profile does not (shared.ts:335-342,
  hash.ts:14-29), so update.ts:302 skips the upload and the run succeeds without
  the file the project now declares; or with an old content, if the name was used
  before. The file under the former name is never deleted, by an upload either.
- *Profile edited during an up* (`EditsMidRun`, `sync_side`): deploy.ts:268
  hashes the profile after its upload (`ProfilesSynced`). update.ts:299 hashes
  before, and is right.
- *up of an existing deployment* (`redeploy` in `Kinds`, `sync_build`):
  deploy.ts:102 drops `domain_name`, so a removed or renamed domain keeps its
  record for ever (`DnsTracked`).
- *Name created, record not written* (`<<"up", "dnsRecord">>` or `<<"update", "dnsRecord">>`
  in the `FailPoints` of `sync_build`): a failure between the DNS call and the
  store leaves a name that no record knows (`DnsTracked`).
- *Old rules kept by a second up* (`Editable = {"net"}`, `sync_side`): on GCP it reuses
  the firewall as it is, so it succeeds with rules that have been edited since
  (`SuccessDelivers`); the next update corrects them.
- *Update after an upgrade* (`upgrade` in `Kinds`, `sync_build`): an upgrade is
  "applied" without recording a hash, so the update after it need not be a no-op
  (`NoOpRerun`).
- *Short-circuit that never happens* (`Profiles = {p}`, `sync_build`): the hash
  compared covers profile files and the hash recorded does not (`NoOpRerun`). An
  update that needed no rebuild records no hash at all, so the next one does not
  short-circuit either; `NoOpRerun` makes no claim after such a run.
- *Cron drift* (`Drifts = {"cron"}`): jobs changed on the box are corrected only
  when the project changes too, since update.ts:121 returns first.
- *Unhealthy up*: deploy.ts:246 returns before profiles and crons, with the hash
  recorded; the update that follows reports up-to-date.

The dashboard's jobs:

- *Leaked lock* (`LockHasOwner` as an invariant of `MCDashboardJobs_jobs.cfg`): an
  upgrade whose key file is missing throws at deployments.ts:330 with the lock
  taken, and the name is refused until the dashboard restarts.
- *Silent ends*: `finish()` sends no event, so an unhealthy up or update and an
  adopt end without the `success` or `error` the job drawer waits for.
  `WatcherHasVerdict` excepts those kinds.
- *Lost race*: `LosesRace` leaves a job that is "running" for ever; its id is
  told to nobody.
- *up under another name*: the up route locks the name in the URL while
  `runDeploy` acts on the name in `hermes.toml`; `OneJobPerName` is about the
  former.

The cloud:

- *Half-made firewall* (`RollbackPrinciple` as an invariant of
  `MCCloudResources_cloud.cfg`): a GCP up that fails at its second rule leaves the
  first, because the names enter the ledger after the last one
  (gcp/provision.ts:107).
- *Second up on GCP*: what exists already is reused and enters the ledger
  (gcp/provision.ts:53-56, 160-163); if that up fails, its rollback deletes the
  address and the instance of the first. `AwsUpSparesExisting` is about AWS only.
- *Second up on AWS*: the design (docs/specs, line 559) reuses a colliding
  resource that carries our tags; the code always fails at the key pair, so after
  a crash before the record is written only an adopt and a destroy help.
- *Lost answers*: a resource whose create took effect without an answer is
  neither rolled back nor recorded (`CreateLost`). On AWS an instance lost in
  this way also keeps its group from being deleted, and the rollback stops there.
- *Adopt during an outage*: on GCP any failed get is taken for absence
  (`AdoptMisses`), so the record names less than there is.

The firewall:

- *A record that is never updated* (besides `net_rerun`): on GCP neither `update`
  nor `ssh` stores what it did to the ports rule. A rule deleted by an update is
  still in the record and the next update gets a 404; one that was created is not
  in it, stays open after the domain is removed, and destroy forgets it. `adopt`
  heals the record.
- *Ports of a new domain*: provisioning opens `inbound_ports` alone; 80 and 443
  are closed until the first update.
- *Rules made by hand*: the comment at aws/reconcile-network.ts:24 limits what is
  revoked to rules of this tool; the code revokes every single-port TCP rule that
  is not desired (`HandMade`, `ToRevoke`).
- *Two operators* (`NeverLockedOut` without the conjunct `calm`, `box`): two
  overlapping runs for two addresses each list, add their own SSH rule and revoke
  the other's, and nobody gets in.

The box and the dashboard's agent pages:

- *Jobs lost by a create* (`JobsKept` as a property of `MCBox_box.cfg`): a
  `jobs.json` that cannot be read, because the connection broke or another request
  closed the expired session, or that has the agent's own object shape, counts as
  an empty list; the new job replaces all of them. `EditsAreAtomic` excepts the
  first of these.
- *Two shapes of one file*: `reconcileCrons` wants an object with `jobs` and takes
  a bare list for no jobs; the routes want the list and take an object for none.
- *A session of two misses* (`OnlyCachedOpen` without `raced`): two requests over a
  cold cache both connect, and the first session is dropped from the cache
  unclosed.
- *Two writers of one skill file* (`SkillWhole` as an invariant of `MCBox_box.cfg`)
  share the `.tmp` sibling: both open it, the first writes a long text, the second a
  short one over its beginning, and the `mv` of either puts the mix in place for
  ever, although both requests are answered and agent-data-source.ts:244-245 says
  that readers never see a truncated file. One of the two can also report a failed
  `mv` although the file was written. `FilesWhole` excepts a file two had open.
- *A gateway left down* (`GatewayBack` as a property of `MCBox_box.cfg`): cron.ts:201
  says the gateway always comes back; the start goes over the session that may
  just have died, or exits non-zero over a live one (cron.ts:159-164, 202), and
  nothing tries again. The run then fails; `GatewayBroughtBack` says that this is
  the only way, besides a failed stop.
- *Overlapping builds* (`VerdictIsOwn` without `overlap`): the markers are shared,
  so while two builds are on the box one run can return the other's exit code, or
  wait 30 minutes for a marker the other removed.
- *Old list of another session* (`LiveIsOfSelected` as an invariant of
  `MCBox_box.cfg`): agent-api.ts:352-354 says the list is empty until the first
  message arrives; from one live session to another the old list stays.

The project files and the sweep:

- *CLI and dashboard* (a scene with `set` on both sides and no restriction in
  `AckedSecretsKept`): each reads, changes and replaces the file, so a secret
  that was acknowledged can be lost.
- *Two inits beside the dashboard* (`AckedSecretsKept` without `~hist.twice`): the
  first init finds no `secrets.env.enc` (bootstrap.ts:27) and is held up there; a
  second one, or an up, makes the file; the dashboard sets a secret and acknowledges it;
  then the first writes its placeholder over it (bootstrap.ts:28-31). sops, too,
  reads the file and replaces it later, so a command that is wrapping its
  placeholder has the same effect. `hist.twice` says that two commands were making
  the file at once.
- *Unlinks that fail* (`StrandedIsRecorded` and `SecretsOpen` without `~hist.fail`):
  destroy.ts:66-74 passes over a file it cannot remove and then removes the record.
  The key gone and the secrets left, no key opens them and no record names them;
  the next init makes a new key beside them.
- *PUT of the default profile* (not modelled): routes/config.ts:14-16 always writes
  `config.yaml`, whatever `hermes.config_file` names.
- *The age rail on AWS* (`SweepSpares` without the last two disjuncts): addresses and
  security groups carry no creation time (e2e-sweep.mjs:27-43), so the sweep takes
  the group of a test that has just begun, before its instance is launched, and its
  address until it is associated: provisioning waits for the instance to run first,
  up to 300 s (aws/provision.ts:113-141), while e2e-sweep.mjs:291-319 asks for
  no age and releases every address without an association.

## 4. The proofs

The theorems below hold for every value of the constants: any number of
processes, requests, resources, rebuilds or tests, any bounds on failures and
crashes. Each proof module begins with its invariants; every lemma named
`...Step` or `Next...` is the preservation of one of them, with a step for each
action. `PROJECT.json` lists the theorems with the properties of the runs they
state. The assumptions on the constants (`...Assumption` in each module) say that
names that stand for "none" are not among the real ones and that bounds are
numbers; TLC evaluates them in every run.

| Module | Proves |
|---|---|
| `StateStoreProofs` | `TypeOK`, `MutualExclusion`, `DurableIsCommitted`, the refinement of `AtomicStore` |
| `ConfigSyncProofs` | `TypeOK`, `RecordedIsRunning`, `UpToDateIsTrue`, `SuccessDelivers`, `ProfilesSynced`, `DnsTracked`, `NoOpRerun` |
| `DashboardJobsProofs` | `TypeOK`, `OneJobPerName`, `LockLeaksOnlyByUpgrade`, `StreamGapFree`, `WatcherHasVerdict` |
| `CloudResourcesProofs` | `TypeOK`, `DestroyInOrder`, `AwsUpSparesExisting`, `RollbackLeavesSshRuleOnly`, `DestroyResumes`, `AdoptTracksAll` |
| `AgentRoutesProofs` | the lemmas about requests, sessions, the lock and files that `BoxProofs` puts together |
| `BoxProofs` | `OneEditor`, `EditsAreAtomic`, `FilesWhole`, `OnlyCachedOpen`, `VerdictIsOwn`, `GatewayBroughtBack`, `NetworkConverges`, `NeverLockedOut`, `TypeOK`, `ReconcileDelivers` |
| `ProjectFilesProofs` | `TypeOK`, `AckedSecretsKept`, `StrandedIsRecorded`, `SecretsOpen` |
| `SweeperProofs` | `SweepSpares` |

### `StateStoreProofs`

- `TypeCorrect`: `Spec => []TypeOK`, with `CallHasUpdate` as the strengthening
  (a process inside `update()` has a mutation).
- `Exclusion`: `Spec => []MutualExclusion`, from `LockInv`: the processes between
  acquire and release are exactly the owner of the lock. First use included.
- `Durability`: if `state.toml` exists, `Spec => []DurableIsCommitted`, from
  `StoreInv`, which ties the file, the newest backup, and what the lock's owner
  has read: an intact file says what is committed; a torn one has an intact
  newest backup that does; from `Read` to `Truncate` the owner's snapshot and
  the file agree; from `Backup` on the newest backup agrees too. Mutual exclusion
  alone is not inductive for this: it says nothing of what the owner has read.
- `Atomicity`: if `state.toml` exists, `Spec => ImplementsAtomicStore`: initial
  states map to initial states, and every step is a step of `AtomicStore` (the
  end of a write) or a stutter.

The assumption that the file exists is needed: without it two first invocations
lose an update, as section 3 says.

### `ConfigSyncProofs`

`TypeCorrect` has no hypothesis but `SyncAssumption` and `HashAssumption` (the
placeholders stored before the first hash are not hashes). Its strengthening
`Control` says which steps each command has and what it has loaded by then.
`DepInv`, used by all others, says that what an update has read of the record is
still there, part by part, until the update itself changes it.

The other theorems need conditions on what may fail and be edited, each of which
section 3 shows to be necessary by naming the behaviour that it excludes:

| Theorem | Condition | A run with such constants |
|---|---|---|
| `RecordedIsWhatRuns`, `UpToDateIsNeverWrong` | `CarefulBuilds`: no edit during a run, `nix_extra` is not taken back, an update does not fail between activation and recording, nor, where there are upgrades, with new files in `/etc/nixos` that are not activated | `sync_build`, `sync_side` |
| `SuccessIsDelivery` | `CarefulBuilds` and `FreshRules`: an up never meets rules of an earlier one that have changed since | `sync_side` |
| `SuccessSyncsProfiles` | `CarefulProfiles`: no edit during a run, an update that uploads profiles comes to record them; the property itself leaves out a renamed document | `sync_side` |
| `DnsIsTracked` | `CarefulDns`: no second up, no failure between a DNS change and its recording | `sync_build` |
| `SecondUpdateIsNoOp` | `PlainProject`: no edit during a run, no profile, no upgrade | `sync_build` |

The rest of the failure points, drift, unhealthy services and repeated and failed
runs of every command are in. `BuildInv` is the core: what is recorded is what
runs, and where the two may differ (`Staging`, `Unrecorded`, `StagedIsRunning`)
the invariant says what the files in `/etc/nixos` are and which step will put it
right. `UpToDateIsTrue` is inductive only with `HashesAgree`: a recorded
configuration hash and a recorded Nix hash are of the same project. `DeliveryInv`,
`ProfileInv`, `DnsInv` and `RerunInv` relate, for each step of a run, what is
already on the box, in the zone or in the record to what the run has loaded.

### `DashboardJobsProofs`

- `TypeCorrect`, with `Capped` as the strengthening: only a job that has ended
  may be past the cap, so the uncapped append of `fail()` happens at most once.
- `SingleFlightExcludes` and `OnlyUpgradeLeaks`, from `LockInv`: a running
  orchestrator holds the lock of its name, and a lock without one is an
  upgrade's. Exclusion alone is not inductive: it does not say that a free lock
  means no orchestrator.
- `StreamsAreGapFree`, from `StreamInv`: the buffer of a job and what each
  watcher was sent are both the end of the job's log, all of it while shorter
  than the cap. `AppendRecent` and `ShiftedRecent` say that the two ways of
  adding an event keep this.
- `WatchersLearnVerdict`, from `VerdictInv` (the log of a job that ended ends in
  its verdict) and `StreamInv`: who holds the end of a log holds its last event
  (`RecentEndsIn`).

### `CloudResourcesProofs`

- `TypeCorrect`, with `Creating` as the strengthening: a create is at a step its
  plan has.
- `DestroyForgetsInOrder`, from `ForgetInv`: whatever the record names and still
  exists is in the ledger of the destroy under way, and nothing of it exists once
  the deletes are over. The action property alone says nothing of the ledger.
- `UpSparesExisting`, from `SpareInv`: what existed before an AWS up is not in
  its ledger, because a key pair that exists stops the up and every other id is
  newer (`MadeIsNew`).
- `RollbackIsClean`, `DestroyCanResume` and `AdoptIsComplete`, from `FateInv`, which
  joins the above with what every command may assume of what the ones before it
  left: an up has made exactly the steps of its plan so far (`UpInv`); on GCP
  there is one resource of a kind (`KindInv`); a record that names a group names
  the instance that uses it (`Whole`, in `NameInv`); without a crash or a lost
  answer everything that exists is in the record or in the ledger under way, and
  was made by one up (`CleanInv`). None of the three properties is inductive
  alone: whether a destroy can be resumed depends on how the adopt, several
  commands earlier, has put together the record. The lemma `Effects` is one
  summary of what each action does to `run`, `live` and `record`, so that the
  proofs of the smaller invariants need not expand every action again.

### `AgentRoutesProofs` and `BoxProofs`

`BoxInv` is kept by every step of every party (`BoxSafe`): the dashboard's
invariants, preserved by its own steps (`AgentRoutesProofs`), and the proof that
the scheduler, a reconciliation, rebuilds, the page and the firewall commands do
not disturb them (`BoxProofs`).

- `OneEditorAtATime`: the lock is a chain of promises, each request waiting for
  the one before it. `LineInv` makes the chain a sequence: there is a list of all
  requests in line, without repetition, each `after` the one before, of which only
  the first is in the lock, and whose last is in the table. That at most one is in
  the lock is not inductive without it.
- `EditsDoNotMix`, from `EditInv` and `UploadInv`: from the read to the `mv` the
  editor's snapshot is the file, and the `.tmp` sibling is its own and whole. It
  needs `OnlyDashboard`, the hypothesis of the property itself.
- `FilesStayWhole`, from `SkillInv`: a skill file, or its sibling, that is not whole
  has an upload with that file open, or two have had it open at once.
- `NoSessionIsLost`, from `LinkInv`: while no two misses have met, nothing but the
  cached session is open, nothing at all while a call connects, and one connects
  at a time.
- `RebuildVerdict`, from `RebuildInv`: a run alone on the box since its start finds
  no marker but its own once its command has removed what was there.
- `GatewayComesBack` is an action property of each step of a reconciliation: none but
  the stop and the start can end the run with the gateway down.
- `NetworkSafe`, `RulesConverge` and `OperatorKeepsAccess` are about `NetworkSpec`
  alone. `NetBalance`: while nobody else changes the rules, those in force and the
  calls still to make add up to the rules asked for. `NetCalm`: what is asked for
  is in force, or about to be, before anything is revoked. They assume
  `ByHandAssumption`, that the rules the operator makes by hand are rules.
- `BoxRunsNetwork`: a scene of the box implements `NetworkSpec`, so that the last
  two hold on a box that others work on (`BoxRulesConverge`, `BoxKeepsAccess`).
- `BoxTypes`: `Spec => []TypeOK`, from `TypedInv`. The types are not inductive in the
  plain form: what a filter or an append returns is a list of jobs, but that the
  next reconciliation's plan is about one job per id needs `JobLists`, the lists of
  jobs without an id twice, in the file, in the scheduler's copy, in every `.tmp`
  sibling and in what each request has read and is about to write.
  `JobIdsStayDistinct` states this of the file and of the scheduler's copy.
- `ReconcileDeliversAll`, from `ReconcileInv` (in `TypedInv`). While nobody else
  touches the file, what is left of the plan `Leads` from the jobs on the box to the
  declared ones: a job that no command is still to remove has a declared name, no
  other has it, and its body is the declared one or an edit is to come; a declared
  job is there or a create is to come; and no remove or create comes twice.
  `PlanLeads` says it of a whole plan, `LeadsRemove`, `LeadsCreate`, `LeadsEdit` and
  `LeadsSame` of what is left after one command, and `LeadsThere` that with nothing
  left the box is as declared and the next plan is empty. `Settles` is the same for
  the pauses and resumes. The property alone speaks of the last step only; a
  remove that took a second job of its id with it, or a plan with two creates for a
  name, would break it several commands later.
- The lemmas `RankIs` and `PickedIs` say what `Picked` returns without induction on
  the list: ranks number the positions picked, so the result has each of them once,
  in their order. `SelectSeq` is recursive, and nothing can be proved of it here.

Three assumptions are about the box. `SceneAssumption`: a scene begins with a whole
`jobs.json` without an id twice, which is what the agent leaves there.
`BoxAssumption`: there is an id, a name and a body. `ReconcileAssumption`: the
bound of lost connections is a number.

### `ProjectFilesProofs`

- `TypeCorrect`, with `PlaceInv`: which steps each operation has, and who may run
  which.
- `AckedIsKept`, from `KeptInv`: whoever is about to replace the file has read what
  is in it, what a request is about to acknowledge is in it, and while a command
  is making the file (`BootPcs`) it is the only one and the file is not yet cipher
  text, so that no writer of secrets is at work. An earlier attempt
  at this proof failed for a reason: the property did not exclude a CLI `destroy`,
  which can remove the file between the rename and the acknowledgement of a
  request, and no scene of the run has both. `AckedSecretsKept` now has the
  condition.
- `StrandedHasRecord`, from `RecordInv`: while there is no record, nothing is
  encrypted for another key than the one that is there, and nothing will be
  (`Ready`: who is about to write a key finds none, and who destroys has a record
  until the end). Crashes are in.
- `SecretsStayOpen`, from `OpenInv`: outside of the steps in which init writes and
  destroy removes the files, the key, `.sops.yaml` and the cipher text agree or
  there is neither rule nor secret. It uses `AloneInv`, that operations that make or
  remove keys overlap with no other unless the history says so.

### `SweeperProofs`

`OnlyLeaksAreSwept`, from `SweepInv`: only what is left by a test that is over or
crashed grows old, so what is listed by its age stays a leak until it is deleted,
and what is listed without a date is an address or a group on AWS, which the cloud
does not delete while it is in use: the exceptions of the property are those two
before they are.

### Model-checked only

- Liveness (`LockReleased`, `Answered`, `PageCatchesUp`, `LeaksSwept`): fairness and
  `ENABLED` are out of the prover's reach.
- The bounds on buffers, retries and crashes are not used by any proof but those of
  the types of the counters they bound: they end the runs, not the arguments.

## 5. Plan

Done: all modules of section 2 and the proofs of all safety properties of section 3.
What can still be proved:

1. `ConfigSync` with weaker conditions: `RecordedIsRunning` with uploads that fail
   beside upgrades, as long as no edit is taken back.
2. The refinement of an abstract job list by the dashboard's routes, of which
   `EditsAreAtomic` is the step relation.

What can still be modelled: the caches of the update checks, and a composition
of `DashboardJobs` with the name in `hermes.toml`.

Not modelled, and why: domain checks and read-only commands change no state; the
dashboard's start and its token test keep none; terminals and log streams are
byte streams; the interfaces other than the sessions page are rendering; the
texts of the generated Nix files and the validation of single fields are not
properties of a state. A restart of the dashboard forgets the jobs, the locks and
the session cache at once and is left out: what it leaves on the box is what a
broken connection leaves there.
