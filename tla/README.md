# Clash Verge Rev: TLA+ models and proofs

Clash Verge Rev is a Tauri application that supervises a mihomo proxy core. Its
Rust backend (`src-tauri/src`, `crates`) starts and stops the core, either as a
child process (a *Sidecar*) or through a privileged *Service*, points the
system proxy at it, keeps the configuration in draft layers that several tasks
edit at once, and updates remote profiles on a timer. All of that is
asynchronous: tokio tasks, locks held over awaits, generations that are read
before an await and compared after it.

This directory specifies the backend's own control, checks it with TLC on small
instances, and proves the most important properties with TLAPS for every value
of the constants.

Paths below are relative to the repository root.

## Contents

1. [The system](#1-the-system)
2. [Modules](#2-modules)
3. [What each model says, and how it corresponds to the code](#3-what-each-model-says)
4. [Runs, bounds and fairness](#4-runs-bounds-and-fairness)
5. [Proofs](#5-proofs)
6. [Where code and documentation disagree](#6-where-code-and-documentation-disagree)
7. [What is not modelled](#7-what-is-not-modelled)
8. [Plan](#8-plan)
9. [Running the tools](#9-running-the-tools)

## 1. The system

### Components

| Component | Where | State | Operations |
|---|---|---|---|
| Run State store | `core/runstate` | Service health, pending action, Sidecar allowance, observation number, operation flag | observe, reserve and commit a reading, request an action, allow, restore, withdraw a Sidecar, begin an operation, `settled` |
| Draft layers | `crates/clash-verge-draft`, `feat/executor.rs` | per layer: committed value, draft, claim flag, modify permit | `edit_draft`, `apply`, `discard`, `DraftTransaction`, `with_data_modify` |
| Core lifecycle, owner monitors | `core/manager`, `core/service.rs`, `feat/window.rs` | `lifecycle_lock`, running mode, readiness generation, child and exit handles, owner generation and session | start, stop, restart, re-apply the proxy, quit, relaunch, hand over to a Sidecar, uninstall or reinstall the Service; notice a lost Service or a dead Sidecar |
| System proxy and guards | `core/proxy_control.rs`, `core/sysopt.rs`, `core/network_watch.rs` | guard generation, `operation_lock`, local guard, failure notice, the operating system's setting | apply, clear, refresh the guard, stop it; enforce |
| Automatic updates | `core/timer.rs`, `feat/profile.rs`, `config/profiles.rs`, `cmd/profile.rs` | cached schedule, `refresh_lock`, command channel, delay queue, tasks | init, refresh, expire, update, finish; patch and delete a profile |
| Configuration update | `core/manager/config.rs`, `config/config.rs`, `core/validate.rs` | update flag, runtime layer and its draft, run file | generate, validate, write, reload or replace, retain or drop, restore |
| Profile commands | `cmd/profile.rs`, `cmd/save_profile.rs` | switching flag, `PROFILE_WRITE_LOCK`, the profiles and their files | switch, delete, save, each with its way back |
| Selected nodes | `config/profiles.rs`, `cmd/proxy.rs` | activation generation, chain of tasks, recorded nodes | activate after a start or a switch, repair records, pick, forget |
| Patches, ports, DNS | `feat/executor.rs`, `feat/effects.rs`, `feat/listener.rs`, `feat/dns.rs`, `config/port.rs`, `config/mixed_port.rs` | the three layers, their files, `CONFIG_WRITE_LOCK`, the borrowed port, PAC | patch with ordered effects and a rollback, save ports, DNS override, mode, start on another port |
| Profile enhancement | `enhance` | none: a function of the layers and the profile's items | merge, scripts, clean-up, TUN, DNS |
| Runtime bundle, provider synchronisation | `core/runtime_bundle.rs`, `core/service.rs`, `core/manager/config.rs` | the files of the Service's core, published copies, request queue | stage, reload or replace, copy caches back |
| Core upgrade | `feat/core_upgrade.rs` | managed core, rollback link, approved copy | download, publish, restart, roll back |
| Application update | `core/updater.rs` | cache, cancellation token | check, download, verify, install, cancel |
| Ownership, launch, singleton | `core/owner_identity.rs`, `utils/server.rs`, `lib.rs` | data directory, lock, record, token | repair, lock, bind, hand over, leave |
| Backup | `core/auto_backup.rs`, `core/backup.rs`, `feat/backup.rs` | archives, schedule, WebDAV client | scheduled and triggered backups, clean-up, restore |
| Lightweight mode and windows | `core/lightweight.rs`, `utils/window_manager.rs` | mode word, timer and its cancellation, the main window | enter, leave, show, hide, toggle, destroy |
| Latency monitor | `core/latency_uptime.rs` | wake channel, results of the current profile | load settings, scan, sleep, refresh, clear |
| Hotkeys | `core/hotkey.rs`, `lib.rs` | recorded list, what the system holds | init, update, reset on focus |
| Tray | `core/tray`, `cmd/proxy.rs` | menu, icon, tooltip, flags of the window's loop | redraw after a change, synchronise |
| Running mode and PAC flag, notifications, support crates, frontend, packaging | see section 7 | | |

### Interactions

* A lifecycle command runs under `lifecycle_lock`. It decides between Service and
  Sidecar from the Run State store (health, pending action, allowance), publishes
  the running mode and its readiness, spawns the owner monitor or the drain of the
  child's output, and calls the proxy component to take the proxy off or put it on.
* Owner monitors, core-log readers and drains do not hold the lock. They find out
  that a core is gone, capture a generation, and queue for the lock.
* The proxy component asks the running mode for its route (Service or local) and
  the captured session for its proof; its guards run beside everything else.
* `executor::apply` claims the draft layers a patch names, stages, runs effects
  (of which the system proxy is one), and commits or drops.
* The timer reads the profiles layer and sends its schedule through a channel; an
  update ends in `with_data_modify` on that layer; the commands that change a
  profile refresh the timer.
* Every configuration for the core is generated by `enhance` from the three
  layers, taken by the one flag of `core/manager/config.rs`, staged for the
  Service by the runtime bundle, and followed by an activation of the saved nodes
  and a request to copy provider caches back.
* A patch ends in calls to hotkeys, tray, lightweight mode, latency monitor and
  automatic backup, none of which answers: each keeps a state of its own in step
  by a lock, a channel, a generation, or nothing.

### Hard behaviour, and what makes each component correct

* **Run State store.** Readings cross awaits, so an old one may arrive after a
  newer fact. Correct: an overtaken reading changes nothing; the question to the
  user and the Sidecar allowance exclude each other; an operation that failed
  leaves no question behind; an allowance never hides a ready Service; no caller
  of `settled` sleeps for ever.
* **Draft layers.** Transactions over several layers run layer by layer.
  Correct: claims are exact also after a refusal halfway; a transaction
  publishes on all of its layers or on none; nobody finds another one's draft;
  no deadlock whatever the order of the layers; an asynchronous modification
  loses no edit and no wake-up.
* **Core lifecycle.** A stop can fail at four places after it cancelled the
  monitors; a child can die during its own start or after its successor's; a
  recovery can be overtaken. Correct: at most one Sidecar lives, a core the
  Service runs always has a watcher, a recovery ends only a lost session, a
  command stops the core only after it took the proxy off, every command ends.
* **Proxy and guards.** A guard can have passed its checks when a final write
  arrives, a drain can time out with a write in flight, a failed write has to
  restart what it stopped. Correct: no guard brings a replaced setting back; at
  most one guard enforces, and what the app last asked for; none outlives its
  core; a guard that gives up says so.
* **Automatic updates.** Refreshes overlap; a profile can be disabled, enabled
  or deleted while its update is in flight; an entry can fire beside a request
  to run now. Correct: one entry per armed task, one update per profile, the
  scheduler follows the cache and the cache the options, updates never stop.
* **Configuration update and profile commands.** A reload can be lost after the
  core took the file, a replacement can fail half-way or succeed with the proxy
  failing after it, a deletion can fail once the core already follows it, and
  each command undoes what it did to the profiles by itself. Correct: the core
  runs only what the validator let through; the runtime layer is what the core
  runs; a deletion commits only what the core follows; every command ends with
  its flags and locks dropped.
* **Selected nodes.** A task checks its generation after every await, and its
  request may land after a newer one. Correct: the newest activation leaves the
  core on the records; a record is repaired only after two looks and never over a
  newer pick; no activation, and no deletion that waits for one, waits for ever.
* **Patches, ports, DNS.** A patch fails after an effect replaced the core; a
  crash falls between two files; a port is borrowed, and given back, while
  settings that name it are staged. Correct: settings, generated configuration,
  files and core agree when nothing is under way; proxy and PAC name the port the
  core serves; what the application owns survives merges and scripts.
* **Provider synchronisation.** The core rewrites a cache in place while it is
  read chunk by chunk, through a session that may end. Correct: only whole caches
  of the live session and the committed configuration are published, never an
  older one over a newer; each request gets a pass; no temporary file stays.
* **Upgrade, update, launch, backup, restore.** Files are renamed, moved and
  replaced one by one, and any step may fail or be the last. Correct: there is
  always a core; what is installed was asked for, signed and not cancelled; one
  primary runs on all of the user's data; due backups are made and the newest
  kept; layers, files and credentials agree after a restore.
* **Lightweight mode, latency monitor, hotkeys, tray.** Handlers of several steps
  run in tasks that nothing orders. Correct: the mode means that there is no
  window and no timer takes one away from under the user; no wake of the monitor
  is lost; the system holds the keys of the record; the tray says what is the
  case.

`PROJECT.json` lists every hazard at its line, with the properties that would
catch it going wrong.

## 2. Modules

| Module | Models | Extends or instantiates |
|---|---|---|
| `RunState` | the Run State store, its operation task, `settled` | |
| `LayeredCommit` | abstract: publish on all named layers or on none | |
| `DraftLayers` | draft transactions and writers without a claim | instantiates `LayeredCommit` for the refinement |
| `DataModify` | `with_data_modify`, its permit and its notify | |
| `DraftLayersProofs` | eleven theorems about the two, the refinement among them | `DraftLayers`, `DataModify` |
| `CoreLifecycle` | core manager, owner monitors, log readers, Sidecar drains | |
| `CoreLifecycleProofs` | five theorems about it | `CoreLifecycle` |
| `ProxyGuard` | system proxy writes and guards on both routes | |
| `ProxyGuardProofs` | four theorems about it, nine about the window, the monitor, the hotkeys and the tray | `ProxyGuard`, `Interface` |
| `ConfigUpdate` | generated configurations on their way to the core; profile commands | |
| `ConfigUpdateProofs` | four theorems about it, five about backups and restores | `ConfigUpdate`, `Backups` |
| `AutoUpdate` | timer, scheduler, updates, profile commands | |
| `AutoUpdateProofs` | seven theorems about it, five about upgrades of the core and updates of the application | `AutoUpdate`, `Releases` |
| `SelectedNodes` | saved nodes: activations, repairs, picks | |
| `SelectedNodesProofs` | four theorems about it, two about launches | `SelectedNodes`, `Instance` |
| `Enhance` | how a configuration is made, as operators | |
| `Patches` | settings, their files, the borrowed port, PAC, DNS, a start and a crash | extends `Enhance` |
| `PatchesProofs` | four theorems about it and what it makes of `Enhance` | `Patches` |
| `RuntimeBundle` | which files a configuration asks for, as operators | |
| `ProviderSync` | staging for the Service and copying caches back | extends `RuntimeBundle` |
| `ServiceProofs` | seven theorems about `RunState`, three about `ProviderSync`, two about `RuntimeBundle` | `RunState`, `ProviderSync` |
| `CoreUpgrade`, `AppUpdate` | upgrade of the core, update of the application | |
| `Instance` | launches up to the primary one | |
| `AutoBackup`, `Restore` | automatic backups; restores beside other writers | |
| `Lightweight`, `LatencyMonitor` | lightweight mode with its window; the monitor | |
| `Hotkeys`, `Tray` | registered keys; menu, icon and tooltip | |
| `Releases`, `Backups`, `Interface` | what goes together of the last nine, side by side: upgrades and updates, backups and restores, what the user sees | `CoreUpgrade`, `AppUpdate`; `AutoBackup`, `Restore`; the other four |
| `MCMechanisms` | the last nine, one per behaviour | `Releases`, `Instance`, `Backups`, `Interface` |
| other `MC*` | constants of the instances TLC checks | the module after `MC` |

Definitions named like `StopAnyway`, `KeepLockOnTimeout` or `FinishWithoutArming`
and introduced by a comment that calls them a mutant are not part of any specification. Each is
a plausible mistake in the definition that follows it, and shows that a property
can fail. Where a run checks a conjunction, such as `StartsAreSafe`, more than one
of its parts has such a definition.

## 3. What each model says

`PROJECT.json` maps every definition to the lines it stands for. This section
gives the correspondence in prose, and names what each model abstracts.

### RunState

`health`, `pending`, `allowed`, `observation` are `StoredService` and its number
under one lock. `Observe`, `RequestAction`, `AllowSidecar`, `RestoreAllowance`,
`Reserve`, `CommitReserved` are the methods of the store. The one task that can
hold the operation slot is `op`, with a program counter through
`begin_operation`, the probe or the privileged helper, the reading after a
failure, `await_ready` and the drop of the guard, which clears the flag and
notifies in two steps. `Startup` detects the Service once. `waiter[w]` follows
`settled`: register, read the flag, wait. Everything else
that may write (`ReportHealth`, `AllowSidecarAfterRefusal`, `RequireInstall`,
`WithdrawAllowance`) is an action of its own, taken at any moment after startup
detection, which the window's creation awaits.

*Abstractions.* The `generation` counter and `announce` are left out: tests read
the one, the other sends a copy. `accept_sidecar` exists only under the feature
`dev-sidecar`. `apply_service_status` with a status that asks for nothing has no
caller. Of the snapshot that `settled` returns only the flag is kept. `overtaken`
is a history variable for the properties.

### DraftLayers and LayeredCommit

The value of a layer is the set of actors whose edit it contains, so a lost
edit, a foreign one and a partial commit are visible as such. `tx[t]` is the
phase of a `DraftTransaction` and the position in its list of layers: `Claim`
and `Unwind` are `begin`, `Stage` an `edit_draft` under the claim, `ApplyLayer`
and `ReleaseCommitted` `commit`, `DiscardLayer` and `ReleaseDropped` its `Drop`.
Each step touches one layer because each layer has a lock of its own.
`WriterEdit` and `WriterApply` are the callers that edit and apply without a
claim.

`LayeredCommit` is what the crate promises: a transaction publishes its edit on
every layer it names, one after the other, or on none. `DraftLayers` implements
it under the mapping `content <- txEdits` (what is committed, without writers)
and `fate` (the phase).

### DataModify

The committed value is a set of edits together with the identity of its `Arc`.
A modifier tries the permit, registers with the notify, tries again, parks;
inside, it copies the value, awaits the caller's future, compares the identity
and publishes; then it clears the flag and notifies, in two steps. The notify
keeps one permit, as tokio's does. An editor stages a draft and applies it
without the permit (`EditorEdits`, `EditorApplies`). The names differ from those of `DraftLayers` so
that one module can prove facts about both.

*Abstractions.* tokio wakes waiters in order; the model wakes any of them, which
allows more. Each modifier runs once, and its future is not cancelled.

### CoreLifecycle

Whoever holds `lifecycle_lock` runs one body, so the body is one program counter
`at` ("free" when nobody holds it). Every await of `stop_core_locked`,
`start_core_locked`, `apply_proxy_after_start` and their callees is a place; what
runs between two awaits is one action. `tasks` are the owner monitors of all
generations and the tasks that poll the Service's log, on their way through
`recover_after_owner_loss`; `drains` the tasks that read a Sidecar's output;
`SidecarDies` and `ServiceLost` are the environment. A hand-over to a Sidecar
(`continue_with_sidecar`, `uninstall_service_and_start_sidecar`) adds the places
`prepare`, `helper`, `unwind` and `unreap`: what fails after its point of no return
goes through `rollback_failed_sidecar_transition`. On Windows a start that the
Service does not make falls back to a Sidecar, and `handoff` brings that Sidecar's
core to the Service. `grants` numbers the sessions the Service hands out, `svc` is
what the Service itself believes. `scenario` is the platform with what each caller
may ask for; it is chosen at the start.

*Abstractions.* One boolean each for the system proxy and its guard (`ProxyGuard`
models what is behind them); the user always wants the proxy on; the guard's
drain timeout is part of the proxy write. `Settling` says that a monitor does not
look before the steps between `start_owner_monitor` and `core_started` are over:
no await lies between them and the monitor sleeps five seconds first. Tokens and
process ids are not reused, `Decide` chooses freely between Service and Sidecar
because the Service's health may change between the allowance and the decision,
the configuration write lock of the commands that hand over is left out (the
update flag keeps those two apart already), the readiness word does not wrap, the exit of a quit
coincides with the release of the lock. Of Windows' hand-over to the Service the
watcher's window, its one-at-a-time flag and `sidecar_allowed` are left out (it is a
command, asked for only while a Sidecar runs), as are the retries of a Service
start and occupancy by the core of another owner. A Sidecar may be spawned beside
a core the Service hides; that `reserve_sidecar` refuses this is one of the ways a
spawn fails.

### ProxyGuard

A job (an apply, a clear, a refresh of the guard, a stop of the core) is the
sequence `calls` of what its holder of `lifecycle_lock` has still to do; `step`
is the place in the first call. `Service` guards are records with the generation
and the session they captured, one per `spawn_service_guard`; the local guard is
the `GuardMonitor` of the sysproxy library, modelled from how `sysopt.rs` uses
it: `runs`, `stopping`, the target it enforces and the write it is in.
`operation_lock` is `lock`. `StagePatch` to `RollBackPatch` are the part of
`executor::apply` that the proxy sees. `asked` is what the app last brought the
setting to and `loose` says that this write did not wait for a guard that hung:
both are history variables.

*Abstractions.* `Sysopt`'s own locks are omitted because `lifecycle_lock` already
keeps its callers apart. A restart is a stop job and a start job. A patch begins
only while no job runs. The retries of a clear are one write. A guard that was
shut down counts as stopped although its last write may be unfinished (this is
an assumption about the library).

### ConfigUpdate

A caller runs one command: `job[c]` is its place, what it wants and what it
carries over its awaits. All updates go through the same actions: `TakeFlag` is
`try_start_config_update`; `Generate` puts a configuration into the draft of the
runtime layer; `Validate` judges the one serialisation that `WriteRunFile`
writes; `Reload` is `apply_config` with the Service's staging, by its outcomes;
`StopCore`, `StartCore` and `ApplyProxy` are the replacement, under
`lifecycle_lock`, by `restart_core_during_config_update` or
`replace_service_core_with_config`; `Settle` is `retain_applied_runtime` and the
end of the transaction. Around them, `AskSwitch` to `RestorePrevious` are
`patch_profiles_config`, `AskDelete` to `CommitDelete` `delete_profile` with
`update_config_forced_with_profiles` and its restore, `AskSave` to
`RestoreOriginal` `save_profile_file`, which takes neither the lock nor the flag
while it touches the file. `CoreEnds` is the environment.

A configuration is a pair: whose profile, and which text its file had. That is
enough to tell a stale, a foreign and an unvalidated configuration apart.

*Abstractions.* The core is what it runs (`CoreLifecycle` models how it is started
and stopped); a reload, a stop, a start, the proxy, the validator, the generator
and the writes may each fail at any time. The profile that follows a deleted one
is any other, not the first. A save matters if the profile is in use; merge and
script files of a profile count as part of it. Selected nodes, the
debounce of unforced updates and leaving the app are left out, the other holders of the flag
(patches, DNS, ports) are in `Patches`. `accepted` and
`unheard` are history variables.

### AutoUpdate

`refresh` is `LockRefresh`, `GenMap`, `PublishMap` (cache and send, both under
`refresh_lock`); the scheduler's two branches are `ReceiveApply`,
`ReceiveRunNow`, `ReceiveTaskFinished` and `Expire`; an update is a job that
starts (reading the options), fetches, lands through `Land` (the merge of
`update_item`) and reports. Commands patch in two steps, delete, refresh, or
update by hand.

*Abstractions.* Time: an armed entry may fire at any moment, so first delay and
interval are not told apart. `allow_auto_update` absent is `TRUE`, which is how
the code reads it. The download's three strategies, its retries, the core reload
after an update and every other option are left out. `announced` is a history
variable: the last change of the profile was made by a command that refreshes
the timer.

### SelectedNodes

`tasks[g]` is the activation of generation `g`: it waits for the one before it
(`ACTIVATE_SELECTED_TASK`), reads the committed profile, looks at the core,
selects node by node, looks a second time and saves its repairs through
`with_data_modify`, whose permit a deletion may hold while it waits for the first
task. Every step after an await checks the generation. `switch` is a switch or a
deletion with the switch back of one that fails, `users` the picks
(`record_selected_node`), `forget_selected_node` and `patch_profile` with a
selection. The core is the environment: it may answer late, fail, restart, or
change what a provider offers. `undisturbed` is a history variable.

*Abstractions.* Two passes of the settling loop stand for its deadline;
duplicate and nameless records are left out; the redrawing of the tray that ends
an activation is in `Tray`.

### Enhance

A configuration is a record with the fields the application writes, groups with
members and providers, the names of proxies and the targets of tunnels. The
stages are operators in the order of `enhance`: the profile's own items, the
application's fields, global merge and script, the profile's, built-in scripts,
the clean-up of groups, TUN, DNS, and `Enforce`, which takes back what a user's
merge or script wrote over fields the application owns. A script is the writes and
removals it comes to, or one that fails.

*Abstractions.* Rules, the order of keys, the syntax of scripts, what a node is
made of, and the overrides of hysteria2 nodes.

### Patches

Three layers with a draft each, the three files that keep them, the core's
configuration, `CONFIG_WRITE_LOCK` (`op`) and the update flag (`updating`).
`op` runs one of: a patch (`executor::apply`: claim, snapshot, stage, effects in
order, save, commit or roll back), a save of the ports (`listener.rs`), setting or
clearing the DNS override. Beside it a reload that holds no lock, a change of mode
(`change_clash_mode`, neither lock nor claim), another program on a port, and an
edit of the profile. `phase` goes through a start: TUN reconciliation, the port
resolved or borrowed, generation, `sync_dns_override`, the core, a retry on another
port. `drift` is a history variable with the reasons for which files, settings and
core may differ, each a place in the code and each an exception of one conjunct of a property:

| Reason | What happened | Until |
|---|---|---|
| `ahead` | a patch or an override rolled back after the core took its runtime (`retain_applied_runtime`) | the next update the core takes |
| `stayed`, `astray` | a port change was rolled back and the old core could not even be stopped to be replaced | the next restart the core takes (`stayed`: or a reload) |
| `crossed` | a reload generated from settings that were staged, or a mode change committed them | the next start |
| `unsaved` | a file could not be written, or not put back | the next start |
| `unsynced` | a retry on another port generated after the start's `sync_dns_override` | the next synchronisation |
| `overtaken` | the override was settled in the settings while a runtime generated before was on its way to the core | the next save of ports or of the override |

A configuration is kept as what it was made from (`Runs`); `ConfigOf` says what `Enhance`
makes of that, with the mode a core was told since. `Clashes` is the set of clash settings that
may come about: the assumptions ask that it has the default ones and is closed under patches,
port choices and modes, that each has the control keys of `IClashTemp::template`, and that
patches name no ports (they are saved by `listener.rs`) and no DNS override (set by `dns.rs`).

*Abstractions.* How a core takes a configuration is one of four outcomes
(`ConfigUpdate` has the detail). The additional restart on Linux when TUN is
switched on is left out; so are patches with `persist` false,
patches of ports through the settings (`listener.rs` is the way), `change_core`,
the validation of `verge.yaml` and the guards on the ranges of ports. Commands of
the user begin once the start is over.

### RuntimeBundle and ProviderSync

`RuntimeBundle` says which files a configuration declares, where they lie, when
two declarations conflict and how `resolve_provider_path_conflicts` renames.
`ProviderSync` keeps the session, the lifecycle lock, what the Service's core has
written (`svc.files`), what was published (`app`) and the temporary copies. A task
takes its place in the queue (`PROVIDER_SYNC_QUEUED`, `PROVIDER_SYNC_SERIAL`),
waits for the lock, collects the caches, reads each by chunks, verifies it against
a second status, writes beside the target, renames; it retries a bounded number of
times. An update stages, reloads or replaces the core, commits the runtime or
restores. The core rewrites its file in place, truncating first, and reports loads.

*Abstractions.* A cache is its stamp and whether it is whole; sizes, checksums and
the allowance for the granularity of timestamps are left out. Geo databases are
declared but their copying is not modelled.

### The nine mechanisms of MCMechanisms

They share no state. `part` is chosen at the start, and one part's actions run.
The `VIEW` of the configuration is the variables of that part: the others never
change. `r1` and `r2` are alike (the `SYMMETRY` of the configuration): two upgrades, two restores, two
callers of the tray. `r3` is the caller with which the tray's start begins.

* **CoreUpgrade.** A file is the version it holds. An upgrade is its place from
  `UPGRADE_LOCK` to the report; every operation on a file, every call to the Service
  and every start may fail; the application may be killed between any two; the
  core may die. On Windows publishing takes two renames, elsewhere one. `apart`
  records the causes for which managed core and approved copy may differ.
* **AppUpdate.** Two installs with one token slot (`manual_cancel`), a cache with
  what its record says and its bytes, several sources of which the last may work, a
  cancel at any point. Bytes are the version they are signed for, or forged.
* **Instance.** Two launches over `root` and `<root>.stale-<pid>`, each entry with
  its place; owner, lock file, record and token as in `repair_root_owner`,
  `open_instance_lock` and `check_singleton`; Windows' rules for renaming.
* **AutoBackup.** Settings reach the scheduler by a watch channel; a maker is the
  scheduler or a trigger, from its request through `exec_lock` to the clean-up;
  time is counted in units; backups by hand share the directory.
* **Restore.** Files and layers by name with the number of the write they come
  from; two restores, local or WebDAV, under `PROFILE_WRITE_LOCK` and the configuration lock,
  among patches, imports, deletions and a save of the credentials; the cached WebDAV client. Two
  writers of the profiles exclude each other by the modify permit, which no restore takes.
* **Lightweight.** The mode word (`lightMode`) with its compare-and-set and the unconditional
  store after it, the timer and its cancellation slot, listeners, the limiter, a window
  from its build to its destruction (`task`, `slot`). Two users enter, leave, show, hide and toggle.
* **LatencyMonitor.** The loops of `run`, a wake channel with one place, settings
  loaded from layers that may be staged, a scan of the nodes the core lists.
* **Hotkeys.** Startup, handlers of focus and blur as tasks of their own, and
  a patch's `update` by the difference to the record; a key another application
  holds fails to register.
* **Tray.** An update reads, waits for the core, and replaces; callers change what
  is shown and start their updates; an activation redraws if nothing superseded it;
  the window's requests go through `TRAY_SYNC_RUNNING` and `TRAY_SYNC_PENDING`, and a loop that
  stopped looks at the second one once more. Three callers and three events, so that a loop that
  stops can meet the next one with a request beside both.

*Abstractions.* `Hotkeys`: what a hotkey runs, and a change of the setting while
the window has no focus. `Tray`: updates skipped while leaving, a missing tray,
the click limiter (a click that gets through is a change), the traffic text, the
dependence of icon and tooltip on what the Service can do, and a profile that is
staged only. `Lightweight`: the reload of a
page whose renderer ended on macOS; listeners are bound to the window's label and
survive it. `AutoBackup`: the first refresh of `init` racing a patch. `Instance`:
access control lists.

## 4. Runs, bounds and fairness

Twelve runs; eleven pass, one shows a disagreement (section 6). Passing runs use
`CHECK_DEADLOCK FALSE` because a bounded system stops when its callers are done.
A property of a run may be the conjunction of named parts (`AcceptedRuntimeRuns`,
`SettingsAgree`, `UpgradesKeepWorking`), each with its own comment in the module.
What is a theorem for every value of the constants and adds nothing on a small
instance (the type invariants of the proved modules, `StaleOnlyByEditor`) is not
repeated in the runs. In every passing run each action and each disjunct of the
next-state relation is taken.

| Run | Instance | Shows |
|---|---|---|
| RunState | one reason, two waiters, `MaxObservation` 6; 146,700 states | `DecisionsAgree`, `StaleReadingDiscarded`, `SettledReturns`. After the startup detection, privileged operations that succeed, fail or are overtaken by other writers while their own reading is awaited: no stale reading lands, no question of an ended operation stays, no ready Service is hidden behind an allowance, and two callers of settled lose no wake-up. |
| DraftLayers | four layers, three transactions, one writer on a layer of its own; 4,944 states | `LayersAreOwned`, `Implements`, `EveryTransactionSettles`. Three transactions that name overlapping layers in different orders, each of which may be refused, fail between two edits or commit, beside a writer that edits and applies the profiles without a claim: claims are exact, the commit is all-or-nothing and nobody waits forever. |
| DataModify | three modifiers, one writer; 21,818 states | `SleepersHaveAWaker`, `ModifyKeepsOthers`, `EveryModifierReturns`. Three asynchronous modifiers and a writer that stages and applies a draft: modifiers do not fail for each other, an Ok answer loses nobody's edit, no sleeper is left without a waker, and under weak fairness each modifier gets its answer. |
| CoreLifecycle | six scenarios: Linux with every command against three, restarts on macOS, a restart with a handoff or a stop on Windows; on each a smaller one with a reader; 278,931 states | `NoCoreLeftAlone`, `StopsClearTheProxy`, `OnlyDeadSidecarsCleared`, `RecoveriesEndLostSessions`, `CommandsFinish`, `ServiceLossIsNoticed`. Two commands of any kind on Linux, restarts on macOS and a restart with the handoff or a stop on Windows, with the owner monitors they start and cancel, a log reader, Sidecars that die and a Service that is lost: whatever holds or waits for the lifecycle lock, sessions, monitors, processes and the guard stay in step with the running mode, every command ends and a lost Service does not stay the running mode. |
| CoreLifecycleQuit | Linux, a start, then a stop or a quit | `QuitsOnlyStopped`. **Violated.** A quit whose stop fails. |
| ProxyGuard | macOS, two targets, three settings, two failures, three jobs; 837,711 states | `NoStaleTarget`, `GuardsAgree`, `GuardsRestore`, `JobsFinish`. Up to three starts, stops, losses, network changes and proxy patches on macOS with guards of both kinds, drains that time out, partial writes and requests in flight: who rewrites the system proxy, with what, and for how long. |
| AutoUpdate | one profile, two callers, two keys, two intervals, four options; 344,244 states | `QueueServesOneUpdate`, `ScheduleFollowsOptions`, `KeepsUpdating`. One profile under every two commands of a user (patches with four kinds of options, deletion, manual update, refresh) before, during and after init: queue, tasks, cache and options stay in step, one update at a time, and again and again. |
| ConfigUpdate | two profiles, two callers, all five commands; 160,436 states | `AcceptedRuntimeRuns`, `EveryCommandReturns`, `DeletionsMoveTheCore`. Any two commands that switch, delete or save a profile, generate anew or restart, each step of which may fail, over a core that may end: the core runs only what was validated, the runtime layer says what it runs, a deletion commits only what the core follows, and no lock or flag is left behind. |
| SelectedNodes | two profiles, two groups, two nodes, one command, `MaxGeneration` 3, one round, one change by the core; 427,698 states | `RestoredAgrees`, `RepairsAreConfirmed`, `ActivationsEnd`. A user who picks, forgets or patches a selection, a switch or a deletion of a profile, restarts of the core and a slow provider, any request of which may fail: the newest undisturbed activation leaves the core on the records, a record is only repaired after two looks and never over a newer pick, and no activation or failed deletion waits for ever. |
| Patches | four ports, two texts of the profile, four patches, two choices of ports, one mode; two commands, one failure, one port taken, one crash or quit; 590,267 states | `ConfigurationHolds`, `SettingsAgree`, `NamedPortIsServed`, `OperationsEnd`. Two commands of the user among patches, a save of the ports, the DNS override, a reload, a restart and a change of mode, over two texts of the profile, with a port another program takes, one step that fails and one crash or quit with the start after it: what is committed is what the core runs, the ports it serves are the ones the proxy names, nothing the user wrote moves what the application owns. |
| ProviderSync | two sets of providers, two tasks, `MaxAttempts` 2, `MaxStamp` 3, two sessions, one update, one request, one failure; 2,028,984 states | `OneSourcePerCache`, `TemporaryFilesGo`, `PublishedCachesAreSound`, `RequestsAreServed`. Two synchronisation tasks, an update to another profile that is reloaded, replaced or refused, a core that rewrites its file in place and reports loads, a Sidecar, one lost session and one failure anywhere: only whole caches of the live session and configuration reach the app directory, never an older one over a newer, every request gets a pass, no temporary file stays. |
| Mechanisms | two upgrades, installs, launches, restores, users and timers, three callers of the tray; one to three changes and up to three failures of each; 3,303,882 states | `UpgradesKeepWorking`, `StartsAreSafe`, `BackupsAgree`, `InterfaceFollows`. Nine mechanisms that share no state, one per behaviour: two core upgrades and two application updates, two launches on a data directory of this or another account, automatic backups, two restores among the writers of what they restore, lightweight mode with its timer and windows, the latency monitor, the global hotkeys and the tray. |

Why the bounds are enough:

* `MaxObservation = 6` leaves room for an operation with both of its readings, a
  startup reading and two more writes between them: every pair of writes meets
  every stage of a reading. Beyond the bound nothing new starts, but what runs
  ends.
* Three transactions over overlapping layers in three orders include every
  pairwise overlap, a refusal after a partial claim and a claim on a layer that
  is being released. The fourth layer belongs to a writer.
* Three modifiers let one hold the permit, one sleep and one arrive between the
  flag and the wake-up, which is the window the notify has to survive.
* `CoreLifecycle`, two callers: one body under the lock and one queued behind it.
  One reader: with the monitor there are two tasks that compete to recover. Several
  generations of monitors live at once in any case. One run has an initial state
  per platform and per choice of commands; a reader multiplies the interleavings,
  so it polls beside a restart and a stop.
* Three jobs: enough for a guard of one job, its replacement, and a stop; two
  targets tell a stale one from the current one. Two failures before stopping
  stand for the three of the code: a first that is forgiven, a last that is not.
* Two callers of `ConfigUpdate` meet in any two places of their commands, one of
  which may hold the flag, the write lock or neither. With two profiles one can be
  switched to, deleted or saved while the other is in use, and none is left when
  both are deleted.
* One profile suffices for the scheduler's properties because its tasks do not
  interact except through the channel; two callers overlap two refreshes, and
  together with init there are three. An instance with two profiles and two
  options was checked too (2.87 million states, the same properties).
* `SelectedNodes`: three generations are the activation under way, the one that
  supersedes it and the one that waits for both; two groups tell a group whose
  record was repaired from one whose record was not, one of them with a provider.
* `Patches`: two operations and one failure meet everywhere; one of the two texts of the profile
  writes fields the application owns, the other none. Four ports: one below the
  range that may be borrowed, the chosen mixed and socks ports, one that is free.
* `ProviderSync`: two tasks are the one that runs and the one queued behind it (a
  third is refused); three stamps are a cache published, one being written and one after a
  reload; two sessions are the one lost and the next. A fourth stamp, with which the core of
  another configuration loads what it wrote before that one is committed, was checked as well
  (safety, 12.7 million states: too many to repeat each time), and the proofs have no bound.
* `Mechanisms`: two upgrades, installs and restores overlap with each other; three
  failures are what it takes to lose both copies on Windows (section 6); of two launches
  one is killed or fails while the other repairs, waits or serves; one patch and
  one archive kept decide between old and new settings and archives; two users and two
  timers meet at every step of an entry and an exit; two changes, the start counted as
  one where there is a start, are a change of what is shown and the one that overtakes
  it; the tray has a third, the request that comes between two loops. Instances with three launches (1.03 million states), and with three
  changes of the focus, were checked as well.
* Two queue keys: the invariant says that at most one is in use, and a second one
  is what a mistake would arm.

Fairness, each from the code's scheduling:

* `RunState`: the awaits of an operation are bounded (the helper returns,
  `await_ready` has a budget of attempts, IPC calls time out) and tokio polls
  ready tasks: weak fairness of the operation's steps, of `notify_waiters` and of
  each waiter's next step. None for new calls.
* `DraftLayers`, `DataModify`: weak fairness of each transaction's and each
  modifier's steps; the futures awaited inside end.
* `CoreLifecycle`: weak fairness of the body, of each caller that wants the lock
  (tokio's mutex is fair, so nobody is overtaken for ever), of monitors, readers
  and drains. None for users, for the death of a core or for the Service.
* `ProxyGuard`: weak fairness of the holder, of the local guard's loop and of the
  Service guards. None for jobs, for other programs or for the Service.
* `ConfigUpdate`: weak fairness of each caller's next step: its awaits end by an
  answer or a timeout, and tokio's mutex hands `PROFILE_WRITE_LOCK` on in order.
  None for new commands or for the end of a core.
* `SelectedNodes`: weak fairness of the activations' steps and of the switch under
  way: every await of theirs is bounded by a timeout. None for users or providers.
* `Patches`: weak fairness of the steps of operations, of the start and of what they
  leave to do: an await ends by a file operation, an answer or a timeout. None for
  commands, other programs, crashes.
* `ProviderSync`: weak fairness of the update's and the tasks' steps, whose calls of
  the Service time out. None for the core, the session or requests.
* The nine mechanisms are checked, and proved, for safety only; "at rest" in their properties
  means that no task has a step left.
* `AutoUpdate`: weak fairness of started commands, refreshes, init, the
  scheduler, each profile's expiry (time passes) and its update.

## 5. Proofs

Every theorem holds for every value of the constants that satisfies the module's
`ASSUME`: any sets of tasks, layers, profiles, and any bound. The nine mechanisms, which
several modules extend together, have no `ASSUME`; the theorems about them name what they need as a
hypothesis instead. Each asks only that the bounds are numbers and that a mark (nobody,
no profile, no release, the keys of the system) is not one of the things it could be mistaken for:
`ProcessIds`, `UpgradeBounds`, `UpdateBounds`, `RestoreBounds`, `BackupBounds`,
`TimerBounds`, `MonitorBounds`, `KeyBounds`, `TrayBounds`.

A proof module holds the proofs of one component of the list above and, where there are some, of the
mechanisms next to it.

| Module | Theorem | States |
|---|---|---|
| `ServiceProofs` | `TypeCorrect` | Every variable of the store and of its tasks keeps its type. |
| `ServiceProofs` | `Exclusion` | Of a pending action and a Sidecar allowance at most one is recorded. |
| `ServiceProofs` | `ReservationsExact` | A reader's number equals the store's exactly when nothing was recorded and no reading began since it reserved. |
| `ServiceProofs` | `StaleReadings` (`StaleReadingDiscarded`) | An overtaken reading changes nothing when it arrives. |
| `ServiceProofs` | `QuestionsAnswered` | An operation that has ended leaves no question of its own. |
| `ServiceProofs` | `ReadyNeverShadowed` | An allowance is never recorded over a ready Service. |
| `ServiceProofs` | `DecisionsAlwaysAgree` (`DecisionsAgree`) | Question, allowance and health recorded in the store never contradict each other, and no ended operation leaves a question. |
| `DraftLayersProofs` | `TypeCorrect` | Layers, claims, transactions and writers keep their types, and a transaction that touches a layer has one to touch. |
| `DraftLayersProofs` | `ClaimsAreExact` | A layer is claimed exactly while one transaction owns it, for any layers and any order of naming them. |
| `DraftLayersProofs` | `LayersAlwaysOwned` (`LayersAreOwned`) | When unclaimed writers keep to layers no transaction names, a transaction has its layers for itself: claims are exact and no foreign draft lies on a held layer. |
| `DraftLayersProofs` | `DraftsAreOwn` | When unclaimed writers keep to layers no transaction names, a draft on a held layer is the holder's own. |
| `DraftLayersProofs` | `SettledOnAllOrNone` | When unclaimed writers keep to layers no transaction names, a settled transaction is on all of its layers or on none. |
| `DraftLayersProofs` | `DraftsImplementLayeredCommit` (`Implements`) | When unclaimed writers keep to layers no transaction names, draft transactions implement the abstract layered commit. |
| `DraftLayersProofs` | `ModifyTypesCorrect` | Every variable of the layer and its callers keeps its type. |
| `DraftLayersProofs` | `PermitHeldOnce` | The modify permit is held by at most one caller and its flag says exactly that. |
| `DraftLayersProofs` | `ModifiersDoNotConflict` | A modifier's copy is stale only when a writer applied a draft, never because of another modifier. |
| `DraftLayersProofs` | `NoLostWakeUp` (`SleepersHaveAWaker`) | A modifier that sleeps always has another one awake that will wake it. |
| `DraftLayersProofs` | `ModifiesAreNotLost` (`ModifyKeepsOthers`) | An Ok answer adds the caller's edit to everything committed while it ran. |
| `CoreLifecycleProofs` | `TypeCorrect` | Every word a body shares with monitors, readers and drains keeps its type. |
| `CoreLifecycleProofs` | `CoresAreNeverAlone` (`NoCoreLeftAlone`) | At most one Sidecar lives, a core that runs always has a task that will learn of its end, and no guard is left without a core. |
| `CoreLifecycleProofs` | `StopsAlwaysClearTheProxy` (`StopsClearTheProxy`) | Off macOS no core is ended before the proxy was taken off it, and nowhere under a guard. |
| `CoreLifecycleProofs` | `OnlyTheDeadAreCleared` (`OnlyDeadSidecarsCleared`) | A late drain never clears the Sidecar that replaced its own. |
| `CoreLifecycleProofs` | `RecoveriesAreForTheLost` (`RecoveriesEndLostSessions`) | A recovery for a displaced owner ends only a session the Service no longer honours. |
| `ProxyGuardProofs` | `TypeCorrect` | Every word that jobs, guards and the Service share keeps its type. |
| `ProxyGuardProofs` | `Invariance` | At each place of a job: who was shut down, which requests can still be under way, what the setting is, and that nothing was written past a guard without knowing. |
| `ProxyGuardProofs` | `NoTargetComesBack` (`NoStaleTarget`) | A target that is set at rest is the one last asked for, unless the job knew of a write that hung. |
| `ProxyGuardProofs` | `GuardsAlwaysAgree` (`GuardsAgree`) | At most one guard enforces, what was last asked for, for a core that runs, and none behind a notice that says it stopped. |
| `AutoUpdateProofs` | `TypeCorrect` | Every variable keeps its type, for every set of profiles, commands, keys, intervals and offered options. |
| `AutoUpdateProofs` | `QueueAlwaysMatchesTasks` | A task is armed exactly while it does not run, under the only entry its profile has in the delay queue. |
| `AutoUpdateProofs` | `OneUpdateAlways` | A profile has at most one scheduled update alive, counted until the scheduler took its report. |
| `AutoUpdateProofs` | `SchedulerAlwaysFollowsCache` | The newest schedule sent, or with none in the channel the tasks, are what the cache says. |
| `AutoUpdateProofs` | `QueueAlwaysServesOneUpdate` (`QueueServesOneUpdate`) | Each profile has one entry in the queue or one update under way, never both. |
| `AutoUpdateProofs` | `ScheduleAlwaysFollowsOptions` (`ScheduleFollowsOptions`) | What the scheduler follows is the cache, and once every refresh has ended the cache is what the options say. |
| `AutoUpdateProofs` | `CacheAlwaysFollowsOptions` | Once every refresh has ended, the cache holds the options of each profile whose last change was announced. |
| `ConfigUpdateProofs` | `TypeCorrect` | The layers, the locks and every command keep their types, and a save has a profile, an update a configuration to write. |
| `ConfigUpdateProofs` | `Invariance` | At each place of an update its holder knows what the layers, the run file and the core have in common; outside updates nothing is staged. |
| `ConfigUpdateProofs` | `AcceptedAlwaysRuns` (`AcceptedRuntimeRuns`) | The core runs nothing the validator did not let through, and with no update in progress it runs the committed runtime. |
| `ConfigUpdateProofs` | `DeletionsAlwaysMoveTheCore` (`DeletionsMoveTheCore`) | A deletion commits without the profile in use only when the core is stopped or runs what follows it. |
| `SelectedNodesProofs` | `Invariance` | Tasks begin in order and one at a time; while nothing else touches core or records, what the current task has still to select is all there is, and the core is as at its last snapshot otherwise. |
| `SelectedNodesProofs` | `TypeCorrect` | Every variable has its type: plans are records and the core answers with groups. |
| `SelectedNodesProofs` | `RestoresAlwaysAgree` (`RestoredAgrees`) | After the newest undisturbed activation every group is on its recorded node, wherever the core has it. |
| `SelectedNodesProofs` | `RepairsAlwaysConfirmed` (`RepairsAreConfirmed`) | A record is only repaired by the task that read it, as it read it, for a group that refuses selections or after two looks. |
| `PatchesProofs` | `TypeCorrect` | Layers, files and core hold settings and configurations the application can come to, whatever is staged, dropped or restored. |
| `PatchesProofs` | `ConfigurationsHold` (`ConfigurationHolds`) | For every profile, merge, script and page of settings: what a core may be given keeps what the application owns, and its groups and tunnels name only what it knows. |
| `PatchesProofs` | `SettingsAlwaysAgree` (`SettingsAgree`) | With nothing under way the core runs the committed runtime, that was made from the committed settings, and the files hold them. |
| `PatchesProofs` | `NamedPortsAreServed` (`NamedPortIsServed`) | With nothing under way PAC and the system proxy name the port the core serves. |
| `ServiceProofs` | `SyncTypeCorrect` | Every variable of the synchronisation keeps its type: one holder of each lock, a session the Service granted, no more attempts than allowed. |
| `ServiceProofs` | `NoFileIsLeft` (`TemporaryFilesGo`) | Between passes no temporary file is left, whichever step of a pass failed, but for a session lost during verification. |
| `ServiceProofs` | `PublicationsAreSound` (`PublishedCachesAreSound`) | What a pass publishes is whole, of the live session and the committed configuration, and never older than what that session published. |
| `ServiceProofs` | `MovedSourcesMeetNoOther` | A provider that is moved out of a conflict over its file meets no other source where it goes, whatever a configuration declares. |
| `ServiceProofs` | `ResolvingIsDoneOnce` | Resolving the conflicts of a resolved configuration changes nothing. |
| `SelectedNodesProofs` | `LaunchesKeepTheData` | For any launches and any data files: the lock is held by the one primary, a launch sets aside only what it found, what was moved is never in two places, and nothing of it is lost. |
| `SelectedNodesProofs` | `StartsAreAlwaysSafe` (`StartsAreSafe`) | At most one launch is primary and has the token, and no data is lost or replaced by defaults, whichever step of a repair fails or is killed. |
| `AutoUpdateProofs` | `UpgradesAreOrderly` | For any number of calls, releases, failures and accidents: the one upgrade under way holds the lock and knows what it has staged, published, approved and kept; a missing core has a copy. |
| `AutoUpdateProofs` | `UpgradesAlwaysKeepACore` (`UpgradesKeepACore`) | A managed core is there or has a copy, it agrees with the copy of the Service between upgrades, and a call that reports an upgrade has started what it asked for. |
| `AutoUpdateProofs` | `InstallsAreOrderly` | The token in the slot is that of a call that still listens to it, and the bytes that wait are those of the version its dialog shows, however calls overlap. |
| `AutoUpdateProofs` | `UpdatesAreAlwaysWanted` (`UpdatesAreWanted`) | A cancelled call never reaches the installer and nothing but the version that was asked for is installed. |
| `AutoUpdateProofs` | `UpgradesAlwaysWork` (`UpgradesKeepWorking`) | The two results above together, which is the invariant of the run. |
| `ConfigUpdateProofs` | `RestoresAreOrderly` | For any number of restores and writes: who holds which lock, whose draft is staged, and what every layer and its file hold at each point of a restore. |
| `ConfigUpdateProofs` | `RestoresAlwaysAgree` (`RestoresAgree`) | When nobody is at work layers and files agree, the credentials are the last ones stored and no client works with others, but for the layers a writer crossed a restore at and for failed restores. |
| `ConfigUpdateProofs` | `BackupsAreOrderly` | One automatic backup at a time, due when it is made; the archives that are there are the newest, at most one more than are kept, of which the oldest is known. |
| `ConfigUpdateProofs` | `BackupsAlwaysKept` (`AutoBackupsAreKept`) | Automatic backups are spaced, the newest ones stay, the scheduler hears of its settings and an archive nobody packed beside is whole, for every interval and number kept. |
| `ConfigUpdateProofs` | `BackupsAlwaysAgree` (`BackupsAgree`) | The two results above together, which is the invariant of the run. |
| `ProxyGuardProofs` | `TrayAlwaysFollows` (`TrayFollows`) | For any callers and limit of events: at rest the menu, the icon and the tooltip say what is the case, but for the updates that are missed, and one loop at most serves the window. Proved from an inductive invariant: a surface that does not say what is the case is missed, due, or about to be replaced by an update nothing has overtaken. |
| `ProxyGuardProofs` | `MonitorAlwaysFollows` (`MonitorFollowsSettings`) | For any profiles and limits: a latency monitor that sleeps with nothing left to wake it is on or off as configured and measured the current profile, and no result is of another profile's nodes unless a switch went on. |
| `ProxyGuardProofs` | `WindowAlwaysFollows` (`WindowFollowsMode`) | For any tasks of the user and timers: once every task is done, lightweight mode is never left half-way, a window is there exactly when the mode is off unless an entry overtook a show or an exit, and a window in front has no timer sleeping that would destroy it. |
| `ProxyGuardProofs` | `HotkeysAlwaysFollow` (`HotkeysFollow`) | For any keys, lists and handlers: at rest the system holds the keys of the record for the settings and the focus, the record is the configured list, and the keys that quit and hide are held only from a focused window, until a change of the focus meets a handler or a patch. |
| `ProxyGuardProofs` | `InterfaceAlwaysFollows` (`InterfaceFollows`) | The window, the latency monitor, the hotkeys and the tray follow the mode, the settings and the state, for every value of their constants: the conjunction of the four theorems. |

The inductive invariants of the interface are theorems of their own (`TrayIsOrderly`,
`MonitorIsOrderly`, `WindowsAreOrderly`, `HotkeysAreOrderly`).

How they go:

* **RunState.** Type correctness needs one fact beyond the types: an operation
  that has begun has a kind. `PendingExcludesSidecar` is inductive. The
  reservations need `ReservationInv`: no reservation exceeds the store's number,
  no two are the same, and one equals the store's number exactly if nothing overtook the reader, because every write
  both increments the number and overtakes all readers. From it the action
  property `StaleReadingDiscarded` follows for `CommitReserved`, the only place
  where a reader leaves. `NoOrphanQuestion` needs that startup detection precedes
  every operation (`DetectedFirst`) and where in an operation a question may
  stand (`QuestionInv`).
* **DraftLayers.** `ClaimInv` states the claims by positions: transaction `t`
  *has* its `j`-th layer depending on its phase and position, two transactions
  never have the same layer, and a layer is claimed exactly if someone has it. A
  step takes, gives back or keeps positions, and three lemmas cover all
  steps. `DraftInv` adds what a draft and a committed value may contain at each
  position: it is what makes *all or nothing* inductive. The refinement
  `DraftsImplementLayeredCommit` then shows that every step is a step of
  `LayeredCommit` or a stutter. The theorems about drafts assume `WritersApart`,
  that nobody edits a layer of a transaction without claiming it; section 6 shows
  a place where the code does not keep to that, and what happens then.
* **DataModify.** `IInv` joins the permit, what a modifier inside has copied, and
  `WakeUps`: somebody asleep implies that somebody awake holds the permit, is
  about to notify, or is about to look at the flag again. `ModifyKeepsOthers`
  follows because an unchanged identity means unchanged edits.
* **CoreLifecycle.** The body of a command is one long procedure, so `IInv` says what
  holds at each of its places: no core between a stop and the next start
  (`Starting`), a core while the proxy is applied to one (`Applying`), no guard, and
  off macOS no proxy, once the end of a core is asked for (`Stopping`). To that come who
  will learn of a core's end: an old drain has seen *its* process end and pids are
  not used again (`ProcessesFit`), the Sidecar in use has a drain that reads under the
  readiness it was given (`DrainsFit`), and in Service mode some task of the
  newest generation watches, or its body is about to end (`MonitorsFit`). `LossesFit`
  is what makes a recovery safe: a conclusion *displaced* drawn by a task of the
  newest generation stays true, because a new session comes with a new
  generation. Lemmas named after a few places (`Leads...`) say where each
  action takes the body, so that each part looks only at the actions that touch
  its words.
* **ProxyGuard.** A job is a list of calls, and twelve lists are all there are
  (`Outlooks`), so `PlacesFit` can say for each call which places it has and on which
  route. `LocalFits` is about the local guard: from the shutdown to the end of the
  call it does not run, and a job whose drain ended has no write of it left; while
  it runs, or will be started again by an apply that fails (`WillRun`), no
  guard of the Service is of the current generation (`Fresh`). `RequestsFit` is about
  `operation_lock`: a request under way asks for what the setting is, and where the
  setting is changed there is none, because a job withdraws the generation before
  it queues for the lock. `GuardsFit` has one guard a generation. `SettingFits`
  then is `NoStaleTarget` with the write that is under way: whoever writes
  waited for the guard or marks the setting as `loose`.
* **ConfigUpdate.** `IInv` says for the holder of the flag, at each place of its
  update (`Stage`), what the layers, the serialised configuration, the run file
  and the core have in common: before the file is written the core still runs the
  committed runtime; past the validator what is staged is what was accepted;
  once the core was replaced it runs the latest runtime, which `Settle` then
  commits. Outside updates nothing is staged and the core runs the committed
  runtime (`Known`). `Holds` is the exclusion this rests on: only the holder of the
  flag is inside an update, only the holder of the write lock inside a switch or a
  deletion. A step of one caller therefore leaves the others' part alone
  (`BystanderKeeps`), and each action is proved for its own caller only.
  `Deletes` carries the answer of a deletion's update to its commit.
* **AutoUpdate.** `CoreInv` proves types, queue and single updates together. They
  cannot be separated: a fresh key exists only if a profile has at most one entry
  in the queue, and a report finds its task running only if there is one update.
  `FollowInv`: the newest schedule in the channel is the cache, or with none
  there the tasks match the cache. `LockInv` and `CacheInv`: whoever holds
  `refresh_lock` has read options that are at least as new as every announced
  change, or the one who changed them is still waiting for the lock; hence no
  older map overwrites a newer one.

* **SelectedNodes.** Tasks begin in the order of their generations and one is busy at
  a time (`TasksFit`), so no step of another task comes between those of the current
  one. `RestoringFits` is about that one while nothing else touches core or records:
  the records are the ones it read, what is still to be selected is in its list,
  after a pass nothing is, and the core is as at its last snapshot except for
  the groups on that list (`ReadingFits`). `RepairsSelectNothing` then carries
  `RestoredAgrees` over the save: a record is only given up for the node its group
  is on. What a save may take is a fact about `Plan` alone (`PlansAreConfirmed`);
  that the save is of the task one looks at follows because only one can save
  (`OneTaskSaves`). The types need both halves: a plan is made of records only
  because a task that saves has its snapshots (`Repairs`).

* **Patches.** `IInv` has three kinds of parts. Types with the shape of the operation under
  way (`Types`: a snapshot holds files, a list of effects holds effects), and who holds
  the claims (`Control`). Then who may have drafts and what a draft may change
  (`Drafts`, `Staged`): a patch leaves ports and DNS alone, an override everything else, a
  save of the ports keeps the mixed port of both layers together. The rest relates the
  layers to what was made of them: the runtime was made from the settings, or the operation
  remembers in `op.ran` the one that was (`RuntimeMade`); its override is the one the settings ask
  for or a synchronisation is still to come (`DnsAgreed`); the core runs the runtime except
  between the restart of a port change and its commit or way back (`CoreRuns`); its port is
  the borrowed one or the one the layers have (`Borrowed`, `ProxyNamed`); the files hold
  the committed settings, or the operation's snapshot does (`Agreement`). All of it
  holds also while the bound of faults lasts, so a proof of an action is a case per outcome.
  Two exceptions of the properties were found here, each a place where an invariant
  was not inductive and TLC had the trace: `astray` and `overtaken` (section 6).
* **ProviderSync.** `SyncInv` ties the stamps together. A pass knows of a provider (`Knows`) a
  time at which the core of its configuration loaded it; since then the file of that provider
  has a stamp that is later, or the same and whole (`LoadedFrom`), and so has every copy
  the pass takes (`Compared`). A load time that did not move and is not older than the copy makes
  the two stamps equal, hence the copy whole (`FinishedIsWhole`). `Ordered` puts each
  copy between what the session published last and what the Service has now, and
  `AppIsOlder` says that for what is published: so a pass never goes back. `Turns` makes both
  work: one pass is active, the lifecycle lock is a task's exactly while it renames, and
  then the committed session and configuration stay what the task read under it (`Judged`).
  `TempsBelong` is `TemporaryFilesGo` with the pass under way. Whatever is not a step of
  a pass (`HostMove`: requests, updates, restarts, the core, a Sidecar) lets files only grow,
  and is proved once for all of it. TLC checked `SyncInv` before it was proved. The attempt
  showed that `PublishedCachesAreSound` fails with four stamps: section 6 has the case, which
  the history `apart` now excepts.
* **RuntimeBundle.** A made-up name is free because there are more numbers than reserved names
  (`AllocateIsFree`, by cardinality), so a moved source meets only sources of the same origin
  and address; and what remains in place had no conflict, so moving is done once. Both hold
  for every configuration, if the databases are finitely many and no link of the home
  directory has the name a digest makes (`MadeUpNamesArePlain`).
* **Enhance.** `ConfigurationHolds` does not need the history: it follows from the types. One
  lemma per stage of the pipeline says which fields the stage leaves alone (`Alike`) and
  what it settles: `AppConfigFacts` that the application's fields, with TUN and the DNS
  page, are as the settings say; `WrittenFacts` what merges and scripts may do to them;
  `EnforceFacts` that the captured ones are back; `SafeFacts` that the clean-up leaves no
  unknown name; `GeneratedFacts` and `RunFacts` chain them in the order of `enhance` and `generate`.
* **Instance.** The lock decides who is primary, and a repair may replace its file, so
  `LockIsHeld` says that a primary has the lock of the system, not the file. The rest is about data:
  what a launch set aside and what is in the new root are all of it (`Rebuilt`), unless somebody else
  was about while it rebuilt (`crowded`) or a move stopped half-way (`split`). `RebuildsAlone` is what makes
  that inductive: without `crowded` nobody fills the new root with defaults (`NewRootFits`).
* **CoreUpgrade.** One call is under way and holds the lock (`OneUpgrade`), so each action is proved
  for that call, whose place says what it knows: it staged and published what it asked for
  (`JobFits`), it reports what it started (`RanFits`), the core that is moved aside exists
  (`CopyFits`). `FollowFits` is about the copy of the Service: the managed core is as approved except
  from the replacement of one of the two to that of the other, and then the copy that may
  come back is; otherwise `apart` has a reason (`Agreed`). The number of failures is part of the
  invariant (`CoreFits`), because only the third of one upgrade may cost the last copy.
* **AppUpdate.** `SlotFits`: the token in the slot is that of a call that still listens to it.
  `BytesFit`: from the answer of the server on, the bytes a call has are those of the version its dialog
  shows, whoever fills the cache. `Displaced`: a call whose token is not in the slot was overtaken by another one.
* **Restore.** Who holds which lock and whose draft is staged (`LocksFit`, `DraftsFit`), and for each layer
  what memory and file hold while nobody is at it, while a writer is (`WriterFits`), and at each place of a restore
  (`RestoreFits`): a restore has not come to the file, has still to read it, or has
  replaced the layer. A writer inside a restore is in `crossed` (`BesideFits`), and its layer is
  the exception. `CredentialsFit` follows the credentials, which a restore keeps in memory, through the time in
  which the file is without them (`Stripped`).
* **AutoBackup.** `StaysDue`: what was due when the lock was taken is due until it is made, since nobody else
  makes one. `KeptFits` counts: the archives that are there are the newest of those made, at most one more than are
  kept, while their maker is about to clean up. That the clean-up can name an oldest archive is an
  induction over a finite set in general; here the invariant carries it (`OldestIsKnown`), because a new archive
  is later than all others.
* **Tray.** A surface that does not say what is the case is missed, or somebody will still read the state for it
  (`Due`), or an update that read it is about to set it and nothing has overtaken that (`SurfaceFits`). The lists of
  surfaces a task may have before it are few (`Todos`, `TaskFits`); `SyncFits` says whose the flag of the
  loop is, also between a stop and the second look.
* **LatencyMonitor.** What the loops go by is what is committed unless a draft was read or a wake is
  to come (`LoadFits`, with `Misled`), and without a switch since the load the profile, its nodes
  and what the core runs are one (`ScanFits`). A switch is known by its draft (`SwitchKnown`).
* **Lightweight.** History variables say which tasks met (`MeetingsKnown`). Without such a
  meeting, in the mode the window is gone, or somebody is about to destroy it or to leave the mode (`WindowGoes`), and out
  of it the window is there or somebody is about to build it (`WindowComes`); `Exiting` means that someone will store
  the last state (`ModeEnds`). `TimerFits`: a timer that sleeps is the one in the slot, so it
  can be cancelled.
* **Hotkeys.** Everything holds until a change of the focus meets a handler or a patch (`met`): one handler
  runs, for the focus as it is (`HandlersFit`); the system holds the keys of the record when nobody is
  about to change them, none when a handler is about to register, and part of them in between
  (`KeysFit`, `UpdateFits`); quit and hide follow the focus (`SystemFits`).

Proving `CoreLifecycle` and `ProxyGuard` also corrected the models: some `CASE`s had
arms that overlap, where TLA+ leaves the choice open and TLC takes the first. They are
`IF`s now, and mean what TLC had been checking. Proving `Restore` showed that two writers of the profiles could
meet in the model, where the code has the modify permit; it is modelled now. Proving `Tray` asked what the
second look of a stopping loop does, which was left out: it can lose a request (section 6).

The inductive invariants were checked by TLC on small instances before they were proved.

Model-checked only: liveness, which the prover does not reach, and what rests on an induction over
data, which the installed provers do not do. `CollectRuntimeParts` folds over a sequence, so what it collects from
every configuration, the rest of `OneSourcePerCache`, stays with TLC, and that the providers collected from a
configuration have different names and files is the assumption `ProviderSyncAssumption`, which TLC
evaluates on the run: names are keys of a mapping, and `CollectRemote` adds no
destination twice.

## 6. Where code and documentation disagree

Stated as a run, whose single property says what a message and a test of the
application say, and that TLC finds violated:

* **CoreLifecycleQuit** (`src-tauri/src/feat/window.rs:149`). When the controlled stop fails, quit clears the exiting flag and sends AppQuitCoreStopFailed but, unlike restart_app (src-tauri/src/feat/clash.rs:73), has no return: it goes on to exit the app with code 1 while the core runs and the system proxy may still point at it. The message of that notice (src/locales/en/layout.json:59) says: "The core could not be stopped safely, so quitting was cancelled", and the test at src-tauri/src/feat/window.rs:355 is named exit_aborts_when_controlled_core_stop_fails.

Met while modelling and not stated as a run. The properties name each as an
exception, by a history variable or a condition, and fail without it.

Core, proxy and notices:

* A switch whose reload fails and whose replacement of the core succeeds, but
  whose proxy then does not come back, is answered as failed: the runtime layer
  keeps the new configuration (`retain_applied_runtime`), the profiles go back to
  the previous one (`discard_and_restore`). The core then runs a profile that the
  application does not show as the one in use.
* While a switch is staged its draft is the latest profile for everybody: an
  update by somebody else generates from it, and the switch, refused as busy,
  drops it after the core took it (`cmd/profile.rs`, `config/config.rs`).
* Two saves of the same profile: the one that fails puts back the text it read at
  its start, over the other's that was accepted meanwhile (`cmd/save_profile.rs`).
* `settled` clones the service under its lock and reads the operation flag after
  it (`snapshot`), so the snapshot may show the request of an operation that had
  not settled when it was taken, beside a flag that says it has
  (`core/runstate/mod.rs`).
* A patch that turned the proxy on and is then rolled back leaves the operating
  system's proxy on (`feat/executor.rs`).
* An apply through the Service that fails has stopped both guards and, unlike the
  local route, starts neither again (`proxy_control.rs`).
* "Retire guard failures after replacement or shutdown"
  (`core/notify/notification.rs:305`): `stop_guard` shuts the guard down without retiring its notice.
* On macOS a restart that hands a Sidecar over to the Service leaves the proxy on
  for the core that follows; if that start fails, the proxy points at no core.
* A hand-over to a Sidecar that finds the Service ready again starts the core
  there, fails because the mode is not `Sidecar`, and is taken back by declaring
  the core stopped only: the Service goes on running it, and its monitor ends
  (`rollback_failed_sidecar_transition`).

* `recover_after_owner_loss` withdraws the readiness before it queues for
  `lifecycle_lock`: when the stop that follows is refused, a watched core has no
  readiness and commands that need one answer `CoreNotReady`.
* A restore after a failed switch stages and applies without the permit
  (`cmd/profile.rs:220`); `change_core`, `cmd/webdav.rs:25` and
  `feat/clash.rs:106` apply drafts nobody claimed, against "Exclusively claims several draft layers and rolls them all back
  unless committed" (`crates/clash-verge-draft/src/lib.rs`).
* `update_item` merges the options captured at its start over those the profile has
  by now: a profile disabled while its update downloads is enabled and scheduled
  again. The timer's test says "must never be scheduled again".

Selected nodes:

* A select in flight, or checked between a record's commit and its
  `supersede_selected_activation`, can land after a newer pick, although that
  function "Cancels restoration so it cannot overwrite a newer selection".
* Both looks of an activation may be at a core that runs the next profile
  already, so records of the old profile can be pruned.
* While a switch is staged, a restart of the core restores the records of the
  committed profile.

Patches, ports, DNS:

* The retry of a start on another port regenerates after the only
  `sync_dns_override`: an override found invalid stays enabled until the next update.
* `sync_dns_override` waits for the configuration lock, which an update does not take. It
  may settle the override in the settings by the committed runtime while another one,
  made before from the settings of then and after one more change of the profile's DNS, is on its way
  to the core. That runtime is committed afterwards with the override on, and every later
  synchronisation finds that the settings are not what was requested and leaves them: the core
  overrides while the switch is off, until an update generates again (`overtaken`).
* After a failed port change whose way back could not even stop the core (`astray`), a
  reload in place serves the saved port while the system proxy still names the other one.
* A reload that generates while `set_dns_override` has its draft staged, and is then
  refused as busy, runs settings that were never committed.
* `change_clash_mode` commits a staged Clash draft that is not its own, against
  "Roll back all three drafts if the candidate is rejected or fails."
  (`feat/listener.rs`); what it saves is overwritten when the patch restores its
  files; the mode never enters the runtime layer, so a restart reverts it.
* Guards drop in reverse order: PAC opens before staged ports are rolled back, and
  after a failed save names the old port before the old core is back.
* A crash between the two saves of a port change leaves `config.yaml` and
  `verge.yaml` with different ports; leaving the app commits drafts not accepted yet.
* `get_runtime_proxy_chain_config` does not end on a cyclic `dialer-proxy`; a chain
  set by `update_proxy_chain_config` lives in the runtime layer only and is gone
  with the next generation; `guard_*` cuts ports to 16 bits where `mapping_port`
  refuses them; the clean-up of groups takes names of providers for members.

Provider synchronisation:

* A session lost while caches are verified leaves the temporary copies that were
  not yet verified.
* A provider whose load time a fresh core does not report is trusted once it has settled, so a file
  half-written by a slow core can be published.
* A pass that begins after an update reloaded the core and before its runtime is committed
  compares load times of the new core, by name, with files of the old configuration: one that
  the old core was still writing when it was replaced can be published half-written, against
  "updatedAt changes after cache writes" (`core/service.rs`; the exception `apart`).
* A core still on the old configuration may write between staging and reload: a
  file of the old address ends up under the new declaration.
* A bundle that cannot be collected counts as an answer lost: it is asked for
  again, the core is stopped and the replacement fails too, although
  `plan_config_application` says it avoids replacing a working core for a rejected bundle.
* A remote provider declared before a local one of the same file is accepted
  without a copy; in the other order it is refused.

Upgrade, update, launch:

* On Windows three failed renames in one upgrade lose every copy of the core:
  `cleanup` deletes `.old` although the rollback's rename failed. A kill between the
  two renames and one failed rename of the next upgrade do so too.
* `install_service` during an upgrade that is rolled back later leaves the approved
  copy newer than the managed core.
* Two installs of an application update share one token slot: a cancel may find it
  emptied by the other.
* Two launches at once on a directory of another account: one sets the directory aside, the
  other creates it again, the blind restore fails, and all data stays in
  `.stale-<pid>` while the other starts afresh, against "Any failure puts the data
  back: a half-moved root would read as a fresh install and be filled with
  defaults." (`core/owner_identity.rs`).
* A token file whose writer is killed before it wrote stays unreadable.

Backup and restore:

* Every patch sends the settings to the scheduler and restarts its sleep: patched
  more often than its interval, it never backs up.
* Two makers in the same second share one temporary archive.
* `append_item` saves inside its modification: it overwrites a restored
  `profiles.yaml` and then fails to commit, so that file and memory differ
  (`utils/init.rs`: "saving inside the closure keeps a racing restore intact" holds
  under the lock only).
* Credentials saved during a WebDAV restore are overwritten; a client made while
  they are replaced keeps the old ones; a failed restore leaves restored files
  under old layers.

Lightweight mode, latency monitor, hotkeys, tray:

* An entry beside a plain show or toggle leaves a window in lightweight mode; an
  entry beside an exit, the limiter (625 ms) or a window that could not be built leave neither
  window nor mode; a timer set by a close handler's task older than the focus
  destroys the window in use.
* A failed patch of the automatic mode leaves the listeners switched: the effect
  comes before the commit.
* The monitor loads drafts: a patch that switches it off and then fails leaves it asleep
  though enabled, until it is woken next; a scan beside a switch counts
  the other profile's nodes.
* A focus and a blur, or a blur and a patch, at once leave keys registered without
  the focus until it is lost again; a late reset after the keys became global
  removes them all until the next patch.
* An update of the hotkeys that fails half-way has removed keys the record still
  holds, and later patches do not bring them back; after a patch rolled back later,
  the system holds the new keys and the settings the old ones.
* A pick of a node supersedes the activation after a switch, and with it the
  update of the tray that was to follow ("tray rebuilding happen after saved node selections
  are restored", `cmd/profile.rs`): the tooltip names the old profile until the next
  change.
* "keeps syncing until a pass finds no pending sync request" (`cmd/proxy.rs`): a
  request that finds the loop running, and stores its flag after the loop's last look,
  is served by nobody. A loop that stopped and looks a second time can even take a request away
  (`cmd/proxy.rs:204`): when another loop has started meanwhile, it clears the flag and ends, and that
  loop finds nothing pending.
* Nothing orders two updates of the tray: one that waited for the core sets an
  older menu last; after a patch is rolled back the tray shows the staged settings;
  the icon drawn from committed settings overwrites a patch's own.

## 7. What is not modelled

| Part | Why |
|---|---|
| Core lifecycle and owner monitors (partly) | Start, stop, restart, proxy re-apply, quit, relaunch, the hand-over to a Sidecar, uninstallation and reinstallation of the Service, the Windows fallback to a Sidecar and its handoff back to the Service, with owner monitors, log readers and Sidecar drains. Not modelled: the window and the retries of the handoff watcher, the port-fallback retries of init, session-ending cleanup, the counters of OwnerWatch, startup_error. The replacement of a core with a new configuration is in ConfigUpdate and ProviderSync. |
| System proxy and its guards (partly) | Apply, clear, refresh_guard and stop_guard on both routes, the guard loops and their reports, network changes. Not modelled: the retries of clear, which of the two proxy kinds a partial write left, the classification of failures and the failure table beyond the guard notice, the text of bypass lists and PAC scripts. |
| Automatic profile updates (partly) | The timer (init, refresh, scheduler, tasks), an update from start to landing, and the commands that change the schedule. Not modelled: delays, the three download strategies and retries of one update, the core reload that follows, options other than allow_auto_update and update_interval. |
| Configuration update and profile commands (partly) | The update from its flag to its answer (generate, validate, write, reload or replace, retain or drop), and the commands that switch, delete and save a profile, generate anew and restart. Not modelled: the protocol override, debounce, leaving the app, import, creation and reordering of profiles, and the staging protocol of the Service beyond its outcomes (patches, DNS and ports are in Patches, the staging in ProviderSync). |
| Proxy ports and listeners (partly) | The transaction that saves ports, the port borrowed at start, its return, the probe of the ports and the retries of a start. Not modelled: the sockets themselves, the mapping listeners of tunnels, error texts. |
| Ownership, launch and singleton (partly) | The repair of the data directory's owner, the lock, record and token of the instance, over several launches with kills. Not modelled: access control lists, the embedded server's routes, the scheduled task (utils/schtasks.rs). |
| Backup (partly) | Automatic backups with scheduler, lock and clean-up; local and WebDAV restores beside the writers of the restored layers; the WebDAV client and its credentials. Not modelled: the contents of an archive, upload, list and delete over WebDAV. |
| Tray and hotkeys (partly) | The registered hotkeys through startup, focus and patches; the menu, icon and tooltip through their callers, and the loop of the window. Not modelled: the layout and wording of the menu, the traffic text of macOS, what a hotkey runs. |
| Running mode and PAC flag (partly) | The mode is a variable of CoreLifecycle and the PAC flag one of Patches. The bookkeeping of OwnerWatch, one counter per watch, is folded into the monitors of CoreLifecycle. |
| Notifications (not modelled) | The 20 ms batching window and the table of failures that replace or retire each other, presentation only: no other part reads it back. |
| Startup and resolution (partly) | The start of the core with its ports, TUN and DNS is part of Patches, the launch up to the primary instance part of Instance. The creation of directories, default files and log files, and the order of the rest of the one-shot initialisation, are left out. |
| Support crates (partly) | The limiter is a variable of Lightweight, the draft crate a component of its own. Logging, translations, HTTP checks of streaming sites and signal handlers are left out. |
| Frontend (not modelled) | React user interface over the commands; its state is a cache of the backend's. |
| Privileged Service, core and sysproxy library (not modelled) | Outside this repository; modelled as environment by CoreLifecycle and ProxyGuard, from how the code uses them. |
| Build, packaging and vendored code (not modelled) | Scripts and third-party code. |

## 8. Plan

The order is by how much the rest of the program depends on a component, and by
how many interleavings it has.

1. Done: every component of section 1 but the last row has its module; the Run
   State store, the draft layers with their abstract commit, the asynchronous
   modification, the core lifecycle, the proxy guards, configuration updates,
   automatic updates, the selected nodes, the patches with the configuration they make,
   the synchronisation of downloads and the nine mechanisms have their safety proved.
2. Next modules: `FailureTable` (publish, replace, retire), the staging of a
   profile in `Tray`, the copying of geo databases in `ProviderSync`, `OwnerWatch`
   with its counters.
3. Next abstractions: a proxy switch `on | off` with its guard, which `ProxyGuard`
   implements and `CoreLifecycle` uses; a schedule that follows the options, which
   `AutoUpdate` implements; the four outcomes of an attempt in `Patches`, which
   `ConfigUpdate` implements.
4. Next proofs: none of the safety properties the runs check is left but the part of `OneSourcePerCache` that
   rests on a fold over a configuration, which stays with TLC, as does all liveness. New modules bring theirs.

## 9. Running the tools

In this directory, with the TLA+ tools, the community modules and TLAPS:

    tlc -config MCRunState.cfg MCRunState.tla
    tlapm ServiceProofs.tla

