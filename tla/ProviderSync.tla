---------------------------- MODULE ProviderSync ----------------------------
(* The files a core downloads while the Service runs it, and the copies of them
   the app keeps (core/service.rs, sync_runtime_providers_by_service).  The
   Service's core writes below a directory the app cannot read; tasks read the
   files through the Service, chunk by chunk, and publish them into the app's own
   directory, where validation and a Sidecar look for them.  Meanwhile the core
   rewrites its files in place, configuration updates stage other bundles or
   replace the core, and the session ends.

   A file is known by its stamp: every write that changes its length or its
   modification time gives it a new one, and the time at which the core loaded a
   provider is the stamp it loaded. *)
EXTENDS RuntimeBundle

CONSTANTS
    Tasks,          \* the tasks that may be under way at once
    Configs,        \* what profiles ask for, before conflicts are resolved
    First,          \* the configuration the app starts with
    MaxAttempts,    \* RUNTIME_PROVIDER_SYNC_ATTEMPTS
    MaxStamp, MaxSession, MaxUpdates, MaxAsks, MaxFaults   \* bounds of the runs

VARIABLES
    mode, session,  \* RunningMode, the number in ACTIVE_SERVICE_SESSION or 0
    lifecycle,      \* who holds lifecycle_lock
    runtime,        \* the committed runtime layer
    update,         \* the configuration update under way
    core,           \* the core: its configuration and when it loaded what
    svc,            \* the Service: the session it honours and its files
    app,            \* the files of the app directory
    queued, serial, \* PROVIDER_SYNC_QUEUED, PROVIDER_SYNC_SERIAL
    task,           \* the tasks spawned by request_runtime_provider_sync
    temps,          \* the temporary files that exist: whose, beside which target
    stamp,          \* the last stamp given
    unserved,       \* a request no pass has begun after
    lost,           \* a session ended while caches were being verified
    asks, updates, faults

syncVars == <<queued, serial, task, temps, unserved, lost>>
hostVars == <<mode, session, lifecycle, runtime, update, core>>
bounds == <<asks, updates, faults>>
providerVars == <<syncVars, hostVars, svc, app, stamp, bounds>>

Free == "free"
Update == "update"
Down == [up |-> FALSE, config |-> <<>>, loaded |-> <<>>]
Running(config) == [up |-> TRUE, config |-> config, loaded |-> <<>>]
Resolved(config) == ResolveProviderPathConflicts(config)

\* What is collected from each configuration that can be generated.
Generated == {Resolved(c) : c \in Configs \cup {First, <<>>}}
Bundle == [c \in Generated |-> CollectRuntimeParts(c)]
ProvidersOf(config) == Bundle[config].remote
Collectable(config) == ~Bundle[config].refused

\* Providers are the entries of a mapping and declare a file each.
Distinct(providers) == \A r, s \in providers : r.name = s.name \/ r.destination = s.destination => r = s

ASSUME ProviderSyncAssumption ==
    /\ MaxAttempts \in Nat \ {0} /\ MaxSession \in Nat \ {0} /\ None \notin Nat
    /\ {Free, Update} \cap Tasks = {}
    /\ \A config \in Generated : Distinct(ProvidersOf(config))

NoUpdate == [pc |-> "idle", config |-> <<>>, asked |-> 0]

\* The state of a task.  `apart` is history: whether the core ran the committed
\* configuration when it was asked for its load times.
Sleeping == [pc |-> "idle", attempt |-> 0, session |-> 0, todo |-> {}, cache |-> None, before |-> <<>>,
             after |-> <<>>, fetched |-> {}, ready |-> {}, allowed |-> {}, pending |-> FALSE, apart |-> FALSE]

Put(f, d, v) == [x \in DOMAIN f \cup {d} |-> IF x = d THEN v ELSE f[x]]
Get(f, d) == IF d \in DOMAIN f THEN f[d] ELSE None

\* The core of the first session has downloaded and loaded what it declares.
FirstFiles ==
    LET first == ProvidersOf(Resolved(First)) IN
    [d \in {r.destination : r \in first} |->
        [url |-> (CHOOSE r \in first : r.destination = d).url, stamp |-> 1, whole |-> TRUE, fresh |-> FALSE]]

SyncInit ==
    /\ mode = "Service" /\ session = 1 /\ lifecycle = Free
    /\ runtime = Resolved(First) /\ update = NoUpdate
    /\ core = [Running(Resolved(First)) EXCEPT !.loaded = [n \in {r.name : r \in ProvidersOf(runtime)} |-> 1]]
    /\ svc = [session |-> 1, files |-> FirstFiles] /\ app = <<>>
    /\ queued = FALSE /\ serial = Free /\ task = [t \in Tasks |-> Sleeping]
    /\ temps = {} /\ stamp = 1 /\ unserved = FALSE /\ lost = FALSE
    /\ asks = 0 /\ updates = 0 /\ faults = 0

Fails == faults < MaxFaults /\ faults' = faults + 1
Works == UNCHANGED faults

-----------------------------------------------------------------------------
(* Requests *)

\* request_runtime_provider_sync: one task waits for its first pass at a time.
RequestRuntimeProviderSync ==
    /\ unserved' = TRUE
    /\ IF queued THEN UNCHANGED <<queued, task>>
       ELSE /\ queued' = TRUE
            /\ \E t \in Tasks : task[t].pc = "idle"
            /\ LET t == CHOOSE t \in Tasks : task[t].pc = "idle"
               IN task' = [task EXCEPT ![t] = [Sleeping EXCEPT !.pc = "serial", !.attempt = 1]]
    /\ UNCHANGED <<serial, temps, lost>>

\* sync_runtime_providers: what the user interface calls.
SyncRuntimeProviders ==
    /\ mode = "Service" /\ asks < MaxAsks
    /\ asks' = asks + 1
    /\ RequestRuntimeProviderSync
    /\ UNCHANGED <<hostVars, svc, app, stamp, updates, faults>>

-----------------------------------------------------------------------------
(* Configuration updates *)

\* What the Service keeps of its files when it is given a bundle: it is told the
\* urls to "decide whether a core download cache remains reusable".
Kept(config) ==
    LET own == {d \in DOMAIN svc.files : \E r \in ProvidersOf(config) :
                    r.destination = d /\ r.url = svc.files[d].url}
    IN [d \in own |-> svc.files[d]]

StartUpdate(config) ==
    /\ update.pc = "idle" /\ updates < MaxUpdates /\ mode # "NotRunning"
    /\ updates' = updates + 1
    /\ update' = [pc |-> "apply", config |-> Resolved(config), asked |-> 0]
    /\ UNCHANGED <<syncVars, mode, session, lifecycle, runtime, core, svc, app, stamp, asks, faults>>

At(pc) == update.pc = pc
UpdateTo(pc) == update' = [update EXCEPT !.pc = pc]
Over == update' = NoUpdate

\* apply_config outside Service mode: reload_or_restart, the way that works.
ApplyToSidecar ==
    /\ At("apply") /\ mode = "Sidecar"
    /\ core' = Running(update.config) /\ UpdateTo("commit")
    /\ UNCHANGED <<syncVars, mode, session, lifecycle, runtime, svc, app, stamp, bounds>>

\* apply_config in Service mode: the lock, and the mode once more under it.
LockForUpdate ==
    /\ At("apply") /\ mode = "Service" /\ lifecycle = Free
    /\ lifecycle' = Update /\ UpdateTo("stage")
    /\ UNCHANGED <<syncVars, mode, session, runtime, core, svc, app, stamp, bounds>>

\* stage_runtime_by_service, stage_with_confirmation, plan_config_application.
Staged ==
    /\ svc.session = session /\ Collectable(update.config)
    /\ svc' = [svc EXCEPT !.files = Kept(update.config)]

Stage ==
    /\ At("stage")
    /\ \/ /\ Staged /\ UpdateTo("reload") /\ Works
          /\ UNCHANGED lifecycle
       \/ \* RestartRequired, or a session the Service no longer honours
          /\ Collectable(update.config) /\ (Fails \/ (svc.session # session /\ Works))
          /\ UpdateTo("replace") /\ UNCHANGED <<svc, lifecycle>>
       \/ \* InvalidRuntimeAsset: the bundle itself is refused
          /\ Collectable(update.config) /\ Fails
          /\ Over /\ lifecycle' = Free /\ UNCHANGED svc
       \/ \* no answer: a bundle that cannot be collected, or a lost reply
          /\ \/ ~Collectable(update.config) /\ UNCHANGED svc /\ Works
             \/ Collectable(update.config) /\ Fails /\ (Staged \/ UNCHANGED svc)
          /\ update' = [update EXCEPT !.asked = 1, !.pc = IF update.asked = 0 THEN "stage" ELSE "replace"]
          /\ UNCHANGED lifecycle
    /\ UNCHANGED <<syncVars, mode, session, runtime, core, app, stamp, asks, updates>>

\* apply_config_by_service, ReloadFrom.
ReloadStaged ==
    /\ At("reload")
    /\ \/ /\ Works /\ core.up
          /\ core' = Running(update.config)
          /\ lifecycle' = Free /\ UpdateTo("commit")
          /\ RequestRuntimeProviderSync
       \/ /\ IF core.up THEN Fails ELSE Works
          /\ UpdateTo("replace") /\ UNCHANGED <<core, lifecycle, syncVars>>
    /\ UNCHANGED <<mode, session, runtime, svc, app, stamp, asks, updates>>

\* clear_active_service_session; start_with_existing_service stores the one granted.
NoSession == session' = 0
Granted   == svc.session + 1

\* replace_service_core_with_config: stop_core_by_service ends the session ...
StopForUpdate ==
    /\ At("replace") /\ mode = "Service"
    /\ mode' = "NotRunning" /\ NoSession /\ core' = Down
    /\ UNCHANGED <<syncVars, lifecycle, runtime, update, svc, app, stamp, bounds>>

\* ... and run_core_by_service begins another, with the same bundle.
StartForUpdate ==
    /\ At("replace") /\ mode = "NotRunning"
    /\ \/ /\ Collectable(update.config) /\ svc.session < MaxSession /\ Works
          /\ mode' = "Service" /\ session' = Granted
          /\ svc' = [session |-> session', files |-> Kept(update.config)]
          /\ core' = Running(update.config)
          /\ UpdateTo("commit") /\ RequestRuntimeProviderSync
       \/ /\ IF Collectable(update.config) /\ svc.session < MaxSession THEN Fails ELSE Works
          /\ Over /\ UNCHANGED <<mode, session, svc, core, syncVars>>
    /\ lifecycle' = Free
    /\ UNCHANGED <<runtime, app, stamp, asks, updates>>

\* The runtime layer is committed once the lifecycle lock has been given back.
CommitUpdate ==
    /\ At("commit")
    /\ runtime' = update.config /\ Over
    /\ UNCHANGED <<syncVars, mode, session, lifecycle, core, svc, app, stamp, bounds>>

UpdateStep ==
    \/ ApplyToSidecar \/ LockForUpdate \/ Stage \/ ReloadStaged
    \/ StopForUpdate \/ StartForUpdate \/ CommitUpdate

\* restart_core and the hand-overs between the Service and a Sidecar, with the
\* runtime that is committed (start_core_by_service_with_config).
StartByService ==
    /\ lifecycle = Free /\ update.pc = "idle" /\ svc.session < MaxSession /\ Collectable(runtime)
    /\ mode' = "Service" /\ session' = Granted
    /\ svc' = [session |-> session', files |-> Kept(runtime)]
    /\ core' = Running(runtime)
    /\ RequestRuntimeProviderSync
    /\ UNCHANGED <<lifecycle, runtime, update, app, stamp, bounds>>

StartSidecar ==
    /\ lifecycle = Free /\ update.pc = "idle" /\ mode # "Sidecar"
    /\ mode' = "Sidecar" /\ NoSession
    /\ core' = Running(runtime)
    /\ UNCHANGED <<syncVars, lifecycle, runtime, update, svc, app, stamp, bounds>>

\* Another owner takes the Service over: it ends the core and the session.
SessionTaken ==
    /\ mode = "Service" /\ svc.session = session /\ svc.session < MaxSession
    /\ svc' = [svc EXCEPT !.session = svc.session + 1]
    /\ core' = Down
    /\ UNCHANGED <<syncVars, mode, session, lifecycle, runtime, update, app, stamp, bounds>>

-----------------------------------------------------------------------------
(* The core.  Under the Service it truncates a cache, fills it and then reports
   that it loaded it; it may stop in between. *)

File(url, whole) == [url |-> url, stamp |-> stamp', whole |-> whole, fresh |-> TRUE]
InService == core.up /\ mode = "Service" /\ svc.session = session

CoreWrites(r) ==
    LET d == r.destination IN
    /\ InService /\ stamp < MaxStamp /\ stamp' = stamp + 1
    /\ \E whole \in BOOLEAN :
         /\ whole <=> d \in DOMAIN svc.files /\ ~svc.files[d].whole /\ svc.files[d].url = r.url
         /\ svc' = [svc EXCEPT !.files = Put(@, d, File(r.url, whole))]
    /\ UNCHANGED core

CoreLoads(r) ==
    LET d == r.destination IN
    /\ InService /\ d \in DOMAIN svc.files /\ svc.files[d].whole
    /\ Get(core.loaded, r.name) # svc.files[d].stamp
    /\ core' = [core EXCEPT !.loaded = Put(@, r.name, svc.files[d].stamp)]
    /\ UNCHANGED <<svc, stamp>>

\* RUNTIME_PROVIDER_SETTLE has gone by since the last write.
Settles(d) ==
    /\ svc.files[d].fresh
    /\ svc' = [svc EXCEPT !.files[d].fresh = FALSE]
    /\ UNCHANGED <<core, stamp>>

CoreStep ==
    /\ \/ \E r \in ProvidersOf(core.config) : CoreWrites(r) \/ CoreLoads(r)
       \/ \E d \in DOMAIN svc.files : Settles(d)
    /\ UNCHANGED <<syncVars, mode, session, lifecycle, runtime, update, app, bounds>>

\* A Sidecar downloads into the app directory itself.
SidecarWrites ==
    /\ core.up /\ mode = "Sidecar" /\ stamp < MaxStamp
    /\ stamp' = stamp + 1
    /\ \E r \in ProvidersOf(core.config) :
         app' = Put(app, r.destination, [stamp |-> stamp', whole |-> TRUE, session |-> 0])
    /\ UNCHANGED <<syncVars, hostVars, svc, bounds>>

-----------------------------------------------------------------------------
(* A pass *)

Set(t, r) == task' = [task EXCEPT ![t] = r]
Temp(t, r) == [task |-> t, beside |-> r.destination]
TempsOf(t, caches) == {Temp(t, c.declared) : c \in caches}
BesideSync == UNCHANGED <<hostVars, svc, stamp, asks, updates>>

\* The pass is over: an error or nothing pending ends the task, else it sleeps
\* and tries again.
PassEnds(t, again) ==
    /\ serial' = Free
    /\ Set(t, IF again /\ task[t].attempt < MaxAttempts
              THEN [Sleeping EXCEPT !.pc = "serial", !.attempt = task[t].attempt + 1]
              ELSE Sleeping)

\* The flag left for the end of the pass.
ClearsFlagAtEnd(t) ==
    /\ task[t].pc = "serial" /\ serial = Free
    /\ serial' = t
    /\ unserved' = FALSE
    /\ Set(t, [task[t] EXCEPT !.pc = "begin"])
    /\ UNCHANGED <<queued, temps, lost, app, faults>>

\* The flag is cleared before the pass reads anything, so that a request made
\* during the pass gets one of its own.
TakeSerial(t) ==
    /\ task[t].pc = "serial" /\ serial = Free
    /\ serial' = t
    /\ queued' = (queued /\ task[t].attempt # 1)
    /\ unserved' = FALSE
    /\ Set(t, [task[t] EXCEPT !.pc = "begin"])
    /\ UNCHANGED <<temps, lost, app, faults>>

\* provider_load_times; the core may not answer.
LoadTimes(times) ==
    IF times # None THEN core.up /\ Works ELSE IF core.up THEN Fails ELSE Works

\* active_service_session, the load times, applied_remote_providers.
Begin(t) ==
    /\ task[t].pc = "begin"
    /\ IF session = 0 THEN PassEnds(t, FALSE) /\ Works
       ELSE /\ \E times \in {core.loaded, None} :
                 /\ LoadTimes(times)
                 /\ Set(t, [task[t] EXCEPT !.pc = "next", !.session = session,
                                           !.todo = ProvidersOf(runtime), !.before = times,
                                           !.apart = core.config # runtime])
            /\ UNCHANGED serial
    /\ UNCHANGED <<queued, temps, unserved, lost, app>>

\* create_sync_temp for the next cache.
NextCache(t) ==
    /\ task[t].pc = "next" /\ task[t].todo # {}
    /\ LET r == CHOOSE x \in task[t].todo : TRUE
           rest == [task[t] EXCEPT !.todo = @ \ {r}] IN
       \/ /\ Set(t, [rest EXCEPT !.pc = "head", !.cache = [declared |-> r, file |-> None]])
          /\ temps' = temps \cup {Temp(t, r)} /\ Works
       \/ /\ Set(t, [rest EXCEPT !.pending = TRUE])
          /\ UNCHANGED temps /\ Fails
    /\ UNCHANGED <<queued, serial, unserved, lost, app>>

\* All are read: the load times once more.  Without both nothing is published.
CompareLoads(t) ==
    /\ task[t].pc = "next" /\ task[t].todo = {}
    /\ \E times \in {core.loaded, None} :
         /\ LoadTimes(times)
         /\ IF None \in {task[t].before, times}
            THEN /\ temps' = temps \ TempsOf(t, task[t].fetched)
                 /\ PassEnds(t, task[t].pending \/ task[t].fetched # {})
            ELSE /\ Set(t, [task[t] EXCEPT !.pc = "verify", !.after = times])
                 /\ UNCHANGED <<temps, serial>>
    /\ UNCHANGED <<queued, unserved, lost, app>>

\* Only the file being read goes.
ReadingLostKeepsOthers(t) ==
    /\ temps' = temps \ {Temp(t, task[t].cache.declared)}
    /\ PassEnds(t, FALSE)

\* The session ended while caches were being read: every temporary file goes.
ReadingLost(t) ==
    /\ temps' = temps \ (TempsOf(t, task[t].fetched) \cup {Temp(t, task[t].cache.declared)})
    /\ PassEnds(t, FALSE)

NotReady(t) ==
    /\ temps' = temps \ {Temp(t, task[t].cache.declared)}
    /\ Set(t, [task[t] EXCEPT !.pc = "next", !.cache = None, !.pending = TRUE])
    /\ UNCHANGED serial

\* read_chunk, at the first chunk or at the end: an error, a session that is
\* lost, or a file that is absent, too recent or not the one before.
Readable(t) ==
    LET f == Get(svc.files, task[t].cache.declared.destination) IN
    /\ f # None /\ ~f.fresh
    /\ task[t].cache.file # None => f.stamp = task[t].cache.file.stamp

FetchRuntimeFile(t) ==
    /\ task[t].pc \in {"head", "tail"}
    /\ \/ Works /\ svc.session # task[t].session /\ ReadingLost(t)
       \/ (Fails \/ (Works /\ ~Readable(t))) /\ svc.session = task[t].session /\ NotReady(t)
       \/ /\ Works /\ svc.session = task[t].session /\ Readable(t)
          /\ LET cache == [task[t].cache EXCEPT !.file = svc.files[task[t].cache.declared.destination]] IN
             IF task[t].pc = "head"
             THEN Set(t, [task[t] EXCEPT !.pc = "tail", !.cache = cache])
             ELSE Set(t, [task[t] EXCEPT !.pc = "next", !.cache = None, !.fetched = @ \cup {cache}])
          /\ UNCHANGED <<serial, temps>>
    /\ UNCHANGED <<queued, unserved, lost, app>>

\* The load times of the provider compared with each other only.
SameLoad(t, c) == Get(task[t].before, c.declared.name) = Get(task[t].after, c.declared.name)

\* updatedAt did not move and is not older than the file; without one the file
\* is trusted once it has settled (finished_loading).
FinishedLoading(t, c) ==
    LET before == Get(task[t].before, c.declared.name)
        after == Get(task[t].after, c.declared.name) IN
    /\ before = after
    /\ after # None => c.file.stamp <= after

\* recheck_identity
SameIdentity(c) ==
    LET f == Get(svc.files, c.declared.destination) IN f # None /\ f.stamp = c.file.stamp

Verify(t) ==
    /\ task[t].pc = "verify"
    /\ IF task[t].fetched = {}
       THEN Set(t, [task[t] EXCEPT !.pc = "publish", !.after = <<>>]) /\ Works /\ UNCHANGED <<serial, temps, lost>>
       ELSE LET c == CHOOSE x \in task[t].fetched : TRUE
                rest == [task[t] EXCEPT !.fetched = @ \ {c}]
                pending == [rest EXCEPT !.pending = TRUE] IN
            IF ~FinishedLoading(t, c)
            THEN Set(t, pending) /\ temps' = temps \ {Temp(t, c.declared)} /\ Works /\ UNCHANGED <<serial, lost>>
            ELSE \/ \* the caches not verified yet keep their temporary files
                    /\ svc.session # task[t].session /\ Works
                    /\ temps' = temps \ TempsOf(t, task[t].ready \cup {c})
                    /\ lost' = TRUE /\ PassEnds(t, FALSE)
                 \/ /\ svc.session = task[t].session /\ (Fails \/ (Works /\ ~SameIdentity(c)))
                    /\ Set(t, pending) /\ temps' = temps \ {Temp(t, c.declared)} /\ UNCHANGED <<serial, lost>>
                 \/ /\ svc.session = task[t].session /\ SameIdentity(c) /\ Works
                    /\ Set(t, [rest EXCEPT !.ready = @ \cup {c}]) /\ UNCHANGED <<serial, temps, lost>>
    /\ UNCHANGED <<queued, unserved, app>>

\* publish_fetched: under the lifecycle lock, what the session and the committed
\* runtime still stand for.
StillServed(t) == mode = "Service" /\ session = task[t].session
Allowed(t) == IF StillServed(t) THEN ProvidersOf(runtime) ELSE {}

LockToPublish(t) ==
    /\ task[t].pc = "publish" /\ lifecycle = Free
    /\ lifecycle' = t
    /\ Set(t, [task[t] EXCEPT !.pc = "rename", !.allowed = Allowed(t)])
    /\ UNCHANGED <<queued, serial, temps, unserved, lost, app, mode, session, runtime, update, core,
                   svc, stamp, bounds>>

Published(t, c) == [stamp |-> c.file.stamp, whole |-> c.file.whole, session |-> task[t].session]
SameContents(c) ==
    LET d == c.declared.destination IN d \in DOMAIN app /\ app[d].stamp = c.file.stamp

Rename(t) ==
    /\ task[t].pc = "rename" /\ task[t].ready # {}
    /\ LET c == CHOOSE x \in task[t].ready : TRUE
           target == c.declared.destination IN
       /\ Set(t, [task[t] EXCEPT !.ready = @ \ {c}])
       /\ temps' = temps \ {Temp(t, c.declared)}
       /\ \/ /\ c.declared \notin task[t].allowed \/ SameContents(c)
             /\ UNCHANGED app /\ Works
          \/ /\ c.declared \in task[t].allowed /\ ~SameContents(c)
             /\ \/ app' = Put(app, target, Published(t, c)) /\ Works
                \/ UNCHANGED app /\ Fails
    /\ UNCHANGED <<queued, serial, unserved, lost>> /\ BesideSync

Unlock(t) ==
    /\ task[t].pc = "rename" /\ task[t].ready = {}
    /\ lifecycle' = Free /\ PassEnds(t, task[t].pending)
    /\ UNCHANGED <<queued, temps, unserved, lost, app, mode, session, runtime, update, core, svc, stamp, bounds>>

TaskStep(t) ==
    \/ /\ \/ TakeSerial(t) \/ Begin(t) \/ NextCache(t)
          \/ FetchRuntimeFile(t) \/ CompareLoads(t) \/ Verify(t)
       /\ BesideSync
    \/ LockToPublish(t) \/ Rename(t) \/ Unlock(t)

-----------------------------------------------------------------------------
SyncNext ==
    \/ SyncRuntimeProviders \/ UpdateStep
    \/ \E c \in Configs : StartUpdate(c)
    \/ StartByService \/ StartSidecar \/ SessionTaken
    \/ CoreStep \/ SidecarWrites
    \/ \E t \in Tasks : TaskStep(t)

\* Requests to the Service and the core have timeouts, sleeps end, and an update
\* gives the lifecycle lock back.
SyncSpec == SyncInit /\ [][SyncNext]_providerVars /\ WF_providerVars(UpdateStep \/ \E t \in Tasks : TaskStep(t))

-----------------------------------------------------------------------------
(* Properties *)

SyncTypeOK ==
    /\ mode \in {"Service", "Sidecar", "NotRunning"}
    /\ session \in {0, svc.session} \cup 1 .. MaxSession
    /\ lifecycle \in {Free, Update} \cup Tasks /\ serial \in {Free} \cup Tasks
    /\ \A t \in Tasks : task[t].attempt \in 0 .. MaxAttempts

(* Whatever profiles declare, no file of the runtime directory has two sources,
   also in the configuration being applied.  (resolve_provider_path_conflicts,
   collect_provider_assets) *)
OneSource ==
    [c \in Generated |-> \A raw \in Configs \cup {First, <<>>} : Resolved(raw) = c => OneSourceIn(raw)]
OneSourcePerCache == SyncTypeOK /\ OneSource[runtime] /\ OneSource[update.config]

(* A pass that publishes: what changes in the app directory. *)
Publishes(d) == lifecycle \in Tasks /\ task' # task /\ Get(app', d) # Get(app, d)

\* Whole, unless the core gave no time at which it loaded that provider, or ran
\* another configuration than the committed one when the pass asked: load times are
\* known by name, so they may then be those of another file.
Whole(d) ==
    \/ app'[d].whole
    \/ task[lifecycle].apart
    \/ \E c \in task[lifecycle].ready :
                        c.declared.destination = d /\ c.declared.name \notin DOMAIN task[lifecycle].before
\* Of the session the app still has, and for a file the configuration committed
\* when the pass took the lock asks for.
Own(d) ==
    /\ mode = "Service" /\ app'[d].session = session
    /\ \E r \in task[lifecycle].allowed : r.destination = d
\* Never older than what the same session has published before.
Newer(d) == Get(app, d) # None /\ app[d].session = app'[d].session => app'[d].stamp > app[d].stamp

(* "Serializing the whole read-and-publish pass prevents an older cache from
   replacing a newer one"; "mihomo rewrites caches in place; reject changing or
   recently modified files"; "Hold the lifecycle lock through publication".  *)
PublishedCachesAreSound ==
    [][\A d \in DOMAIN app' : Publishes(d) => Whole(d) /\ Own(d) /\ Newer(d)]_providerVars

(* Every request, also one made during a pass, is followed by a pass that starts
   after it. *)
RequestsAreServed == []<>(~unserved)

(* No pass leaves a temporary file behind, whichever step of it failed, but for
   the caches not yet verified when the session ended. *)
TemporaryFilesGo == serial = Free /\ ~lost => temps = {}

=============================================================================
