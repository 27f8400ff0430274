---------------------------- MODULE CoreLifecycle ----------------------------
(***************************************************************************)
(* The core manager (src-tauri/src/core/manager) and the owner monitors of *)
(* the privileged Service (src-tauri/src/core/service.rs): how one mihomo  *)
(* core is started, stopped and replaced, as a Sidecar child or by the     *)
(* Service, while other tasks find out that it is gone.                    *)
(*                                                                         *)
(* Whoever holds lifecycle_lock runs one body at a time, so the body is    *)
(* one program counter `at`, "free" when nobody holds the lock.  Tasks     *)
(* that do not hold it move in between: owner monitors and log readers     *)
(* that conclude that the Service no longer works for this owner, and the  *)
(* task that drains a Sidecar's output and sees it end.                    *)
(*                                                                         *)
(* The three platforms differ in a few branches: macOS may leave the proxy *)
(* to the Service, Windows falls back to a Sidecar when the Service does   *)
(* not start the core, and hands that Sidecar over once the Service is     *)
(* ready.  The system proxy and its guard are the switch they leave on or  *)
(* off; configuration, PAC and DNS are left out.  The readiness word and   *)
(* the owner generation do not wrap.                                       *)
(***************************************************************************)
EXTENDS Naturals, FiniteSets

CONSTANTS
    Callers,    \* tasks that ask for one lifecycle command each
    Readers,    \* tasks that poll the Service's core log
    Scenarios,  \* bound: the platform, what callers ask for, who polls
    Monitor     \* stands for the task start_owner_monitor spawns

None     == 0  \* no process, no session, no generation
Platforms == {"linux", "macos", "windows"}
Commands == {"start", "stop", "restart", "reapply", "quit", "relaunch",
             "sidecar", "uninstall", "reinstall", "handoff"}
Bodies   == Commands \cup {"handback"}   \* a handoff that failed, on its way back to a Sidecar
Flagged  == {"start", "restart", "sidecar", "uninstall", "handoff", "handback"}   \* take config_update_in_progress first
Handing  == {"sidecar", "uninstall", "handback"}   \* pass the core on to a Sidecar, or end with none
Leaving  == {"quit", "relaunch"}   \* stop the core in order to leave the app
Modes    == {"NotRunning", "Service", "Sidecar"}

ASSUME CoreLifecycleAssumption ==
    /\ \A s \in Scenarios :
         /\ s.platform \in Platforms /\ s.readers \subseteq Readers
         /\ s.asks \in [Callers -> SUBSET Commands]
         /\ s.platform = "windows" \/ \A c \in Callers : "handoff" \notin s.asks[c]
    /\ Monitor \notin Readers

Places   == {"free", "recovering",
             "stop", "kill", "ask", "reap", "helper", "prepare", "unwind", "unreap",
             "start", "service", "handover", "fallback", "unavailable", "fellback", "request", "granted", "marked",
             "sidecar", "spawn", "spawned", "poll", "polled",
             "settle", "capture", "apply", "check", "guard", "recheck", "undo"}
Readiness == [active : BOOLEAN, gen : Nat]
Expected  == [mode : Modes, ready : Nat, owner : Nat]

(* A monitor or a log reader on its way to recover_after_owner_loss. *)
Task == [who : Readers \cup {Monitor}, gen : Nat,
         pc  : {"watching", "lost", "claiming", "claimed", "queued", "recovering"},
         why : {"none", "displaced", "failed", "transport"}]

(* The task that drains the output of one Sidecar. *)
Drain == [pid : Nat \ {None}, gen : Nat, pc : {"reading", "queued"}]

VARIABLES
    scenario,         \* the instance; its platform is cfg!(target_os = ...)
    want,             \* what each caller asks for, or "idle", or "done"
    updating,         \* CoreManager.config_update_in_progress
    exiting,          \* Handle.is_exiting
    exited,           \* the app has left
    at, op, expected, \* the body under lifecycle_lock: where it stands, its
                      \* command, its ProxyRestoreExpectation
    mode, ready,      \* Running Mode; core_readiness_state
    ownerGen,         \* OWNER_MONITOR_GENERATION
    session,          \* ACTIVE_SERVICE_SESSION
    tasks,            \* monitors and log readers
    child, exit,      \* State.child_sidecar; sidecar_exit, by pid
    drains,           \* tasks that drain a Sidecar
    proxy, guard,     \* the system proxy is on; a guard keeps it on
    alive, spawned,   \* Sidecar processes that live; the last pid
    svc, grants       \* the Service: the session it honours and whether it
                      \* runs a core for it; the last session it granted

platform == scenario.platform

body    == <<at, op, expected>>
asked   == <<want, updating, exiting, exited>>
core    == <<mode, ready>>
owner   == <<ownerGen, session, tasks>>
sidecar == <<child, exit, drains, alive, spawned>>
proxies == <<proxy, guard>>
service == <<svc, grants>>
vars == <<scenario, body, asked, core, owner, sidecar, proxies, service>>

NoExpectation == [mode |-> "NotRunning", ready |-> 0, owner |-> None]

Init ==
    /\ scenario \in Scenarios
    /\ want = [c \in Callers |-> "idle"] /\ updating = FALSE
    /\ exiting = FALSE /\ exited = FALSE
    /\ at = "free" /\ op = "stop" /\ expected = NoExpectation
    /\ mode = "NotRunning" /\ ready = [active |-> FALSE, gen |-> 0]
    /\ ownerGen = 0 /\ session = None /\ tasks = {}
    /\ child = None /\ exit = None /\ drains = {} /\ alive = {} /\ spawned = 0
    /\ proxy = FALSE /\ guard = FALSE
    /\ svc = [session |-> None, core |-> FALSE] /\ grants = 0

-----------------------------------------------------------------------------
(* Operations on the shared words *)

NextActive(r) == [active |-> TRUE, gen |-> r.gen + 1]
Inactive(r)   == IF r.active THEN [active |-> FALSE, gen |-> r.gen + 1] ELSE r

MarkReady   == ready' = NextActive(ready)
CoreStarted(m) == mode' = m
CoreStopped == mode' = "NotRunning" /\ ready' = Inactive(ready)

(* start_owner_monitor: the new generation and its monitor. *)
SpawnMonitor ==
    /\ ownerGen' = ownerGen + 1
    /\ tasks' = tasks \cup {[who |-> Monitor, gen |-> ownerGen', pc |-> "watching", why |-> "none"]}

CancelMonitors == ownerGen' = ownerGen + 1 /\ UNCHANGED tasks

(* A clear of the system proxy also stops its guard; it may fail. *)
Cleared     == proxy' = FALSE /\ guard' = FALSE
ClearFailed == proxy' = proxy /\ guard' \in {guard, FALSE}

(* The body goes on at p, or ends and gives the lock back. *)
Goto(p) == at' = p /\ UNCHANGED <<op, expected, asked>>

(* A failed stop cancels a relaunch, and clears the flag of a quit that
   leaves all the same. *)
End(ok) ==
    /\ at' = "free" /\ expected' = NoExpectation /\ UNCHANGED <<op, want>>
    /\ updating' = (updating /\ op \notin Flagged)
    /\ exiting' = (exiting /\ (op \notin Leaving \/ ok))
    /\ exited' = (op = "quit" \/ (op = "relaunch" /\ ok))

(* A failed start or apply ends the command; one that hands the core over to a
   Sidecar takes back what it started, and a handoff to the Service stops what
   there is and starts the Sidecar again. *)
Fail ==
    CASE op = "handoff"  -> at' = "stop" /\ op' = "handback" /\ expected' = NoExpectation /\ UNCHANGED asked
      [] op \in Handing  -> Goto("unwind")
      [] OTHER           -> End(FALSE)

(* rollback_failed_start, which a handoff does without. *)
Rollback ==
    /\ IF op \in {"handoff", "handback"} THEN UNCHANGED <<guard, core>> ELSE guard' = FALSE /\ CoreStopped
    /\ Fail

(* run_service_start_with_sidecar_fallback: the Service did not start the core
   and did not refuse it either. *)
ServiceDown ==
    IF platform = "windows" /\ op # "handoff"
    THEN Goto("fallback") /\ UNCHANGED <<core, guard>>
    ELSE Rollback

-----------------------------------------------------------------------------
(* Commands *)

Ask(c) ==
    /\ want[c] = "idle"
    /\ \E cmd \in scenario.asks[c] :
        /\ cmd = "handoff" => mode = "Sidecar"
        /\ want' = [want EXCEPT ![c] = cmd]
        /\ exiting' = (exiting \/ cmd \in Leaving)
        /\ cmd \in Flagged => ~updating
        /\ updating' = (updating \/ cmd \in Flagged)
    /\ UNCHANGED <<exited, body, core, owner, sidecar, proxies, service>>

Begin(c) ==
    /\ at = "free" /\ want[c] \in Commands
    /\ op' = want[c] /\ want' = [want EXCEPT ![c] = "done"]
    /\ at' = CASE want[c] = "start"   -> "start"
               [] want[c] = "reapply" -> "capture"
               [] want[c] = "sidecar" -> "prepare"
               [] OTHER               -> "stop"
    /\ UNCHANGED <<expected, updating, exiting, exited>>
    /\ UNCHANGED <<core, owner, sidecar, proxies, service>>

(* controlled_stop_core_with_intent: the proxy is dealt with first.  The
   Service clears its own on macOS, and a restart that hands a macOS Sidecar
   over to the Service leaves it on. *)
HandsOver == platform = "macos" /\ (mode = "Service" \/ (mode = "Sidecar" /\ op = "restart"))

(* What a command does once the core is stopped. *)
AfterStop ==
    IF at = "unreap" THEN End(FALSE)
    ELSE CASE op = "restart"                   -> Goto("start")
           [] op \in {"uninstall", "reinstall"} -> Goto("helper")
           [] op = "handoff"                   -> Goto("handover")
           [] op = "handback"                  -> Goto("fellback")
           [] OTHER                            -> End(TRUE)

StopNothing ==
    /\ at = "stop" /\ mode = "NotRunning" /\ op # "handoff"
    /\ AfterStop
    /\ UNCHANGED <<core, owner, sidecar, proxies, service>>

(* try_handoff_sidecar_to_service, under the lock: there is no Sidecar any more,
   TUN was switched off, or the user accepted the Sidecar. *)
HandoffSkipped ==
    /\ at = "stop" /\ op = "handoff"
    /\ End(TRUE)
    /\ UNCHANGED <<core, owner, sidecar, proxies, service>>

StopGuardOnly ==
    /\ at = "stop" /\ HandsOver
    /\ guard' = FALSE /\ UNCHANGED proxy
    /\ Goto("kill")
    /\ UNCHANGED <<core, owner, sidecar, service>>

\* mutant: the core is stopped whether or not the proxy could be cleared
StopAnyway ==
    /\ at = "stop" /\ mode # "NotRunning" /\ ~(platform = "macos" /\ mode = "Service")
    /\ (Cleared \/ ClearFailed) /\ Goto("kill")
    /\ UNCHANGED <<core, owner, sidecar, service>>

ClearBeforeStop ==
    /\ at = "stop" /\ mode # "NotRunning" /\ ~(platform = "macos" /\ mode = "Service")
    /\ op = "handoff" => mode = "Sidecar"
    /\ \/ Cleared /\ Goto("kill")
       \/ ClearFailed /\ End(FALSE)
    /\ UNCHANGED <<core, owner, sidecar, service>>

(* stop_core_by_service *)
CancelThenAsk ==
    /\ at = "kill" /\ mode = "Service"
    /\ CancelMonitors /\ UNCHANGED session
    /\ Goto("ask")
    /\ UNCHANGED <<core, sidecar, proxies, service>>

ServiceStops ==
    /\ at = "ask" /\ session = svc.session
    /\ svc' = [session |-> None, core |-> FALSE]
    /\ session' = None /\ CoreStopped
    /\ AfterStop
    /\ UNCHANGED <<ownerGen, tasks, sidecar, proxies, grants>>

\* mutant: the monitor that was cancelled is not replaced
StopRefusedUnwatched ==
    /\ at = "ask"
    /\ End(FALSE)
    /\ UNCHANGED <<owner, core, sidecar, proxies, service>>

(* Unreachable, or refused for another reason: the core is still the Service's
   to run, so it is watched again. *)
StopRefused ==
    /\ at = "ask"
    /\ SpawnMonitor
    /\ End(FALSE)
    /\ UNCHANGED <<session, core, sidecar, proxies, service>>

(* recover_after_owner_loss_while_locked: the proxy is reset unless the
   machine-wide macOS setting now belongs to somebody else. *)
RecoverLocked(why) ==
    /\ guard' = FALSE
    /\ IF platform # "macos" \/ why = "failed" THEN proxy' \in {FALSE, proxy} ELSE proxy' = proxy
    /\ session' = None /\ CoreStopped

StopFindsDisplaced ==
    /\ at = "ask" /\ session # svc.session
    /\ RecoverLocked("displaced")
    /\ End(FALSE)
    /\ UNCHANGED <<ownerGen, tasks, sidecar, service>>

(* stop_core_by_sidecar_unprepared *)
KillSidecar ==
    /\ at = "kill" /\ mode = "Sidecar"
    /\ child' = None
    /\ Goto("reap")
    /\ UNCHANGED <<core, owner, exit, drains, alive, spawned, proxies, service>>

(* wait_for_sidecar_exit: the handle is dropped only once the process ended. *)
SidecarGone  == exit \notin alive /\ exit' = None

\* mutants: the handle is taken before it is awaited; the wait has no end
ForgetOnTimeout == exit \in alive /\ exit' = None
WaitForever     == FALSE /\ UNCHANGED exit

ExitTimesOut == exit \in alive /\ UNCHANGED exit

ReapSidecar ==
    /\ at \in {"reap", "unreap"}
    /\ \/ SidecarGone /\ AfterStop
       \/ ExitTimesOut /\ End(FALSE)
    /\ CoreStopped
    /\ UNCHANGED <<owner, child, drains, alive, spawned, proxies, service>>

(* handle_service_status: the privileged helper removes the Service, puts a new
   one in its place, or fails. *)
ReinstallService ==
    /\ at = "helper" /\ op = "reinstall"
    /\ \/ UNCHANGED svc
       \/ svc' = [session |-> None, core |-> FALSE]
    /\ \E ok \in BOOLEAN : End(ok)
    /\ UNCHANGED <<core, owner, sidecar, proxies, grants>>

(* Nothing follows a helper that fails, or a configuration without TUN that
   cannot be made. *)
UninstallService ==
    /\ at = "helper" /\ op = "uninstall"
    /\ \/ svc' = [session |-> None, core |-> FALSE] /\ (Goto("start") \/ Fail)
       \/ UNCHANGED svc /\ Fail
    /\ UNCHANGED <<core, owner, sidecar, proxies, grants>>

(* continue_with_sidecar: refused by the Service's status, or the allowance or
   the configuration fails, before anything is touched; otherwise the guard is
   dropped last. *)
AllowSidecar ==
    /\ at = "prepare"
    /\ \/ mode # "Service" /\ guard' = FALSE /\ Goto("start")
       \/ UNCHANGED guard /\ End(FALSE)
    /\ UNCHANGED <<core, owner, sidecar, proxy, service>>

(* rollback_failed_sidecar_transition: a Sidecar that runs is killed once the
   proxy is off it; anything else is only declared stopped. *)
UnwindSidecar ==
    /\ at = "unwind" /\ mode = "Sidecar"
    /\ \/ Cleared /\ child' = None /\ Goto("unreap")
       \/ ClearFailed /\ UNCHANGED child /\ End(FALSE)
    /\ UNCHANGED <<core, owner, exit, drains, alive, spawned, service>>

UnwindStart ==
    /\ at = "unwind" /\ mode # "Sidecar"
    /\ guard' = FALSE /\ CoreStopped
    /\ End(FALSE)
    /\ UNCHANGED <<owner, sidecar, proxy, service>>

(* start_core_inner: while exiting, or with a core running, nothing happens. *)
StartSkipped ==
    /\ at = "start" /\ (exiting \/ mode # "NotRunning")
    /\ Goto("settle")
    /\ UNCHANGED <<core, owner, sidecar, proxies, service>>

(* prepare_startup decides from the Service's status and the TUN setting;
   "wait" leaves everything stopped and is no failure. *)
Decide ==
    /\ at = "start" /\ ~exiting /\ mode = "NotRunning"
    /\ \/ Goto("service") /\ UNCHANGED <<core, guard>>
       \/ Goto("sidecar") /\ UNCHANGED <<core, guard>>
       \/ /\ Goto("settle") \/ (platform = "windows" /\ Goto("unavailable"))
          /\ CoreStopped /\ guard' = FALSE
    /\ UNCHANGED <<owner, sidecar, proxy, service>>

StartAbandoned ==
    /\ at \in {"service", "sidecar"} /\ exiting
    /\ CoreStopped
    /\ Goto("settle")
    /\ UNCHANGED <<owner, sidecar, proxies, service>>

(* The configuration cannot be written, or the Service is not ready after all. *)
PrepareService ==
    /\ at = "handover" \/ (at = "service" /\ ~exiting)
    /\ \/ session' = None /\ Goto("request") /\ UNCHANGED <<core, guard>>
       \/ ServiceDown /\ UNCHANGED session
    /\ UNCHANGED <<ownerGen, tasks, sidecar, proxy, service>>

(* start_with_existing_service *)
ServiceGrants ==
    /\ at = "request"
    /\ grants' = grants + 1 /\ svc' = [session |-> grants + 1, core |-> TRUE]
    /\ session' = grants + 1
    /\ SpawnMonitor
    /\ Goto("granted")
    /\ UNCHANGED <<core, sidecar, proxies>>

(* Refused, or no answer: a lost answer can hide a core that the Service runs. *)
ServiceStartFails ==
    /\ at = "request"
    /\ \/ UNCHANGED service /\ (Rollback \/ ServiceDown)
       \/ /\ grants' = grants + 1 /\ svc' = [session |-> grants + 1, core |-> TRUE]
          /\ ServiceDown
    /\ SpawnMonitor
    /\ UNCHANGED <<session, sidecar, proxy>>

(* The request was never made: no credentials, or no runtime bundle. *)
ServiceNotAsked ==
    /\ at = "request"
    /\ ServiceDown
    /\ UNCHANGED <<owner, sidecar, proxy, service>>

MarkServiceReady ==
    /\ at = "granted"
    /\ MarkReady /\ UNCHANGED mode
    /\ Goto("marked")
    /\ UNCHANGED <<owner, sidecar, proxies, service>>

ServiceStarted ==
    /\ at = "marked"
    /\ CoreStarted("Service") /\ UNCHANGED ready
    /\ Goto("settle")
    /\ UNCHANGED <<owner, sidecar, proxies, service>>

(* start_sidecar_after_service_failure, once no core occupies the machine: "a
   lost start response can hide a running core". *)
FallBack ==
    /\ at \in {"fallback", "unavailable"} /\ ~svc.core /\ ~exiting
    /\ Goto("fellback")
    /\ UNCHANGED <<core, owner, sidecar, proxies, service>>

(* A core may be there, the app is leaving, or the Sidecar is not allowed: a
   start that failed has failed, one that only waited is over. *)
FallbackWithheld ==
    /\ \/ at = "fallback" /\ Rollback
       \/ at = "unavailable" /\ (Goto("settle") \/ Fail) /\ UNCHANGED <<core, guard>>
    /\ UNCHANGED <<owner, sidecar, proxy, service>>

(* start_core_by_sidecar: no new process before the last one is known to be
   gone. *)
AwaitLastSidecar ==
    /\ at = "fellback" \/ (at = "sidecar" /\ ~exiting)
    /\ \/ SidecarGone /\ Goto("spawn") /\ CoreStopped /\ UNCHANGED guard
       \/ ExitTimesOut /\ Rollback
    /\ UNCHANGED <<owner, child, drains, alive, spawned, proxy, service>>

(* Another core occupies the machine, or the configuration or the process
   cannot be made. *)
SpawnFails ==
    /\ at = "spawn"
    /\ Rollback
    /\ UNCHANGED <<owner, sidecar, proxy, service>>

SpawnSidecar ==
    /\ at = "spawn"
    /\ spawned' = spawned + 1
    /\ alive' = alive \cup {spawned + 1}
    /\ exit' = spawned + 1
    /\ Goto("spawned")
    /\ UNCHANGED <<core, owner, child, drains, proxies, service>>

\* mutants: the pid is the stored child's, which is set only later; the
\* generation is read before the core is marked ready
DrainOfChild == [pid |-> child, gen |-> ready'.gen, pc |-> "reading"]
DrainOfOldGeneration == [pid |-> spawned, gen |-> ready.gen, pc |-> "reading"]

(* The drain captures the generation its process was marked ready with. *)
NewDrain == [pid |-> spawned, gen |-> ready'.gen, pc |-> "reading"]

DrainSidecar ==
    /\ at = "spawned"
    /\ MarkReady /\ UNCHANGED mode
    /\ drains' = drains \cup {NewDrain}
    /\ Goto("poll")
    /\ UNCHANGED <<owner, child, exit, alive, spawned, proxies, service>>

SidecarAnswers ==
    /\ at = "poll" /\ spawned \in alive
    /\ Goto("polled")
    /\ UNCHANGED <<core, owner, sidecar, proxies, service>>

SidecarSilent ==
    /\ at = "poll"
    /\ Rollback
    /\ UNCHANGED <<owner, sidecar, proxy, service>>

SidecarStarted ==
    /\ at = "polled"
    /\ child' = spawned
    /\ CoreStarted("Sidecar") /\ UNCHANGED ready
    /\ Goto("settle")
    /\ UNCHANGED <<owner, exit, drains, alive, spawned, proxies, service>>

(* A start that left no ready core, or not the Sidecar it was meant for, is
   over; only a plain start takes that for success. *)
Settled ==
    /\ mode # "NotRunning" /\ ready.active
    /\ op \in Handing => mode = "Sidecar"
    /\ op = "handoff" => mode = "Service"

Settle ==
    /\ at = "settle"
    /\ IF Settled THEN Goto("capture") ELSE IF op = "start" THEN End(TRUE) ELSE Fail
    /\ UNCHANGED <<core, owner, sidecar, proxies, service>>

-----------------------------------------------------------------------------
(* apply_proxy_after_start *)

Expectation == [mode  |-> mode, ready |-> ready.gen,
                owner |-> IF mode = "Service" THEN ownerGen ELSE None]

StillValid == mode # "NotRunning" /\ ready.active /\ expected = Expectation

CaptureExpectation ==
    /\ at = "capture" /\ mode # "NotRunning" /\ ready.active
    /\ expected' = Expectation /\ at' = "apply" /\ UNCHANGED <<op, asked>>
    /\ UNCHANGED <<core, owner, sidecar, proxies, service>>

RefusedUnready ==
    /\ at = "capture" /\ ~(mode # "NotRunning" /\ ready.active)
    /\ Fail
    /\ UNCHANGED <<core, owner, sidecar, proxies, service>>

(* On macOS the write of a Service core goes through the Service, which takes
   it from the session it honours only; and it is left to the network watcher
   while there is no network.  A failed write may leave the setting off. *)
ApplyProxy ==
    /\ at = "apply"
    /\ \/ /\ ~(platform = "macos" /\ mode = "Service") \/ session = svc.session
          /\ proxy' = TRUE
          /\ Goto("check")
       \/ proxy' \in {proxy, FALSE} /\ Fail
       \/ platform = "macos" /\ UNCHANGED proxy /\ End(TRUE)
    /\ UNCHANGED <<core, owner, sidecar, guard, service>>

CheckApplied ==
    /\ at = "check"
    /\ IF StillValid THEN Goto("guard") ELSE Goto("undo")
    /\ UNCHANGED <<core, owner, sidecar, proxies, service>>

RefreshGuard ==
    /\ at = "guard" /\ UNCHANGED proxy
    /\ \/ guard' = TRUE /\ Goto("recheck")
       \/ guard' = FALSE /\ Fail
    /\ UNCHANGED <<core, owner, sidecar, service>>

CheckGuarded ==
    /\ at = "recheck"
    /\ IF StillValid THEN End(TRUE) ELSE Goto("undo")
    /\ UNCHANGED <<core, owner, sidecar, proxies, service>>

UndoApply ==
    /\ at = "undo"
    /\ proxy' \in {FALSE, proxy} /\ guard' = FALSE
    /\ Fail
    /\ UNCHANGED <<core, owner, sidecar, service>>

-----------------------------------------------------------------------------
(* Tasks that move without lifecycle_lock *)

Drop(t)       == tasks' = tasks \ {t}
Move(t, u)    == tasks' = (tasks \ {t}) \cup {u}
Loses(t, why) == Move(t, [t EXCEPT !.pc = "lost", !.why = why])

(* start_owner_monitor's loop.  Its first look comes OWNER_MONITOR_INTERVAL
   after the spawn; core_started follows the spawn without an await, so no
   look falls between the two. *)
Settling == at \in {"granted", "marked"}

MonitorStops(t) ==
    /\ t.who = Monitor /\ t.pc = "watching" /\ ~Settling
    /\ ownerGen # t.gen \/ mode # "Service"
    /\ Drop(t)
    /\ UNCHANGED <<asked, body, core, ownerGen, session, sidecar, proxies, service>>

(* A reading that makes OwnerWatch ask for recovery.  Three unreadable ones and
   a silent endpoint do too, whatever the Service is doing. *)
MonitorNotices(t) ==
    /\ t.who = Monitor /\ t.pc = "watching" /\ ~Settling
    /\ ownerGen = t.gen /\ mode = "Service"
    /\ \/ svc.session # session /\ Loses(t, "displaced")
       \/ svc.session = session /\ ~svc.core /\ Loses(t, "failed")
       \/ Loses(t, "transport")
    /\ UNCHANGED <<asked, body, core, ownerGen, session, sidecar, proxies, service>>

(* get_clash_logs_by_service, get_clash_log_snapshot_by_service: the
   generation is captured before the request. *)
ReaderAsks(r) ==
    /\ mode = "Service" /\ \A t \in tasks : t.who # r
    /\ tasks' = tasks \cup {[who |-> r, gen |-> ownerGen, pc |-> "watching", why |-> "none"]}
    /\ UNCHANGED <<asked, body, core, ownerGen, session, sidecar, proxies, service>>

ReaderHears(t) ==
    /\ t.who # Monitor /\ t.pc = "watching"
    /\ \/ Drop(t)
       \/ svc.session = None /\ Loses(t, "displaced")
    /\ UNCHANGED <<asked, body, core, ownerGen, session, sidecar, proxies, service>>

(* recover_after_owner_loss *)
CheckMode(t) ==
    /\ t.pc = "lost"
    /\ IF mode = "Service" THEN Move(t, [t EXCEPT !.pc = "claiming"]) ELSE Drop(t)
    /\ UNCHANGED <<asked, body, core, ownerGen, session, sidecar, proxies, service>>

ClaimRecovery(t) ==
    /\ t.pc = "claiming"
    /\ IF ownerGen = t.gen
       THEN /\ ownerGen' = t.gen + 1
            /\ Move(t, [t EXCEPT !.pc = "claimed", !.gen = t.gen + 1])
       ELSE Drop(t) /\ UNCHANGED ownerGen
    /\ UNCHANGED <<asked, body, core, session, sidecar, proxies, service>>

InvalidateReadiness(t) ==
    /\ t.pc = "claimed"
    /\ ready' = Inactive(ready) /\ UNCHANGED mode
    /\ Move(t, [t EXCEPT !.pc = "queued"])
    /\ UNCHANGED <<asked, body, ownerGen, session, sidecar, proxies, service>>

\* mutant: the generation is not read again under the lock
StillInService(t) == mode = "Service"

StillLost(t) == ownerGen = t.gen /\ mode = "Service"

EnterRecovery(t) ==
    /\ t.pc = "queued" /\ at = "free"
    /\ IF StillLost(t)
       THEN /\ Move(t, [t EXCEPT !.pc = "recovering"])
            /\ at' = "recovering" /\ UNCHANGED <<op, expected>>
       ELSE Drop(t) /\ UNCHANGED body
    /\ UNCHANGED <<asked, core, ownerGen, session, sidecar, proxies, service>>

Recover(t) ==
    /\ t.pc = "recovering" /\ at = "recovering"
    /\ RecoverLocked(t.why)
    /\ Drop(t)
    /\ at' = "free" /\ UNCHANGED <<op, expected>>
    /\ UNCHANGED <<asked, ownerGen, sidecar, service>>

TaskStep(t) ==
    \/ MonitorStops(t) \/ MonitorNotices(t) \/ ReaderHears(t)
    \/ CheckMode(t) \/ ClaimRecovery(t) \/ InvalidateReadiness(t)
    \/ EnterRecovery(t) \/ Recover(t)

(* CommandEvent::Terminated in the drain of start_core_by_sidecar *)
SidecarTerminated(d) ==
    /\ d.pc = "reading" /\ d.pid \notin alive
    /\ ready' = IF ready = [active |-> TRUE, gen |-> d.gen] THEN Inactive(ready) ELSE ready
    /\ drains' = (drains \ {d}) \cup {[d EXCEPT !.pc = "queued"]}
    /\ UNCHANGED <<asked, body, mode, owner, child, exit, alive, spawned, proxies, service>>

\* mutant: any Sidecar's end clears the running one
AnySidecar(d) == mode = "Sidecar"

ShouldClear(d) == mode = "Sidecar" /\ child = d.pid

\* mutant: the guard is left to notice by itself
ForgetSidecar == child' = None /\ CoreStopped /\ UNCHANGED guard

ClearSidecar == child' = None /\ guard' = FALSE /\ CoreStopped

ClearTerminated(d) ==
    /\ d.pc = "queued" /\ at = "free"
    /\ IF ShouldClear(d) THEN ClearSidecar ELSE UNCHANGED <<child, guard, core>>
    /\ drains' = drains \ {d}
    /\ UNCHANGED <<asked, body, owner, exit, alive, spawned, proxy, service>>

(* The environment: a Sidecar ends, by itself or killed; another owner takes
   the Service; the core it runs for this owner dies for good. *)
SidecarDies ==
    /\ \E p \in alive : alive' = alive \ {p}
    /\ UNCHANGED <<asked, body, core, owner, child, exit, drains, spawned, proxies, service>>

ServiceLost ==
    /\ svc.session # None
    /\ svc' \in {[session |-> None, core |-> FALSE], [svc EXCEPT !.core = FALSE]}
    /\ UNCHANGED <<asked, body, core, owner, sidecar, proxies, grants>>

BodyStep ==
    \/ StopNothing \/ HandoffSkipped \/ StopGuardOnly \/ ClearBeforeStop
    \/ CancelThenAsk \/ ServiceStops \/ StopRefused \/ StopFindsDisplaced
    \/ KillSidecar \/ ReapSidecar
    \/ ReinstallService \/ UninstallService \/ AllowSidecar \/ UnwindSidecar \/ UnwindStart
    \/ StartSkipped \/ Decide \/ StartAbandoned
    \/ PrepareService \/ ServiceGrants \/ ServiceStartFails \/ ServiceNotAsked
    \/ MarkServiceReady \/ ServiceStarted
    \/ FallBack \/ FallbackWithheld
    \/ AwaitLastSidecar \/ SpawnFails \/ SpawnSidecar \/ DrainSidecar
    \/ SidecarAnswers \/ SidecarSilent \/ SidecarStarted
    \/ Settle \/ CaptureExpectation \/ RefusedUnready
    \/ ApplyProxy \/ CheckApplied \/ RefreshGuard \/ CheckGuarded \/ UndoApply

DrainStep(d) == SidecarTerminated(d) \/ ClearTerminated(d)

Step(A) == ~exited /\ UNCHANGED scenario /\ A

Next ==
    /\ ~exited /\ UNCHANGED scenario
    /\ \/ \E c \in Callers : Ask(c) \/ Begin(c)
       \/ BodyStep
       \/ \E r \in scenario.readers : ReaderAsks(r)
       \/ \E t \in tasks : TaskStep(t)
       \/ \E d \in drains : DrainStep(d)
       \/ SidecarDies
       \/ ServiceLost

Spec == Init /\ [][Next]_vars

(* tokio keeps running the tasks that can run, and a reply or a timeout comes
   for every await of a body.  Nothing makes a user ask, a reader poll, a core
   die or the Service change hands. *)
Fairness ==
    /\ WF_vars(Step(BodyStep))
    /\ \A c \in Callers : WF_vars(Step(Begin(c)))
    /\ \A w \in Readers \cup {Monitor} :
         WF_vars(Step(\E t \in tasks : t.who = w /\ TaskStep(t)))
    /\ WF_vars(Step(\E d \in drains : DrainStep(d)))

FairSpec == Spec /\ Fairness

-----------------------------------------------------------------------------
(* Properties *)

(* The types of the words and tasks. *)
TypeOK ==
    /\ want \in [Callers -> Commands \cup {"idle", "done"}]
    /\ updating \in BOOLEAN /\ exiting \in BOOLEAN /\ exited \in BOOLEAN
    /\ at \in Places /\ op \in Bodies /\ scenario \in Scenarios /\ expected \in Expected
    /\ mode \in Modes /\ ready \in Readiness
    /\ ownerGen \in Nat /\ session \in Nat /\ tasks \subseteq Task
    /\ child \in Nat /\ exit \in Nat /\ drains \subseteq Drain
    /\ alive \subseteq Nat \ {None} /\ spawned \in Nat
    /\ proxy \in BOOLEAN /\ guard \in BOOLEAN
    /\ svc \in [session : Nat, core : BOOLEAN] /\ grants \in Nat

(* Every Sidecar process that lives is the one the exit handle stands for:
   the next start waits for it, so two never run at once, whatever timed out
   or failed in between. *)
SidecarsAreHeld == alive \subseteq {exit}

(* A task that will find out, or has found out, that the Service lost the
   core: a monitor of the current generation, or a claim of it. *)
Watches(t) ==
    /\ t.gen = ownerGen
    /\ t.who = Monitor \/ t.pc \in {"claimed", "queued"}

(* A core the Service runs is never left unwatched: cancelled monitors,
   refused stops and overtaken recoveries all leave a successor. *)
ServiceCoreIsWatched ==
    at = "free" /\ mode = "Service" => \E t \in tasks : Watches(t)

(* A Sidecar that runs has the task that will notice its end, and its
   readiness, while it lasts, is the one that task withdraws. *)
SidecarIsDrained ==
    at = "free" /\ mode = "Sidecar" =>
        \E d \in drains :
            d.pid = child /\ (ready.active => d.pc = "reading" /\ ready.gen = d.gen)

(* No guard goes on rewriting the system proxy for a core that is gone. *)
NoGuardWithoutCore == at = "free" /\ mode = "NotRunning" => ~guard

(* No core, whoever runs it, is left without a task that will learn of its end,
   and no guard without a core. *)
NoCoreLeftAlone ==
    TypeOK /\ SidecarsAreHeld /\ ServiceCoreIsWatched /\ SidecarIsDrained /\ NoGuardWithoutCore

(* A command stops a core only after the system proxy was taken off it, except
   on macOS, where the Service does that or takes the proxy over. *)
StopsClearTheProxy ==
    [][mode # "NotRunning" /\ mode' = "NotRunning" /\ at \in {"ask", "reap", "unreap"} /\ platform # "macos"
         => ~proxy']_vars

(* A Sidecar's end is declared only of the process that ended. *)
OnlyDeadSidecarsCleared ==
    [][at = "free" /\ mode = "Sidecar" /\ mode' = "NotRunning" => child \notin alive]_vars

(* "the guard that stops a monitor from a previous Core from tearing down the
   current one" (core/service.rs): a recovery for a displaced owner ends only a
   session the Service no longer honours. *)
RecoveriesEndLostSessions ==
    [][\A t \in tasks : t.pc = "recovering" /\ t.why = "displaced" /\ t \notin tasks'
         => svc.session # session]_vars

(* Every command that was asked for runs and gives the lock back. *)
CommandsFinish ==
    \A c \in Callers : want[c] \in Commands ~> (exited \/ (want[c] = "done" /\ at = "free"))

(* A Service that stopped working for this owner does not stay the running
   mode. *)
ServiceLossIsNoticed ==
    mode = "Service" /\ (svc.session # session \/ ~svc.core)
        ~> exited \/ mode # "Service" \/ (svc.session = session /\ svc.core)

(* layout.json, quitCoreStopFailed: "quitting was cancelled" when the core
   could not be stopped. *)
QuitsOnlyStopped == exited => mode = "NotRunning"

=============================================================================
