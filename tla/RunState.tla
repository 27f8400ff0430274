------------------------------ MODULE RunState ------------------------------
(***************************************************************************)
(* The Run State store (src-tauri/src/core/runstate): what the app         *)
(* believes about its privileged Service, the action it still has to ask   *)
(* the user about, and the session's decision to run the Core as a         *)
(* Sidecar instead.                                                        *)
(*                                                                         *)
(* Several tasks write the store at once.  Some report a reading they      *)
(* began before an await (observe_current_health): they reserve an         *)
(* observation number first and commit only if nothing was recorded since. *)
(* One privileged operation at a time holds the operation slot, and        *)
(* `settled` waits for it with a tokio Notify.                             *)
(*                                                                         *)
(* The `generation` counter and `announce` are left out: the first is read *)
(* by tests only, the second sends a copy of the state away.  An early     *)
(* return that only skips the announcement is therefore the same step as   *)
(* the write it shortens.                                                  *)
(***************************************************************************)
EXTENDS Naturals

CONSTANTS
    Reasons,         \* the distinct texts of ServiceHealth::Unavailable(reason)
    Startup,         \* the task that detects the Service once, at startup
    Waiters,         \* tasks that run settled
    Op,              \* the task that holds the operation slot
    MaxObservation   \* bound: no task starts anything new beyond this number

Actions  == {"Install", "Uninstall", "Reinstall", "ForceReinstall"}
NoAction == "None"
Healths  == {"Unknown", "Ready", "NotInstalled", "VersionMismatch"} \cup Reasons
Readers  == {Startup, Op}

ASSUME RunStateAssumption ==
    /\ Op # Startup
    /\ MaxObservation \in Nat
    /\ Reasons \cap {"Unknown", "Ready", "NotInstalled", "VersionMismatch"} = {}

VARIABLES
    health, pending, allowed,  \* StoredService, under one lock
    observation,               \* VersionedService.observation, same lock
    operationRunning,          \* RunStateStore.operation_running
    op,                        \* where the operation's task stands
    reading,                   \* readers between reserve and commit
    reservation,               \* the number each reader reserved
    begun,                     \* the startup detection has reserved
    dropping,                  \* guards between clearing the flag and notifying
    waiter,                    \* where each caller of settled stands
    registered,                \* waiters registered with operation_done
    overtaken                  \* history: readers since whose reservation the
                               \* store was written or another read began

service == <<health, pending, allowed, observation>>
vars == <<health, pending, allowed, observation, operationRunning, op,
          reading, reservation, begun, dropping, waiter, registered, overtaken>>
readers == <<reading, reservation, begun>>
waiters == <<waiter, registered>>

OpIdle == [kind |-> NoAction, pc |-> "idle", displaced |-> FALSE]
OpSteps == {"idle", "begun", "probe", "privileged", "absent", "reprobe",
            "reprobing", "wait", "restore", "release"}
OpStates == [kind : Actions \cup {"Refresh", NoAction}, pc : OpSteps, displaced : BOOLEAN]

WaiterStates == {"idle", "enabled", "waiting", "returned"}

TypeOK ==
    /\ health \in Healths
    /\ pending \in Actions \cup {NoAction}
    /\ allowed \in BOOLEAN
    /\ observation \in Nat
    /\ operationRunning \in BOOLEAN
    /\ op \in OpStates
    /\ reading \in SUBSET Readers
    /\ reservation \in [Readers -> Nat]
    /\ begun \in BOOLEAN
    /\ dropping \in Nat
    /\ waiter \in [Waiters -> WaiterStates]
    /\ registered \in SUBSET Waiters
    /\ overtaken \in SUBSET Readers

Init ==
    /\ health = "Unknown"
    /\ pending = NoAction
    /\ allowed = FALSE
    /\ observation = 0
    /\ operationRunning = FALSE
    /\ op = OpIdle
    /\ reading = {}
    /\ reservation = [r \in Readers |-> 0]
    /\ begun = FALSE
    /\ dropping = 0
    /\ waiter = [w \in Waiters |-> "idle"]
    /\ registered = {}
    /\ overtaken = {}

-----------------------------------------------------------------------------
(* Writes to the store.  Each runs under the service lock. *)

\* VersionedService::bump and next_observation: every reader still waiting for
\* its result has now been overtaken.
NextObservation ==
    /\ observation' = observation + 1
    /\ overtaken' = overtaken \cup reading

\* StoredService::observe: a reading answers the question and ends the allowance.
Record(h) ==
    /\ health' = h
    /\ pending' = NoAction
    /\ allowed' = FALSE

\* RunStateStore::observe.  Asserting what is already recorded still takes a
\* number, so that an older reading cannot land on top of it.
Observe(h) == Record(h) /\ NextObservation

\* Mutant: a request leaves the allowance in place.
RequestBeside(a) ==
    /\ pending' = a
    /\ UNCHANGED <<health, allowed>>
    /\ NextObservation

\* RunStateStore::request_action.
RequestAction(a) ==
    /\ pending' = a
    /\ allowed' = FALSE
    /\ UNCHANGED health
    /\ NextObservation

\* StoredService::allow_sidecar and its numbered uses.
AllowSidecar ==
    /\ pending' = NoAction
    /\ allowed' = TRUE
    /\ NextObservation

\* Mutant: health is not read again before the allowance returns.
RestoreBlindly == AllowSidecar /\ UNCHANGED health

\* RunStateStore::restore_sidecar_allowance.
RestoreAllowance ==
    \/ /\ allowed
       /\ NextObservation
       /\ UNCHANGED <<health, pending, allowed>>
    \/ /\ ~allowed
       /\ health = "Ready"
       /\ UNCHANGED <<service, overtaken>>
    \/ /\ ~allowed
       /\ health # "Ready"
       /\ AllowSidecar
       /\ UNCHANGED health

\* reserve_health_observation: the reading that is about to begin overtakes
\* every earlier one.
Reserve(r) ==
    /\ observation' = observation + 1
    /\ reservation' = [reservation EXCEPT ![r] = observation + 1]
    /\ reading' = reading \cup {r}
    /\ overtaken' = (overtaken \cup reading) \ {r}
    /\ UNCHANGED <<health, pending, allowed>>

IsCurrent(r) == reservation[r] = observation

\* Mutant: the number is not compared.
CommitAnyway(r, h) ==
    /\ r \in reading
    /\ reading' = reading \ {r}
    /\ Record(h)
    /\ overtaken' = (overtaken \cup reading) \ {r}
    /\ UNCHANGED <<observation, reservation>>

\* commit_reserved_observation: it does not take a number of its own.
CommitReserved(r, h) ==
    /\ r \in reading
    /\ reading' = reading \ {r}
    /\ \/ /\ IsCurrent(r)
          /\ Record(h)
          /\ overtaken' = (overtaken \cup reading) \ {r}
       \/ /\ ~IsCurrent(r)
          /\ overtaken' = overtaken \ {r}
          /\ UNCHANGED <<health, pending, allowed>>
    /\ UNCHANGED <<observation, reservation>>

\* What detect_service_health can return: absent without an install marker, a
\* verdict on the reply with one, Unavailable when either cannot be read.
Detected == Healths \ {"Unknown"}
\* What a readable version reply means (record_reply): never absence.
Replied == Detected \ {"NotInstalled"}

-----------------------------------------------------------------------------
(* The privileged operation: run_operation around apply_service_status or, for
   kind "Refresh", around probe.  The slot admits one at a time. *)

\* resolve_setup awaits the detection before there is a window, a tray or a
\* core that could start anything else.
StartupDone == begun /\ Startup \notin reading

MayStart == StartupDone /\ observation < MaxObservation

To(pc) == op' = [op EXCEPT !.pc = pc]
OpAt(pc) == op.pc = pc

\* begin_operation: the slot is taken under the service lock.
BeginOperation(kind) ==
    /\ MayStart
    /\ ~operationRunning
    /\ operationRunning' = TRUE
    /\ op' = [kind |-> kind, pc |-> IF kind = "Refresh" THEN "probe" ELSE "begun",
              displaced |-> FALSE]
    /\ NextObservation
    /\ UNCHANGED <<health, pending, allowed, readers, dropping, waiters>>

\* ServiceManager::refresh: a readable reply is recorded, silence is not.
ProbeForRefresh ==
    /\ OpAt("probe")
    /\ \/ \E h \in Replied : Observe(h)
       \/ UNCHANGED <<service, overtaken>>
    /\ To("release")
    /\ UNCHANGED <<operationRunning, readers, dropping, waiters>>

\* apply_service_status keeps the allowance its request displaced.
RequestPrivileged ==
    /\ OpAt("begun")
    /\ RequestAction(op.kind)
    /\ op' = [op EXCEPT !.pc = "privileged", !.displaced = allowed]
    /\ UNCHANGED <<operationRunning, readers, dropping, waiters>>

\* Mutant: a failed helper is not followed by a reading.
RunWithoutReprobe ==
    /\ OpAt("privileged")
    /\ \/ To(IF op.kind = "Uninstall" THEN "absent" ELSE "wait")
       \/ To("restore")
    /\ UNCHANGED <<service, operationRunning, readers, dropping, waiters, overtaken>>

\* perform: the privileged helper succeeds or fails.
RunPrivileged ==
    /\ OpAt("privileged")
    /\ \/ To(IF op.kind = "Uninstall" THEN "absent" ELSE "wait")
       \/ To("reprobe")
    /\ UNCHANGED <<service, operationRunning, readers, dropping, waiters, overtaken>>

RecordUninstalled ==
    /\ OpAt("absent")
    /\ Observe("NotInstalled")
    /\ To("release")
    /\ UNCHANGED <<operationRunning, readers, dropping, waiters>>

\* perform, on failure: observe_current_health.
ReprobeAfterFailure ==
    /\ OpAt("reprobe")
    /\ Reserve(Op)
    /\ To("reprobing")
    /\ UNCHANGED <<operationRunning, begun, dropping, waiters>>

CommitAfterFailure(h) ==
    /\ OpAt("reprobing")
    /\ CommitReserved(Op, h)
    /\ To("restore")
    /\ UNCHANGED <<operationRunning, begun, dropping, waiters>>

\* wait_for_service_ipc: the first readable reply decides; sustained silence is
\* recorded as Unavailable.
AwaitReady(h) ==
    /\ OpAt("wait")
    /\ Observe(h)
    /\ To(IF h = "Ready" THEN "release" ELSE "restore")
    /\ UNCHANGED <<operationRunning, readers, dropping, waiters>>

\* run_action_restoring_sidecar, after a failure.
RestoreDisplaced ==
    /\ OpAt("restore")
    /\ \/ op.displaced /\ RestoreAllowance
       \/ ~op.displaced /\ UNCHANGED <<service, overtaken>>
    /\ To("release")
    /\ UNCHANGED <<operationRunning, readers, dropping, waiters>>

\* OperationGuard::drop clears the flag ...
ReleaseSlot ==
    /\ OpAt("release")
    /\ operationRunning' = FALSE
    /\ op' = OpIdle
    /\ dropping' = dropping + 1
    /\ UNCHANGED <<service, readers, waiters, overtaken>>

\* Mutant: notify_one instead of notify_waiters.
NotifyOne ==
    /\ dropping > 0
    /\ dropping' = dropping - 1
    /\ IF registered = {} THEN UNCHANGED registered
       ELSE \E w \in registered : registered' = registered \ {w}
    /\ UNCHANGED <<service, operationRunning, op, readers, waiter, overtaken>>

\* ... and then wakes the waiters registered by now.  Another operation may
\* have begun in between.
NotifyWaiters ==
    /\ dropping > 0
    /\ dropping' = dropping - 1
    /\ registered' = {}
    /\ UNCHANGED <<service, operationRunning, op, readers, waiter, overtaken>>

OpStep ==
    \/ ProbeForRefresh \/ RequestPrivileged \/ RunPrivileged \/ RecordUninstalled
    \/ ReprobeAfterFailure \/ (\E h \in Detected : CommitAfterFailure(h))
    \/ (\E h \in Replied : AwaitReady(h)) \/ RestoreDisplaced \/ ReleaseSlot

-----------------------------------------------------------------------------
(* Tasks that take no slot. *)

\* detect_startup_status runs observe_current_health.
DetectStartup ==
    /\ ~begun
    /\ begun' = TRUE
    /\ Reserve(Startup)
    /\ UNCHANGED <<operationRunning, op, dropping, waiters>>

CommitStartup(h) ==
    /\ CommitReserved(Startup, h)
    /\ UNCHANGED <<operationRunning, op, begun, dropping, waiters>>

\* probe (proxy control, handoff), a residual helper, a refused start.
ReportHealth(h) ==
    /\ MayStart
    /\ Observe(h)
    /\ UNCHANGED <<operationRunning, op, readers, dropping, waiters>>

\* allow_sidecar_for_session; the other cases are errors that write nothing.
AllowSidecarForSession ==
    /\ MayStart
    /\ ~operationRunning
    /\ \/ pending = "Install"
       \/ /\ pending = NoAction
          /\ ~allowed
          /\ health \in {"NotInstalled", "VersionMismatch"} \cup Reasons
    /\ AllowSidecar
    /\ UNCHANGED <<health, operationRunning, op, readers, dropping, waiters>>

\* allow_sidecar_after_service_refusal (Windows): the refusal and the allowance
\* are published together.
AllowSidecarAfterRefusal(reason) ==
    /\ MayStart
    /\ ~operationRunning
    /\ pending = NoAction
    /\ health' = reason
    /\ AllowSidecar
    /\ UNCHANGED <<operationRunning, op, readers, dropping, waiters>>

\* require_install_for_session.
RequireInstall ==
    /\ MayStart
    /\ ~operationRunning
    /\ \/ /\ pending = NoAction
          /\ ~allowed
          /\ health = "NotInstalled"
          /\ RequestAction("Install")
       \/ /\ pending = "Install"
          /\ NextObservation
          /\ UNCHANGED <<health, pending, allowed>>
    /\ UNCHANGED <<operationRunning, op, readers, dropping, waiters>>

\* withdraw_sidecar_allowance.
WithdrawAllowance ==
    /\ MayStart
    /\ allowed
    /\ allowed' = FALSE
    /\ NextObservation
    /\ UNCHANGED <<health, pending, operationRunning, op, readers, dropping, waiters>>

-----------------------------------------------------------------------------
(* settled: register, read the state, return it or wait to be notified.
   Of the snapshot only the flag matters here. *)

WaiterTo(w, pc) == waiter' = [waiter EXCEPT ![w] = pc]

Enable(w) ==
    /\ \/ waiter[w] = "idle"
       \/ waiter[w] = "waiting" /\ w \notin registered
    /\ WaiterTo(w, "enabled")
    /\ registered' = registered \cup {w}
    /\ UNCHANGED <<service, operationRunning, op, readers, dropping, overtaken>>

ReadFlag(w) ==
    /\ waiter[w] = "enabled"
    /\ \/ /\ operationRunning
          /\ WaiterTo(w, "waiting")
          /\ UNCHANGED registered
       \/ /\ ~operationRunning
          /\ WaiterTo(w, "returned")
          /\ registered' = registered \ {w}
    /\ UNCHANGED <<service, operationRunning, op, readers, dropping, overtaken>>

\* The caller asks again later.
CallAgain(w) ==
    /\ waiter[w] = "returned" /\ WaiterTo(w, "idle")
    /\ UNCHANGED <<service, operationRunning, op, readers, dropping, registered, overtaken>>

WaiterStep(w) == Enable(w) \/ ReadFlag(w)

-----------------------------------------------------------------------------
Next ==
    \/ \E kind \in Actions \cup {"Refresh"} : BeginOperation(kind)
    \/ OpStep
    \/ NotifyWaiters
    \/ DetectStartup
    \/ \E h \in Detected : CommitStartup(h)
    \/ \E h \in Replied : ReportHealth(h)
    \/ AllowSidecarForSession
    \/ \E reason \in Reasons : AllowSidecarAfterRefusal(reason)
    \/ RequireInstall
    \/ WithdrawAllowance
    \/ \E w \in Waiters : WaiterStep(w) \/ CallAgain(w)

Spec == Init /\ [][Next]_vars

\* Every await inside an operation is bounded: the helper returns, await_ready
\* has an attempts budget, IPC calls time out.  The runtime polls ready tasks.
Fairness ==
    /\ WF_vars(OpStep)
    /\ WF_vars(NotifyWaiters)
    /\ \A w \in Waiters : WF_vars(WaiterStep(w))

FairSpec == Spec /\ Fairness

-----------------------------------------------------------------------------
(* Properties *)

\* health.rs: `pending` and `sidecar_allowed` are mutually exclusive, whatever
\* the order in which requests, allowances and readings arrive.
PendingExcludesSidecar == ~(pending # NoAction /\ allowed)

\* observe_current_health: a reading never lands over anything that was recorded,
\* or any reading that began, after its own reservation.
StaleReadingDiscarded ==
    [][\A r \in reading : r \in overtaken /\ r \notin reading'
           => UNCHANGED <<health, pending, allowed>>]_vars

\* The number test of commit_reserved_observation is exact: a reader's number
\* is the store's exactly when nothing overtook the reader.
FreshReservation == \A r \in reading : IsCurrent(r) <=> r \notin overtaken

\* The Sidecar allowance never hides a Service known to be ready: restoring it
\* after a failed operation checks health again.
NeverShadowsReady == allowed => health # "Ready"

\* An operation that ended, well or badly, leaves no question of its own for the
\* user: outside operations the only pending action is the installation that
\* startup requires of an absent Service.
Answered == pending = NoAction \/ (pending = "Install" /\ health = "NotInstalled")
NoOrphanQuestion == ~operationRunning => Answered

\* What the store says of one Service never contradicts itself: the question, the
\* allowance and the health, outside operations also with what was asked.
\* (health.rs, lifecycle_ops.rs)
DecisionsAgree == PendingExcludesSidecar /\ NoOrphanQuestion /\ NeverShadowsReady

\* settled: every call returns, whenever the operation ends relative to its
\* registration (no wake-up is lost).
SettledReturns ==
    \A w \in Waiters : waiter[w] = "enabled" ~> waiter[w] = "returned"

=============================================================================
