------------------------- MODULE CoreLifecycleProofs -------------------------
(***************************************************************************)
(* Theorems about CoreLifecycle, for any callers, log readers and          *)
(* scenarios on the three platforms.                                       *)
(***************************************************************************)
EXTENDS CoreLifecycle, TLAPS

-----------------------------------------------------------------------------
(* The inductive invariant *)

\* Where the body stands between the stop of one core and the start of the next.
Starting == {"helper", "handover", "service", "sidecar", "fallback", "unavailable", "fellback",
             "request", "granted", "marked", "spawn", "spawned", "poll", "polled"}

\* Where it stands once it has seen a core that runs and is ready.
Applying == {"apply", "check", "guard", "recheck", "undo"}

\* Where it has dealt with the proxy and is about to end the core.
Stopping == {"kill", "ask", "reap", "unreap"}

\* The running mode changes at the hands of the body only, except at "free".
ModesFit ==
    /\ at \in Starting => mode = "NotRunning"
    /\ at \in Applying => mode # "NotRunning"

\* Without a core there is no guard, and a core is not ended under one, nor,
\* where the proxy is the application's own to clear, under the proxy.
ProxiesFit ==
    /\ mode = "NotRunning" => ~guard
    /\ at \in Stopping => ~guard /\ (platform # "macos" => ~proxy)

\* The next process is spawned when the last one is gone.  A drain that saw its
\* process end saw the end of that one, as pids are not used again.
ProcessesFit ==
    /\ SidecarsAreHeld
    /\ at = "spawn" => alive = {}
    /\ \A d \in drains : d.pid <= spawned /\ (d.pc = "queued" => d.pid \notin alive)

\* Some drain will tell of the end of process p.
IsDrained(p) ==
    \E d \in drains : d.pid = p /\ (ready.active => d.pc = "reading" /\ ready.gen = d.gen)

DrainsFit ==
    /\ mode = "Sidecar" /\ at \notin {"reap", "unreap"} => IsDrained(child)
    /\ at \in {"poll", "polled"} => IsDrained(spawned)

\* While a core of the Service is being registered its monitor is the only task
\* of the newest generation, and has not looked yet.
MonitorsFit ==
    /\ \A t \in tasks : t.gen <= ownerGen
    /\ Settling => /\ session # None
                   /\ \E t \in tasks : t.who = Monitor /\ t.gen = ownerGen
                   /\ \A t \in tasks : t.gen = ownerGen => t.who = Monitor /\ t.pc = "watching"
    /\ mode = "Service" /\ at \notin {"ask", "recovering"} => \E t \in tasks : Watches(t)

\* Who concluded of the newest generation that its session was displaced is right,
\* and so is who recovers from that.
LossesFit ==
    /\ mode = "Service" =>
         /\ session # None
         /\ \A t \in tasks : t.gen = ownerGen /\ t.pc # "watching" /\ t.why = "displaced"
                                => svc.session # session
    /\ \A t \in tasks : t.pc = "recovering" =>
         /\ at = "recovering" /\ mode = "Service"
         /\ t.why = "displaced" => svc.session # session
         /\ \A u \in tasks : u.pc = "recovering" => u = t

IInv == ModesFit /\ ProxiesFit /\ ProcessesFit /\ DrainsFit /\ MonitorsFit /\ LossesFit

-----------------------------------------------------------------------------
(* Types *)

\* What the body and its caller are doing.
ControlTypes ==
    /\ want \in [Callers -> Commands \cup {"idle", "done"}]
    /\ updating \in BOOLEAN /\ exiting \in BOOLEAN /\ exited \in BOOLEAN
    /\ at \in Places /\ op \in Bodies /\ expected \in Expected

CoreTypes == mode \in Modes /\ ready \in Readiness /\ proxy \in BOOLEAN /\ guard \in BOOLEAN

OwnerTypes == ownerGen \in Nat /\ session \in Nat /\ tasks \subseteq Task

SidecarTypes ==
    /\ child \in Nat /\ exit \in Nat /\ drains \subseteq Drain
    /\ alive \subseteq Nat \ {None} /\ spawned \in Nat

ServiceTypes == svc \in [session : Nat, core : BOOLEAN] /\ grants \in Nat

LEMMA TypesAreTypeOK ==
    TypeOK <=> /\ ControlTypes /\ CoreTypes /\ OwnerTypes /\ SidecarTypes /\ ServiceTypes
               /\ scenario \in Scenarios
BY DEF TypeOK, ControlTypes, CoreTypes, OwnerTypes, SidecarTypes, ServiceTypes

LEMMA InitTypes == Init => TypeOK
<1>. SUFFICES ASSUME Init PROVE TypeOK
  OBVIOUS
<1>1. expected \in Expected
  BY DEF Init, NoExpectation, Expected, Modes, None
<1>2. ready \in Readiness
  BY DEF Init, Readiness
<1>3. at \in Places /\ op \in Bodies /\ mode \in Modes
  BY DEF Init, Places, Bodies, Commands, Modes
<1>4. svc \in [session : Nat, core : BOOLEAN]
  BY DEF Init, None
<1>. QED BY <1>1, <1>2, <1>3, <1>4 DEF Init, TypeOK, None

\* The words that withdraw and grant readiness are readiness words.
LEMMA ReadyTypes ==
    ASSUME CoreTypes
    PROVE  /\ Inactive(ready) \in Readiness /\ NextActive(ready) \in Readiness
           /\ ~Inactive(ready).active
           /\ NextActive(ready).active /\ NextActive(ready).gen > ready.gen
BY DEF CoreTypes, Readiness, Inactive, NextActive

LEMMA StoppedTypes ==
    ASSUME CoreTypes, CoreStopped
    PROVE  mode' = "NotRunning" /\ mode' \in Modes /\ ready' \in Readiness /\ ~ready'.active
BY ReadyTypes DEF CoreStopped, Modes

LEMMA MonitorTypes ==
    ASSUME OwnerTypes, SpawnMonitor
    PROVE  /\ ownerGen' = ownerGen + 1 /\ ownerGen' \in Nat /\ tasks' \subseteq Task
           /\ \E m \in tasks' :
                /\ tasks' = tasks \cup {m}
                /\ m.who = Monitor /\ m.gen = ownerGen + 1 /\ m.pc = "watching" /\ m.why = "none"
<1>. DEFINE m == [who |-> Monitor, gen |-> ownerGen + 1, pc |-> "watching", why |-> "none"]
<1>1. m \in Task
  BY DEF OwnerTypes, Task
<1>2. tasks' = tasks \cup {m} /\ ownerGen' = ownerGen + 1
  BY DEF SpawnMonitor
<1>3. m.who = Monitor /\ m.gen = ownerGen + 1 /\ m.pc = "watching" /\ m.why = "none"
  OBVIOUS
<1>. HIDE DEF m
<1>. QED BY <1>1, <1>2, <1>3 DEF OwnerTypes

-----------------------------------------------------------------------------
(* How a body goes on *)

LEMMA Going ==
    ASSUME ControlTypes, NEW p \in Places, Goto(p)
    PROVE  ControlTypes' /\ at' = p
BY DEF ControlTypes, Goto, asked

LEMMA Ending ==
    ASSUME ControlTypes, NEW ok \in BOOLEAN, End(ok)
    PROVE  ControlTypes' /\ at' = "free"
<1>1. NoExpectation \in Expected
  BY DEF NoExpectation, Expected, Modes, None
<1>2. "free" \in Places
  BY DEF Places
<1>3. updating' \in BOOLEAN /\ exiting' \in BOOLEAN /\ exited' \in BOOLEAN
  BY DEF ControlTypes, End
<1>. QED BY <1>1, <1>2, <1>3 DEF ControlTypes, End

LEMMA Failing ==
    ASSUME ControlTypes, Fail
    PROVE  ControlTypes' /\ at' \in {"stop", "unwind", "free"}
<1>1. CASE op = "handoff"
  <2>1. NoExpectation \in Expected /\ "stop" \in Places /\ "handback" \in Bodies
    BY DEF NoExpectation, Expected, Modes, None, Places, Bodies
  <2>2. op \notin Handing
    BY <1>1 DEF Handing
  <2>3. at' = "stop" /\ op' = "handback" /\ expected' = NoExpectation /\ UNCHANGED asked
    BY <1>1, <2>2 DEF Fail
  <2>. QED BY <2>1, <2>3 DEF ControlTypes, asked
<1>2. CASE op # "handoff" /\ op \in Handing
  <2>1. "unwind" \in Places
    BY DEF Places
  <2>2. Goto("unwind")
    BY <1>2 DEF Fail
  <2>. QED BY <2>1, <2>2, Going
<1>3. CASE op # "handoff" /\ op \notin Handing
  BY <1>3, Ending DEF Fail
<1>. QED BY <1>1, <1>2, <1>3

\* A start that is rolled back leaves no core and no guard, or all as it was.
RolledBack ==
    \/ UNCHANGED <<guard, mode, ready>>
    \/ guard' = FALSE /\ mode' = "NotRunning" /\ ready' = Inactive(ready)

LEMMA RollingBack ==
    ASSUME ControlTypes, Rollback
    PROVE  ControlTypes' /\ at' \in {"stop", "unwind", "free"} /\ RolledBack
<1>1. Fail
  BY DEF Rollback
<1>2. RolledBack
  BY DEF Rollback, RolledBack, CoreStopped, core
<1>. QED BY <1>1, <1>2, Failing

LEMMA GoingDown ==
    ASSUME ControlTypes, ServiceDown
    PROVE  ControlTypes' /\ at' \in {"fallback", "stop", "unwind", "free"} /\ RolledBack
<1>1. CASE Goto("fallback") /\ UNCHANGED <<core, guard>>
  <2>1. "fallback" \in Places
    BY DEF Places
  <2>. QED BY <1>1, <2>1, Going DEF RolledBack, core
<1>2. CASE Rollback
  BY <1>2, RollingBack
<1>. QED BY <1>1, <1>2 DEF ServiceDown

LEMMA Proceeding ==
    ASSUME ControlTypes, AfterStop
    PROVE  /\ ControlTypes'
           /\ at' \in {"free", "start", "helper", "handover", "fellback"}
           /\ at = "unreap" => at' = "free"
<1>1. "start" \in Places /\ "helper" \in Places /\ "handover" \in Places /\ "fellback" \in Places
  BY DEF Places
<1>2. CASE at = "unreap"
  BY <1>2, Ending DEF AfterStop
<1>3. CASE at # "unreap" /\ op = "restart"
  BY <1>1, <1>3, Going DEF AfterStop
<1>4. CASE at # "unreap" /\ op \in {"uninstall", "reinstall"}
  BY <1>1, <1>4, Going DEF AfterStop
<1>5. CASE at # "unreap" /\ op = "handoff"
  BY <1>1, <1>5, Going DEF AfterStop
<1>6. CASE at # "unreap" /\ op = "handback"
  BY <1>1, <1>6, Going DEF AfterStop
<1>7. CASE at # "unreap" /\ op \notin {"restart", "uninstall", "reinstall", "handoff", "handback"}
  BY <1>7, Ending DEF AfterStop
<1>. QED BY <1>2, <1>3, <1>4, <1>5, <1>6, <1>7

LEMMA RolledBackTypes ==
    CoreTypes /\ RolledBack => mode' \in Modes /\ ready' \in Readiness /\ guard' \in BOOLEAN
BY ReadyTypes DEF CoreTypes, RolledBack, Modes

-----------------------------------------------------------------------------
(* Type correctness *)

LEMMA PlaceNames ==
    /\ "free" \in Places /\ "recovering" \in Places /\ "stop" \in Places /\ "kill" \in Places
    /\ "ask" \in Places /\ "reap" \in Places /\ "prepare" \in Places /\ "unreap" \in Places
    /\ "start" \in Places /\ "service" \in Places /\ "fellback" \in Places /\ "unavailable" \in Places
    /\ "request" \in Places /\ "granted" \in Places /\ "marked" \in Places /\ "sidecar" \in Places
    /\ "spawn" \in Places /\ "spawned" \in Places /\ "poll" \in Places /\ "polled" \in Places
    /\ "settle" \in Places /\ "capture" \in Places /\ "apply" \in Places /\ "check" \in Places
    /\ "guard" \in Places /\ "recheck" \in Places /\ "undo" \in Places
BY DEF Places

LEMMA ControlsOfStops ==
    ASSUME ControlTypes,
           \/ StopNothing \/ HandoffSkipped \/ StopGuardOnly \/ ClearBeforeStop
           \/ CancelThenAsk \/ ServiceStops \/ StopRefused \/ StopFindsDisplaced
           \/ KillSidecar \/ ReapSidecar
           \/ ReinstallService \/ UninstallService \/ AllowSidecar \/ UnwindSidecar \/ UnwindStart
    PROVE  ControlTypes'
<1>. USE PlaceNames, Going, Ending, Failing, Proceeding
<1>1. CASE StopNothing \/ HandoffSkipped \/ ServiceStops \/ ReapSidecar
  BY <1>1 DEF StopNothing, HandoffSkipped, ServiceStops, ReapSidecar
<1>2. CASE StopGuardOnly \/ ClearBeforeStop \/ CancelThenAsk \/ KillSidecar
  BY <1>2 DEF StopGuardOnly, ClearBeforeStop, CancelThenAsk, KillSidecar
<1>3. CASE StopRefused \/ StopFindsDisplaced \/ ReinstallService \/ UninstallService
  BY <1>3 DEF StopRefused, StopFindsDisplaced, ReinstallService, UninstallService
<1>4. CASE AllowSidecar \/ UnwindSidecar \/ UnwindStart
  BY <1>4 DEF AllowSidecar, UnwindSidecar, UnwindStart
<1>. QED BY <1>1, <1>2, <1>3, <1>4

LEMMA ControlsOfStarts ==
    ASSUME ControlTypes,
           \/ StartSkipped \/ Decide \/ StartAbandoned
           \/ PrepareService \/ ServiceGrants \/ ServiceStartFails \/ ServiceNotAsked
           \/ MarkServiceReady \/ ServiceStarted
           \/ FallBack \/ FallbackWithheld
           \/ AwaitLastSidecar \/ SpawnFails \/ SpawnSidecar \/ DrainSidecar
           \/ SidecarAnswers \/ SidecarSilent \/ SidecarStarted
    PROVE  ControlTypes'
<1>. USE PlaceNames, Going, Ending, Failing, RollingBack, GoingDown
<1>1. CASE StartSkipped \/ Decide \/ StartAbandoned \/ PrepareService \/ ServiceGrants
  BY <1>1 DEF StartSkipped, Decide, StartAbandoned, PrepareService, ServiceGrants
<1>2. CASE ServiceStartFails \/ ServiceNotAsked \/ MarkServiceReady \/ ServiceStarted
  BY <1>2 DEF ServiceStartFails, ServiceNotAsked, MarkServiceReady, ServiceStarted
<1>3. CASE FallBack \/ FallbackWithheld \/ AwaitLastSidecar \/ SpawnFails \/ SpawnSidecar
  BY <1>3 DEF FallBack, FallbackWithheld, AwaitLastSidecar, SpawnFails, SpawnSidecar
<1>4. CASE DrainSidecar \/ SidecarAnswers \/ SidecarSilent \/ SidecarStarted
  BY <1>4 DEF DrainSidecar, SidecarAnswers, SidecarSilent, SidecarStarted
<1>. QED BY <1>1, <1>2, <1>3, <1>4

LEMMA ExpectationType == CoreTypes /\ OwnerTypes => Expectation \in Expected
BY DEF CoreTypes, OwnerTypes, Expectation, Expected, Readiness, None

LEMMA ControlsOfApplies ==
    ASSUME ControlTypes, CoreTypes, OwnerTypes,
           \/ Settle \/ CaptureExpectation \/ RefusedUnready
           \/ ApplyProxy \/ CheckApplied \/ RefreshGuard \/ CheckGuarded \/ UndoApply
    PROVE  ControlTypes'
<1>. USE PlaceNames, Going, Ending, Failing
<1>1. CASE Settle \/ RefusedUnready \/ ApplyProxy
  BY <1>1 DEF Settle, RefusedUnready, ApplyProxy
<1>2. CASE CheckApplied \/ RefreshGuard \/ CheckGuarded \/ UndoApply
  BY <1>2 DEF CheckApplied, RefreshGuard, CheckGuarded, UndoApply
<1>3. CASE CaptureExpectation
  BY <1>3, ExpectationType DEF CaptureExpectation, ControlTypes, asked
<1>. QED BY <1>1, <1>2, <1>3

LEMMA BodyControls == TypeOK /\ BodyStep => ControlTypes'
BY TypesAreTypeOK, ControlsOfStops, ControlsOfStarts, ControlsOfApplies DEF BodyStep

LEMMA BodyCores ==
    ASSUME TypeOK, BodyStep
    PROVE  CoreTypes'
<1>1. CoreTypes /\ ControlTypes
  BY TypesAreTypeOK
<1>. USE StoppedTypes, RolledBackTypes, RollingBack, GoingDown
<1>2. CASE StopNothing \/ HandoffSkipped \/ StopGuardOnly \/ ClearBeforeStop \/ CancelThenAsk
  BY <1>1, <1>2
     DEF CoreTypes, StopNothing, HandoffSkipped, StopGuardOnly, ClearBeforeStop, CancelThenAsk,
         Cleared, ClearFailed, core, proxies
<1>3. CASE ServiceStops \/ StopRefused \/ KillSidecar \/ ReapSidecar
  BY <1>1, <1>3 DEF CoreTypes, ServiceStops, StopRefused, KillSidecar, ReapSidecar, core, proxies
<1>4. CASE StopFindsDisplaced \/ ReinstallService \/ UninstallService \/ AllowSidecar
  BY <1>1, <1>4
     DEF CoreTypes, StopFindsDisplaced, RecoverLocked, ReinstallService, UninstallService,
         AllowSidecar, core, proxies
<1>5. CASE UnwindSidecar \/ UnwindStart \/ StartSkipped \/ Decide \/ StartAbandoned
  BY <1>1, <1>5
     DEF CoreTypes, UnwindSidecar, UnwindStart, StartSkipped, Decide, StartAbandoned,
         Cleared, ClearFailed, core, proxies
<1>6. CASE PrepareService \/ ServiceNotAsked \/ ServiceGrants
  BY <1>1, <1>6 DEF CoreTypes, PrepareService, ServiceNotAsked, ServiceGrants, core, proxies
<1>7. CASE ServiceStartFails
  BY <1>1, <1>7 DEF CoreTypes, ServiceStartFails
<1>8. CASE MarkServiceReady \/ ServiceStarted \/ DrainSidecar \/ SidecarStarted
  BY <1>1, <1>8, ReadyTypes
     DEF CoreTypes, MarkServiceReady, ServiceStarted, DrainSidecar, SidecarStarted,
         MarkReady, CoreStarted, Modes, core, proxies
<1>9. CASE FallBack \/ FallbackWithheld \/ SpawnFails \/ SidecarSilent
  BY <1>1, <1>9 DEF CoreTypes, FallBack, FallbackWithheld, SpawnFails, SidecarSilent, core, proxies
<1>10. CASE AwaitLastSidecar \/ SpawnSidecar \/ SidecarAnswers
  BY <1>1, <1>10 DEF CoreTypes, AwaitLastSidecar, SpawnSidecar, SidecarAnswers, core, proxies
<1>11. CASE Settle \/ CaptureExpectation \/ RefusedUnready \/ CheckApplied \/ CheckGuarded
  BY <1>1, <1>11
     DEF CoreTypes, Settle, CaptureExpectation, RefusedUnready, CheckApplied, CheckGuarded, core, proxies
<1>12. CASE ApplyProxy \/ RefreshGuard \/ UndoApply
  BY <1>1, <1>12 DEF CoreTypes, ApplyProxy, RefreshGuard, UndoApply, core
<1>. QED
  BY <1>2, <1>3, <1>4, <1>5, <1>6, <1>7, <1>8, <1>9, <1>10, <1>11, <1>12 DEF BodyStep

\* The body touches the owner's words in few places only.
LEMMA BodyOwners ==
    ASSUME TypeOK, BodyStep
    PROVE  OwnerTypes'
<1>1. OwnerTypes /\ ServiceTypes
  BY TypesAreTypeOK
<1>2. CASE CancelThenAsk
  BY <1>1, <1>2 DEF OwnerTypes, CancelThenAsk, CancelMonitors
<1>3. CASE ServiceStops \/ StopFindsDisplaced \/ PrepareService
  <2>1. session' \in {None, session} /\ UNCHANGED <<ownerGen, tasks>>
    BY <1>3 DEF ServiceStops, StopFindsDisplaced, RecoverLocked, PrepareService
  <2>. QED BY <1>1, <2>1 DEF OwnerTypes, None
<1>4. CASE StopRefused \/ ServiceStartFails \/ ServiceGrants
  <2>1. SpawnMonitor /\ session' \in {session, grants + 1}
    BY <1>4 DEF StopRefused, ServiceStartFails, ServiceGrants
  <2>. QED BY <1>1, <2>1, MonitorTypes DEF OwnerTypes, ServiceTypes
<1>5. CASE UNCHANGED owner
  BY <1>1, <1>5 DEF OwnerTypes, owner
<1>6. \/ CancelThenAsk \/ ServiceStops \/ StopFindsDisplaced \/ PrepareService
      \/ StopRefused \/ ServiceStartFails \/ ServiceGrants \/ UNCHANGED owner
  BY DEF BodyStep, StopNothing, HandoffSkipped, StopGuardOnly, ClearBeforeStop, KillSidecar, ReapSidecar,
         ReinstallService, UninstallService, AllowSidecar, UnwindSidecar, UnwindStart, StartSkipped,
         Decide, StartAbandoned, ServiceNotAsked, MarkServiceReady, ServiceStarted, FallBack,
         FallbackWithheld, AwaitLastSidecar, SpawnFails, SpawnSidecar, DrainSidecar, SidecarAnswers,
         SidecarSilent, SidecarStarted, Settle, CaptureExpectation, RefusedUnready, ApplyProxy,
         CheckApplied, RefreshGuard, CheckGuarded, UndoApply
<1>. QED BY <1>2, <1>3, <1>4, <1>5, <1>6

\* The task moves on to u or is over.
Became(t, u) == tasks' = (tasks \ {t}) \cup {u}
Over(t)      == tasks' = tasks \ {t}

LEMMA TaskUpdates ==
    ASSUME NEW t \in Task
    PROVE  /\ [t EXCEPT !.pc = "lost", !.why = "displaced"] \in Task
           /\ [t EXCEPT !.pc = "lost", !.why = "failed"] \in Task
           /\ [t EXCEPT !.pc = "lost", !.why = "transport"] \in Task
           /\ [t EXCEPT !.pc = "claiming"] \in Task
           /\ [t EXCEPT !.pc = "claimed", !.gen = t.gen + 1] \in Task
           /\ [t EXCEPT !.pc = "queued"] \in Task
           /\ [t EXCEPT !.pc = "recovering"] \in Task
<1>1. /\ [t EXCEPT !.pc = "lost", !.why = "displaced"] \in Task
      /\ [t EXCEPT !.pc = "lost", !.why = "failed"] \in Task
      /\ [t EXCEPT !.pc = "lost", !.why = "transport"] \in Task
  BY DEF Task
<1>2. t.gen + 1 \in Nat
  BY DEF Task
<1>3. [t EXCEPT !.pc = "claimed", !.gen = t.gen + 1] \in Task
  BY <1>2 DEF Task
<1>4. /\ [t EXCEPT !.pc = "claiming"] \in Task
      /\ [t EXCEPT !.pc = "queued"] \in Task
      /\ [t EXCEPT !.pc = "recovering"] \in Task
  BY DEF Task
<1>. QED BY <1>1, <1>3, <1>4

\* What each step of a task makes of it.
LEMMA TaskMoves ==
    ASSUME TypeOK, NEW t \in tasks, TaskStep(t)
    PROVE  Over(t) \/ \E u \in Task : Became(t, u)
<1>1. t \in Task
  BY DEF TypeOK
<1>. USE TaskUpdates DEF Over, Became, Drop, Move, Loses
<1>2. CASE MonitorStops(t) \/ MonitorNotices(t) \/ ReaderHears(t)
  BY <1>1, <1>2 DEF MonitorStops, MonitorNotices, ReaderHears
<1>3. CASE CheckMode(t) \/ ClaimRecovery(t) \/ InvalidateReadiness(t)
  BY <1>1, <1>3 DEF CheckMode, ClaimRecovery, InvalidateReadiness
<1>4. CASE EnterRecovery(t) \/ Recover(t)
  BY <1>1, <1>4 DEF EnterRecovery, Recover
<1>. QED BY <1>2, <1>3, <1>4 DEF TaskStep

LEMMA TaskTypes ==
    ASSUME TypeOK, NEW t \in tasks, TaskStep(t)
    PROVE  ControlTypes' /\ CoreTypes' /\ OwnerTypes' /\ SidecarTypes' /\ ServiceTypes'
<1>1. t \in Task /\ t.gen \in Nat /\ tasks \subseteq Task
  BY DEF TypeOK, Task
<1>2. ControlTypes /\ CoreTypes /\ OwnerTypes /\ SidecarTypes /\ ServiceTypes
  BY TypesAreTypeOK
<1>3. tasks' \subseteq Task
  BY <1>1, TaskMoves DEF Over, Became
<1>4. UNCHANGED <<asked, sidecar, service>>
  BY DEF TaskStep, MonitorStops, MonitorNotices, ReaderHears, CheckMode, ClaimRecovery,
         InvalidateReadiness, EnterRecovery, Recover
<1>5. ControlTypes'
  <2>1. UNCHANGED body \/ (at' \in {"free", "recovering"} /\ UNCHANGED <<op, expected>>)
    BY DEF TaskStep, MonitorStops, MonitorNotices, ReaderHears, CheckMode, ClaimRecovery,
           InvalidateReadiness, EnterRecovery, Recover
  <2>. QED BY <1>2, <1>4, <2>1, PlaceNames DEF ControlTypes, asked, body
<1>6. CoreTypes'
  <2>1. CASE InvalidateReadiness(t)
    BY <1>2, <2>1, ReadyTypes DEF CoreTypes, InvalidateReadiness, proxies
  <2>2. CASE Recover(t)
    BY <1>2, <2>2, StoppedTypes DEF CoreTypes, Recover, RecoverLocked
  <2>3. CASE UNCHANGED <<core, proxies>>
    BY <1>2, <2>3 DEF CoreTypes, core, proxies
  <2>. QED BY <2>1, <2>2, <2>3
       DEF TaskStep, MonitorStops, MonitorNotices, ReaderHears, CheckMode, ClaimRecovery, EnterRecovery
<1>7. OwnerTypes'
  <2>1. ownerGen' \in {ownerGen, t.gen + 1} /\ session' \in {session, None}
    BY DEF TaskStep, MonitorStops, MonitorNotices, ReaderHears, CheckMode, ClaimRecovery,
           InvalidateReadiness, EnterRecovery, Recover, RecoverLocked
  <2>. QED BY <1>1, <1>2, <1>3, <2>1 DEF OwnerTypes, None
<1>. QED BY <1>2, <1>4, <1>5, <1>6, <1>7 DEF SidecarTypes, ServiceTypes, sidecar, service

\* A process that was spawned has a pid.
HasPid == at = "spawned" => spawned # None

LEMMA BodySidecars ==
    ASSUME TypeOK, HasPid, BodyStep
    PROVE  SidecarTypes'
<1>1. SidecarTypes /\ CoreTypes /\ ControlTypes
  BY TypesAreTypeOK
<1>2. CASE KillSidecar \/ UnwindSidecar \/ SidecarStarted
  <2>1. child' \in {None, child, spawned} /\ UNCHANGED <<exit, drains, alive, spawned>>
    BY <1>2 DEF KillSidecar, UnwindSidecar, SidecarStarted
  <2>. QED BY <1>1, <2>1 DEF SidecarTypes, None
<1>3. CASE ReapSidecar \/ AwaitLastSidecar
  <2>1. exit' \in {None, exit} /\ UNCHANGED <<child, drains, alive, spawned>>
    BY <1>3 DEF ReapSidecar, AwaitLastSidecar, SidecarGone, ExitTimesOut
  <2>. QED BY <1>1, <2>1 DEF SidecarTypes, None
<1>4. CASE SpawnSidecar
  BY <1>1, <1>4 DEF SidecarTypes, SpawnSidecar, None
<1>5. CASE DrainSidecar
  <2>1. spawned \in Nat \ {None} /\ ready'.gen \in Nat
    BY <1>1, <1>5, ReadyTypes DEF HasPid, DrainSidecar, SidecarTypes, MarkReady, Readiness
  <2>2. NewDrain \in Drain
    BY <2>1 DEF NewDrain, Drain
  <2>3. drains' = drains \cup {NewDrain} /\ UNCHANGED <<child, exit, alive, spawned>>
    BY <1>5 DEF DrainSidecar
  <2>. QED BY <1>1, <2>2, <2>3 DEF SidecarTypes
<1>6. CASE UNCHANGED sidecar
  BY <1>1, <1>6 DEF SidecarTypes, sidecar
<1>7. \/ KillSidecar \/ UnwindSidecar \/ SidecarStarted \/ ReapSidecar \/ AwaitLastSidecar
      \/ SpawnSidecar \/ DrainSidecar \/ UNCHANGED sidecar
  BY DEF BodyStep, StopNothing, HandoffSkipped, StopGuardOnly, ClearBeforeStop, CancelThenAsk,
         ServiceStops, StopRefused, StopFindsDisplaced, ReinstallService, UninstallService,
         AllowSidecar, UnwindStart, StartSkipped, Decide, StartAbandoned, PrepareService,
         ServiceGrants, ServiceStartFails, ServiceNotAsked, MarkServiceReady, ServiceStarted,
         FallBack, FallbackWithheld, SpawnFails, SidecarAnswers, SidecarSilent, Settle,
         CaptureExpectation, RefusedUnready, ApplyProxy, CheckApplied, RefreshGuard, CheckGuarded,
         UndoApply
<1>. QED BY <1>2, <1>3, <1>4, <1>5, <1>6, <1>7

\* Of the Service the body changes only what its requests make it do.
LEMMA ServiceWords ==
    ASSUME ServiceTypes
    PROVE  /\ [session |-> None, core |-> FALSE] \in [session : Nat, core : BOOLEAN]
           /\ [session |-> grants + 1, core |-> TRUE] \in [session : Nat, core : BOOLEAN]
           /\ [svc EXCEPT !.core = FALSE] \in [session : Nat, core : BOOLEAN]
           /\ grants + 1 \in Nat /\ grants + 1 # None
           /\ [session |-> grants + 1, core |-> TRUE].session = grants + 1
           /\ [svc EXCEPT !.core = FALSE].session = svc.session
<1>1. None \in Nat /\ grants + 1 \in Nat /\ grants + 1 # None
  BY DEF ServiceTypes, None
<1>. QED BY <1>1 DEF ServiceTypes

LEMMA BodyServices ==
    ASSUME TypeOK, BodyStep
    PROVE  ServiceTypes'
<1>1. ServiceTypes
  BY TypesAreTypeOK
<1>2. CASE ServiceStops \/ ReinstallService \/ UninstallService
  <2>1. (svc' = svc \/ svc' = [session |-> None, core |-> FALSE]) /\ UNCHANGED grants
    BY <1>2 DEF ServiceStops, ReinstallService, UninstallService
  <2>. QED BY <1>1, <2>1, ServiceWords DEF ServiceTypes
<1>3. CASE ServiceGrants \/ ServiceStartFails
  <2>1. \/ UNCHANGED service
        \/ grants' = grants + 1 /\ svc' = [session |-> grants + 1, core |-> TRUE]
    BY <1>3 DEF ServiceGrants, ServiceStartFails
  <2>. QED BY <1>1, <2>1, ServiceWords DEF ServiceTypes, service
<1>4. CASE UNCHANGED service
  BY <1>1, <1>4 DEF ServiceTypes, service
<1>5. \/ ServiceStops \/ ReinstallService \/ UninstallService \/ ServiceGrants
      \/ ServiceStartFails \/ UNCHANGED service
  BY DEF BodyStep, StopNothing, HandoffSkipped, StopGuardOnly, ClearBeforeStop, CancelThenAsk,
         StopRefused, StopFindsDisplaced, KillSidecar, ReapSidecar, AllowSidecar, UnwindSidecar,
         UnwindStart, StartSkipped, Decide, StartAbandoned, PrepareService, ServiceNotAsked,
         MarkServiceReady, ServiceStarted, FallBack, FallbackWithheld, AwaitLastSidecar, SpawnFails,
         SpawnSidecar, DrainSidecar, SidecarAnswers, SidecarSilent, SidecarStarted, Settle,
         CaptureExpectation, RefusedUnready, ApplyProxy, CheckApplied, RefreshGuard, CheckGuarded,
         UndoApply
<1>. QED BY <1>2, <1>3, <1>4, <1>5

LEMMA DrainTypes ==
    ASSUME TypeOK, NEW d \in drains, DrainStep(d)
    PROVE  ControlTypes' /\ CoreTypes' /\ OwnerTypes' /\ SidecarTypes' /\ ServiceTypes'
<1>1. ControlTypes /\ CoreTypes /\ OwnerTypes /\ SidecarTypes /\ ServiceTypes
  BY TypesAreTypeOK
<1>2. UNCHANGED <<asked, body, owner, service>>
  BY DEF DrainStep, SidecarTerminated, ClearTerminated
<1>3. ControlTypes' /\ OwnerTypes' /\ ServiceTypes'
  BY <1>1, <1>2 DEF ControlTypes, OwnerTypes, ServiceTypes, asked, body, owner, service
<1>4. CASE SidecarTerminated(d)
  <2>1. d \in Drain
    BY <1>1 DEF SidecarTypes
  <2>2. [d EXCEPT !.pc = "queued"] \in Drain
    BY <2>1 DEF Drain
  <2>3. SidecarTypes'
    BY <1>1, <1>4, <2>2 DEF SidecarTypes, SidecarTerminated
  <2>. QED BY <1>1, <1>3, <1>4, <2>3, ReadyTypes DEF CoreTypes, SidecarTerminated, proxies
<1>5. CASE ClearTerminated(d)
  <2>1. child' \in {None, child} /\ drains' \subseteq drains /\ UNCHANGED <<exit, alive, spawned>>
    BY <1>5 DEF ClearTerminated, ClearSidecar
  <2>2. SidecarTypes'
    BY <1>1, <2>1 DEF SidecarTypes, None
  <2>. QED BY <1>1, <1>3, <1>5, <2>2, StoppedTypes DEF CoreTypes, ClearTerminated, ClearSidecar, core
<1>. QED BY <1>4, <1>5 DEF DrainStep

LEMMA AskTypes ==
    ASSUME TypeOK, NEW c \in Callers, Ask(c) \/ Begin(c)
    PROVE  ControlTypes'
<1>1. ControlTypes /\ scenario \in Scenarios /\ scenario.asks \in [Callers -> SUBSET Commands]
  BY TypesAreTypeOK, CoreLifecycleAssumption
<1>2. CASE Ask(c)
  <2>1. PICK cmd \in scenario.asks[c] :
          /\ want' = [want EXCEPT ![c] = cmd]
          /\ exiting' = (exiting \/ cmd \in Leaving) /\ updating' = (updating \/ cmd \in Flagged)
    BY <1>2 DEF Ask
  <2>2. cmd \in Commands
    BY <1>1
  <2>. QED BY <1>1, <1>2, <2>1, <2>2 DEF ControlTypes, Ask, body
<1>3. CASE Begin(c)
  <2>1. at' \in {"start", "capture", "prepare", "stop"}
    BY <1>3 DEF Begin
  <2>. QED BY <1>1, <1>3, <2>1, PlaceNames DEF ControlTypes, Begin, Bodies
<1>. QED BY <1>2, <1>3

\* Where each action of a body leads: what a stop does,
LEMMA StopsLead ==
    ASSUME ControlTypes
    PROVE  /\ StopNothing => at' \in {"free", "start", "helper", "handover", "fellback"}
           /\ HandoffSkipped => at' = "free"
           /\ StopGuardOnly => at' = "kill"
           /\ ClearBeforeStop => (at' = "kill" /\ Cleared) \/ at' = "free"
           /\ CancelThenAsk => at' = "ask"
           /\ ServiceStops => at' \in {"free", "start", "helper", "handover", "fellback"}
           /\ StopRefused \/ StopFindsDisplaced => at' = "free"
           /\ KillSidecar => at' = "reap"
           /\ ReapSidecar => at' \in {"free", "start", "helper", "handover", "fellback"}
           /\ ReinstallService => at' = "free"
           /\ UninstallService => at' \in {"start", "stop", "unwind", "free"}
           /\ AllowSidecar => at' \in {"start", "free"}
           /\ UnwindSidecar => (at' = "unreap" /\ Cleared) \/ at' = "free"
           /\ UnwindStart => at' = "free"
<1>. USE PlaceNames, Going, Ending, Failing, Proceeding
<1>1. /\ StopNothing => at' \in {"free", "start", "helper", "handover", "fellback"}
      /\ ServiceStops => at' \in {"free", "start", "helper", "handover", "fellback"}
      /\ ReapSidecar => at' \in {"free", "start", "helper", "handover", "fellback"}
  BY DEF StopNothing, ServiceStops, ReapSidecar
<1>2. /\ HandoffSkipped => at' = "free"
      /\ StopGuardOnly => at' = "kill"
      /\ ClearBeforeStop => (at' = "kill" /\ Cleared) \/ at' = "free"
      /\ CancelThenAsk => at' = "ask"
      /\ StopRefused \/ StopFindsDisplaced => at' = "free"
      /\ KillSidecar => at' = "reap"
  BY DEF HandoffSkipped, StopGuardOnly, ClearBeforeStop, CancelThenAsk, StopRefused,
         StopFindsDisplaced, KillSidecar
<1>3. /\ ReinstallService => at' = "free"
      /\ UninstallService => at' \in {"start", "stop", "unwind", "free"}
      /\ AllowSidecar => at' \in {"start", "free"}
  BY DEF ReinstallService, UninstallService, AllowSidecar
<1>4. /\ UnwindSidecar => (at' = "unreap" /\ Cleared) \/ at' = "free"
      /\ UnwindStart => at' = "free"
  BY DEF UnwindSidecar, UnwindStart
<1>. QED BY <1>1, <1>2, <1>3, <1>4

\* what a start does,
LEMMA StartsLead ==
    ASSUME ControlTypes
    PROVE  /\ StartSkipped => at' = "settle"
           /\ Decide => \/ at' \in {"service", "sidecar"} /\ UNCHANGED <<core, guard>>
                        \/ at' \in {"settle", "unavailable"} /\ CoreStopped /\ guard' = FALSE
           /\ StartAbandoned => at' = "settle"
           /\ PrepareService => \/ at' = "request" /\ session' = None /\ UNCHANGED <<core, guard>>
                                \/ /\ at' \in {"fallback", "stop", "unwind", "free"}
                                   /\ UNCHANGED session /\ RolledBack
           /\ ServiceGrants => at' = "granted"
           /\ ServiceStartFails \/ ServiceNotAsked =>
                 at' \in {"fallback", "stop", "unwind", "free"} /\ RolledBack
           /\ MarkServiceReady => at' = "marked"
           /\ ServiceStarted => at' = "settle"
           /\ FallBack => at' = "fellback"
           /\ FallbackWithheld => /\ at' \in {"settle", "stop", "unwind", "free"} /\ RolledBack
           /\ AwaitLastSidecar =>
                 \/ at' = "spawn" /\ SidecarGone /\ CoreStopped /\ UNCHANGED guard
                 \/ at' \in {"stop", "unwind", "free"} /\ ExitTimesOut /\ RolledBack
           /\ SpawnFails \/ SidecarSilent => at' \in {"stop", "unwind", "free"} /\ RolledBack
           /\ SpawnSidecar => at' = "spawned"
           /\ DrainSidecar => at' = "poll"
           /\ SidecarAnswers => at' = "polled"
           /\ SidecarStarted => at' = "settle"
<1>. USE PlaceNames, Going, Ending, Failing, RollingBack, GoingDown
<1>1. /\ StartSkipped => at' = "settle"
      /\ Decide => \/ at' \in {"service", "sidecar"} /\ UNCHANGED <<core, guard>>
                   \/ at' \in {"settle", "unavailable"} /\ CoreStopped /\ guard' = FALSE
      /\ StartAbandoned => at' = "settle"
  BY DEF StartSkipped, Decide, StartAbandoned
<1>2. PrepareService => \/ at' = "request" /\ session' = None /\ UNCHANGED <<core, guard>>
                        \/ /\ at' \in {"fallback", "stop", "unwind", "free"}
                           /\ UNCHANGED session /\ RolledBack
  BY DEF PrepareService
<1>3. ServiceStartFails \/ ServiceNotAsked =>
        at' \in {"fallback", "stop", "unwind", "free"} /\ RolledBack
  BY DEF ServiceStartFails, ServiceNotAsked
<1>4. /\ ServiceGrants => at' = "granted"
      /\ MarkServiceReady => at' = "marked"
      /\ ServiceStarted => at' = "settle"
      /\ FallBack => at' = "fellback"
  BY DEF ServiceGrants, MarkServiceReady, ServiceStarted, FallBack
<1>5. FallbackWithheld => /\ at' \in {"settle", "stop", "unwind", "free"} /\ RolledBack
  BY DEF FallbackWithheld, RolledBack, core
<1>6. AwaitLastSidecar =>
        \/ at' = "spawn" /\ SidecarGone /\ CoreStopped /\ UNCHANGED guard
        \/ at' \in {"stop", "unwind", "free"} /\ ExitTimesOut /\ RolledBack
  BY DEF AwaitLastSidecar
<1>7. SpawnFails \/ SidecarSilent => at' \in {"stop", "unwind", "free"} /\ RolledBack
  BY DEF SpawnFails, SidecarSilent
<1>8. /\ SpawnSidecar => at' = "spawned"
      /\ DrainSidecar => at' = "poll"
      /\ SidecarAnswers => at' = "polled"
      /\ SidecarStarted => at' = "settle"
  BY DEF SpawnSidecar, DrainSidecar, SidecarAnswers, SidecarStarted
<1>. QED BY <1>1, <1>2, <1>3, <1>4, <1>5, <1>6, <1>7, <1>8

\* and what follows a start.
LEMMA AppliesLead ==
    ASSUME ControlTypes
    PROVE  /\ Settle => at' \in {"capture", "stop", "unwind", "free"}
           /\ CaptureExpectation => at' = "apply"
           /\ RefusedUnready => at' \in {"stop", "unwind", "free"}
           /\ ApplyProxy => at' \in {"check", "stop", "unwind", "free"}
           /\ CheckApplied => at' \in {"guard", "undo"}
           /\ RefreshGuard => \/ at' = "recheck" /\ guard' = TRUE
                              \/ at' \in {"stop", "unwind", "free"} /\ guard' = FALSE
           /\ CheckGuarded => at' \in {"free", "undo"}
           /\ UndoApply => at' \in {"stop", "unwind", "free"}
<1>. USE PlaceNames, Going, Ending, Failing
<1>1. /\ Settle => at' \in {"capture", "stop", "unwind", "free"}
      /\ CaptureExpectation => at' = "apply"
      /\ RefusedUnready => at' \in {"stop", "unwind", "free"}
  BY DEF Settle, CaptureExpectation, RefusedUnready
<1>2. /\ ApplyProxy => at' \in {"check", "stop", "unwind", "free"}
      /\ CheckApplied => at' \in {"guard", "undo"}
  BY DEF ApplyProxy, CheckApplied
<1>3. /\ RefreshGuard => \/ at' = "recheck" /\ guard' = TRUE
                         \/ at' \in {"stop", "unwind", "free"} /\ guard' = FALSE
      /\ CheckGuarded => at' \in {"free", "undo"}
      /\ UndoApply => at' \in {"stop", "unwind", "free"}
  BY DEF RefreshGuard, CheckGuarded, UndoApply
<1>. QED BY <1>1, <1>2, <1>3

Types == TypeOK /\ HasPid

LEMMA NextTypes ==
    ASSUME Types, [Next]_vars
    PROVE  Types'
<1>. USE DEF Types
<1>1. TypeOK'
  <2>1. CASE BodyStep /\ UNCHANGED scenario
    <3>1. scenario' \in Scenarios
      BY <2>1 DEF TypeOK
    <3>. QED BY <2>1, <3>1, TypesAreTypeOK, BodyControls, BodyCores, BodyOwners, BodySidecars, BodyServices
         DEF TypeOK, ControlTypes, CoreTypes, OwnerTypes, SidecarTypes, ServiceTypes
  <2>2. CASE (\E t \in tasks : TaskStep(t)) /\ UNCHANGED scenario
    <3>1. scenario' \in Scenarios
      BY <2>2 DEF TypeOK
    <3>. QED BY <2>2, <3>1, TaskTypes
         DEF TypeOK, ControlTypes, CoreTypes, OwnerTypes, SidecarTypes, ServiceTypes
  <2>3. CASE (\E d \in drains : DrainStep(d)) /\ UNCHANGED scenario
    <3>1. scenario' \in Scenarios
      BY <2>3 DEF TypeOK
    <3>. QED BY <2>3, <3>1, DrainTypes
         DEF TypeOK, ControlTypes, CoreTypes, OwnerTypes, SidecarTypes, ServiceTypes
  <2>4. CASE (\E c \in Callers : Ask(c) \/ Begin(c)) /\ UNCHANGED scenario
    <3>1. UNCHANGED <<core, owner, sidecar, proxies, service>>
      BY <2>4 DEF Ask, Begin
    <3>. QED BY <2>4, <3>1, AskTypes DEF TypeOK, ControlTypes, core, owner, sidecar, proxies, service
  <2>5. CASE (\E r \in scenario.readers : ReaderAsks(r)) /\ UNCHANGED scenario
    <3>1. PICK r \in scenario.readers : ReaderAsks(r)
      BY <2>5
    <3>2. r \in Readers
      BY CoreLifecycleAssumption DEF TypeOK
    <3>3. [who |-> r, gen |-> ownerGen, pc |-> "watching", why |-> "none"] \in Task
      BY <3>2 DEF TypeOK, Task
    <3>4. tasks' \subseteq Task
      BY <3>1, <3>3 DEF TypeOK, ReaderAsks
    <3>. QED BY <2>5, <3>1, <3>4 DEF TypeOK, ReaderAsks, asked, body, core, sidecar, proxies, service
  <2>6. CASE SidecarDies /\ UNCHANGED scenario
    BY <2>6 DEF TypeOK, SidecarDies, asked, body, core, owner, proxies, service
  <2>7. CASE ServiceLost /\ UNCHANGED scenario
    <3>1. svc' \in [session : Nat, core : BOOLEAN]
      BY <2>7, TypesAreTypeOK, ServiceWords DEF ServiceLost
    <3>. QED BY <2>7, <3>1 DEF TypeOK, ServiceLost, asked, body, core, owner, sidecar, proxies
  <2>8. CASE UNCHANGED vars
    BY <2>8 DEF TypeOK, vars, asked, body, core, owner, sidecar, proxies, service
  <2>. QED BY <2>1, <2>2, <2>3, <2>4, <2>5, <2>6, <2>7, <2>8 DEF Next
<1>2. HasPid'
  <2>1. CASE SpawnSidecar
    BY <2>1 DEF HasPid, SpawnSidecar, TypeOK, None
  <2>2. CASE BodyStep /\ ~SpawnSidecar
    <3>1. at' # "spawned"
      BY <2>2, TypesAreTypeOK, StopsLead, StartsLead, AppliesLead DEF BodyStep
    <3>. QED BY <3>1 DEF HasPid
  <2>3. CASE UNCHANGED <<at, spawned>>
    BY <2>3 DEF HasPid
  <2>4. CASE \E c \in Callers : Ask(c) \/ Begin(c)
    BY <2>4 DEF Ask, Begin, HasPid, body, sidecar
  <2>5. CASE \E t \in tasks : TaskStep(t)
    BY <2>5 DEF TaskStep, MonitorStops, MonitorNotices, ReaderHears, CheckMode, ClaimRecovery,
                InvalidateReadiness, EnterRecovery, Recover, HasPid, body, sidecar
  <2>6. \/ BodyStep \/ UNCHANGED <<at, spawned>>
        \/ (\E c \in Callers : Ask(c) \/ Begin(c)) \/ (\E t \in tasks : TaskStep(t))
    BY DEF Next, vars, ReaderAsks, DrainStep, SidecarTerminated, ClearTerminated, SidecarDies,
           ServiceLost, body, sidecar
  <2>. QED BY <2>1, <2>2, <2>3, <2>4, <2>5, <2>6
<1>. QED BY <1>1, <1>2

-----------------------------------------------------------------------------
(* The running mode where the body stands *)

LEMMA BodyModes ==
    ASSUME TypeOK, ModesFit, BodyStep
    PROVE  ModesFit'
<1>1. ControlTypes /\ CoreTypes
  BY TypesAreTypeOK
<1>. USE DEF ModesFit
<1>2. CASE at' \notin Starting \cup Applying
  BY <1>2
<1>3. CASE at' \in Starting
  <2>1. mode' = "NotRunning"
    <3>1. CASE StopNothing \/ ServiceStops \/ ReapSidecar
      BY <3>1 DEF StopNothing, ServiceStops, ReapSidecar, CoreStopped, core
    <3>2. CASE Decide \/ PrepareService
      BY <1>1, <3>2, StartsLead DEF Decide, PrepareService, Starting, RolledBack, CoreStopped, core
    <3>3. CASE ServiceStartFails \/ ServiceNotAsked \/ AwaitLastSidecar
      BY <1>1, <3>3, StartsLead
         DEF ServiceStartFails, ServiceNotAsked, AwaitLastSidecar, Starting, RolledBack, CoreStopped
    <3>4. CASE ServiceGrants \/ MarkServiceReady \/ FallBack \/ SpawnSidecar \/ DrainSidecar \/ SidecarAnswers
      BY <3>4 DEF ServiceGrants, MarkServiceReady, FallBack, SpawnSidecar, DrainSidecar, SidecarAnswers,
                  Starting, core
    <3>. QED BY <1>1, <1>3, <3>1, <3>2, <3>3, <3>4, StopsLead, StartsLead, AppliesLead DEF BodyStep, Starting
  <2>. QED BY <1>3, <2>1 DEF Starting, Applying
<1>4. CASE at' \in Applying
  <2>1. mode' # "NotRunning"
    <3>1. CASE CaptureExpectation
      BY <3>1 DEF CaptureExpectation, core
    <3>2. CASE ApplyProxy \/ CheckApplied \/ RefreshGuard \/ CheckGuarded
      BY <3>2 DEF ApplyProxy, CheckApplied, RefreshGuard, CheckGuarded, Applying, core
    <3>. QED BY <1>1, <1>4, <3>1, <3>2, StopsLead, StartsLead, AppliesLead DEF BodyStep, Applying
  <2>. QED BY <1>4, <2>1 DEF Starting, Applying
<1>. QED BY <1>2, <1>3, <1>4

\* Nothing outside the body moves it, or stops a core, but from "free".
LEMMA Others ==
    ASSUME TypeOK, Next, ~BodyStep
    PROVE  \/ UNCHANGED <<at, mode, proxy, guard>>
           \/ at = "free" /\ at' = "recovering" /\ UNCHANGED <<mode, proxy, guard>>
           \/ at = "recovering" /\ at' = "free" /\ mode' = "NotRunning" /\ guard' = FALSE
           \/ at = "free" /\ UNCHANGED at /\ mode' = "NotRunning" /\ guard' = FALSE
           \/ /\ at = "free" /\ at' \in {"start", "capture", "prepare", "stop"}
              /\ UNCHANGED <<mode, proxy, guard>>
<1>1. CASE \E c \in Callers : Ask(c) \/ Begin(c)
  BY <1>1 DEF Ask, Begin, body, core, proxies
<1>2. CASE \E r \in scenario.readers : ReaderAsks(r)
  BY <1>2 DEF ReaderAsks, body, core, proxies
<1>3. CASE \E t \in tasks : TaskStep(t)
  <2>1. PICK t \in tasks : TaskStep(t)
    BY <1>3
  <2>2. CASE \/ MonitorStops(t) \/ MonitorNotices(t) \/ ReaderHears(t) \/ CheckMode(t)
             \/ ClaimRecovery(t) \/ InvalidateReadiness(t)
    BY <2>2 DEF MonitorStops, MonitorNotices, ReaderHears, CheckMode, ClaimRecovery,
                InvalidateReadiness, body, core, proxies
  <2>3. CASE EnterRecovery(t) \/ Recover(t)
    BY <2>3 DEF EnterRecovery, Recover, RecoverLocked, CoreStopped, body, core, proxies
  <2>. QED BY <2>1, <2>2, <2>3 DEF TaskStep
<1>4. CASE (\E d \in drains : DrainStep(d)) \/ SidecarDies \/ ServiceLost
  BY <1>4 DEF DrainStep, SidecarTerminated, ClearTerminated, ClearSidecar, SidecarDies, ServiceLost,
              CoreStopped, body, core, proxies
<1>. QED BY <1>1, <1>2, <1>3, <1>4 DEF Next

LEMMA ModesStayFit ==
    ASSUME TypeOK, ModesFit, [Next]_vars
    PROVE  ModesFit'
<1>1. CASE BodyStep
  BY <1>1, BodyModes
<1>2. CASE Next /\ ~BodyStep
  BY <1>2, Others DEF ModesFit, Starting, Applying
<1>3. CASE UNCHANGED vars
  BY <1>3 DEF ModesFit, vars, body, core
<1>. QED BY <1>1, <1>2, <1>3

-----------------------------------------------------------------------------
(* The proxy and its guard *)

LEMMA BodyProxies ==
    ASSUME TypeOK, ModesFit, ProxiesFit, BodyStep, UNCHANGED scenario
    PROVE  ProxiesFit'
<1>1. ControlTypes /\ CoreTypes /\ UNCHANGED platform
  BY TypesAreTypeOK DEF platform
<1>2. mode' = "NotRunning" => ~guard'
  <2>1. CASE ServiceStops \/ ReapSidecar
    BY <2>1 DEF ServiceStops, ReapSidecar, ProxiesFit, Stopping, proxies
  <2>2. CASE StopFindsDisplaced \/ UnwindStart
    BY <2>2 DEF StopFindsDisplaced, RecoverLocked, UnwindStart
  <2>3. CASE StartAbandoned \/ AwaitLastSidecar
    BY <1>1, <2>3, StartsLead
       DEF StartAbandoned, AwaitLastSidecar, ModesFit, ProxiesFit, Starting, RolledBack, proxies
  <2>4. CASE Decide \/ PrepareService \/ ServiceStartFails \/ ServiceNotAsked \/ FallbackWithheld
             \/ SpawnFails \/ SidecarSilent
    <3>1. (UNCHANGED <<mode, guard>>) \/ guard' = FALSE
      BY <1>1, <2>4, StartsLead DEF RolledBack, core
    <3>. QED BY <3>1 DEF ProxiesFit
  <2>5. CASE ServiceStarted \/ SidecarStarted
    BY <2>5 DEF ServiceStarted, SidecarStarted, CoreStarted
  <2>6. CASE RefreshGuard
    BY <2>6 DEF RefreshGuard, ModesFit, Applying, core
  <2>7. CASE StopNothing \/ HandoffSkipped \/ StopGuardOnly \/ ClearBeforeStop \/ CancelThenAsk
             \/ StopRefused \/ KillSidecar \/ ReinstallService \/ UninstallService \/ AllowSidecar
             \/ UnwindSidecar
    <3>1. UNCHANGED mode /\ guard' \in {guard, FALSE}
      BY <2>7 DEF StopNothing, HandoffSkipped, StopGuardOnly, ClearBeforeStop, CancelThenAsk,
                  StopRefused, KillSidecar, ReinstallService, UninstallService, AllowSidecar,
                  UnwindSidecar, Cleared, ClearFailed, core, proxies
    <3>. QED BY <3>1 DEF ProxiesFit
  <2>8. CASE StartSkipped \/ ServiceGrants \/ MarkServiceReady \/ FallBack \/ SpawnSidecar
             \/ DrainSidecar \/ SidecarAnswers
    <3>1. UNCHANGED <<mode, guard>>
      BY <2>8 DEF StartSkipped, ServiceGrants, MarkServiceReady, FallBack, SpawnSidecar,
                  DrainSidecar, SidecarAnswers, core, proxies
    <3>. QED BY <3>1 DEF ProxiesFit
  <2>9. CASE Settle \/ CaptureExpectation \/ RefusedUnready \/ ApplyProxy \/ CheckApplied
             \/ CheckGuarded \/ UndoApply
    <3>1. UNCHANGED mode /\ guard' \in {guard, FALSE}
      BY <2>9 DEF Settle, CaptureExpectation, RefusedUnready, ApplyProxy, CheckApplied,
                  CheckGuarded, UndoApply, core, proxies
    <3>. QED BY <3>1 DEF ProxiesFit
  <2>. QED BY <2>1, <2>2, <2>3, <2>4, <2>5, <2>6, <2>7, <2>8, <2>9 DEF BodyStep
<1>3. at' \in Stopping => ~guard' /\ (platform # "macos" => ~proxy')
  <2>1. CASE StopGuardOnly
    BY <2>1 DEF StopGuardOnly, HandsOver
  <2>2. CASE (ClearBeforeStop \/ UnwindSidecar) /\ at' \in Stopping
    BY <1>1, <2>2, StopsLead DEF Stopping, Cleared
  <2>3. CASE CancelThenAsk \/ KillSidecar
    BY <2>3 DEF CancelThenAsk, KillSidecar, ProxiesFit, Stopping, proxies
  <2>. QED BY <1>1, <2>1, <2>2, <2>3, StopsLead, StartsLead, AppliesLead DEF BodyStep, Stopping
<1>. QED BY <1>1, <1>2, <1>3 DEF ProxiesFit

LEMMA ProxiesStayFit ==
    ASSUME TypeOK, ModesFit, ProxiesFit, [Next]_vars
    PROVE  ProxiesFit'
<1>1. UNCHANGED platform
  BY DEF Next, vars, platform
<1>2. CASE Next /\ BodyStep
  BY <1>2, BodyProxies DEF Next
<1>3. CASE Next /\ ~BodyStep
  <2>1. (at' \in Stopping => UNCHANGED <<at, proxy, guard>>) /\ (UNCHANGED <<mode, guard>> \/ ~guard')
    BY <1>3, Others DEF Stopping
  <2>. QED BY <1>1, <2>1 DEF ProxiesFit
<1>4. CASE UNCHANGED vars
  BY <1>1, <1>4 DEF ProxiesFit, vars, body, core, proxies
<1>. QED BY <1>2, <1>3, <1>4

-----------------------------------------------------------------------------
(* Processes and their drains *)

\* Which steps of the body touch the processes and their drains.
LEMMA BodyProcessFrame ==
    ASSUME BodyStep
    PROVE  \/ ReapSidecar \/ AwaitLastSidecar \/ SpawnSidecar \/ DrainSidecar
           \/ UNCHANGED <<exit, alive, drains, spawned>>
BY DEF BodyStep, StopNothing, HandoffSkipped, StopGuardOnly, ClearBeforeStop, CancelThenAsk,
       ServiceStops, StopRefused, StopFindsDisplaced, KillSidecar, ReinstallService, UninstallService,
       AllowSidecar, UnwindSidecar, UnwindStart, StartSkipped, Decide, StartAbandoned, PrepareService,
       ServiceGrants, ServiceStartFails, ServiceNotAsked, MarkServiceReady, ServiceStarted, FallBack,
       FallbackWithheld, SpawnFails, SidecarAnswers, SidecarSilent, SidecarStarted, Settle,
       CaptureExpectation, RefusedUnready, ApplyProxy, CheckApplied, RefreshGuard, CheckGuarded,
       UndoApply, sidecar

LEMMA BodyProcesses ==
    ASSUME TypeOK, ProcessesFit, BodyStep
    PROVE  ProcessesFit'
<1>1. ControlTypes /\ CoreTypes /\ SidecarTypes
  BY TypesAreTypeOK
<1>2. at' = "spawn" => AwaitLastSidecar /\ SidecarGone
  BY <1>1, StopsLead, StartsLead, AppliesLead DEF BodyStep
<1>3. CASE ReapSidecar \/ AwaitLastSidecar
  <2>1. SidecarGone \/ UNCHANGED exit
    BY <1>3 DEF ReapSidecar, AwaitLastSidecar, ExitTimesOut
  <2>2. UNCHANGED <<alive, drains, spawned>>
    BY <1>3 DEF ReapSidecar, AwaitLastSidecar
  <2>3. SidecarGone => alive = {}
    BY DEF SidecarGone, ProcessesFit, SidecarsAreHeld
  <2>. QED BY <1>2, <2>1, <2>2, <2>3 DEF ProcessesFit, SidecarsAreHeld
<1>4. CASE SpawnSidecar
  <2>1. alive' = {spawned + 1} /\ exit' = spawned + 1 /\ spawned' = spawned + 1 /\ UNCHANGED drains
    BY <1>4 DEF SpawnSidecar, ProcessesFit
  <2>2. \A d \in drains : d.pid \in Nat /\ d.pid <= spawned
    BY <1>1 DEF ProcessesFit, SidecarTypes, Drain
  <2>3. at' # "spawn"
    BY <1>1, <1>4, StartsLead
  <2>4. \A d \in drains : d.pid <= spawned + 1 /\ d.pid # spawned + 1
    BY <1>1, <2>2 DEF SidecarTypes
  <2>. QED BY <2>1, <2>3, <2>4 DEF ProcessesFit, SidecarsAreHeld
<1>5. CASE DrainSidecar
  <2>1. UNCHANGED <<alive, exit, spawned>> /\ drains' = drains \cup {NewDrain}
    BY <1>5 DEF DrainSidecar
  <2>2. NewDrain.pid = spawned /\ NewDrain.pc = "reading"
    BY DEF NewDrain
  <2>3. at' # "spawn"
    BY <1>1, <1>5, StartsLead
  <2>4. spawned <= spawned
    BY <1>1 DEF SidecarTypes
  <2>. QED BY <2>1, <2>2, <2>3, <2>4 DEF ProcessesFit, SidecarsAreHeld
<1>6. CASE UNCHANGED <<exit, alive, drains, spawned>> /\ at' # "spawn"
  BY <1>6 DEF ProcessesFit, SidecarsAreHeld
<1>. QED BY <1>2, <1>3, <1>4, <1>5, <1>6, BodyProcessFrame

LEMMA ProcessesStayFit ==
    ASSUME TypeOK, ProcessesFit, [Next]_vars
    PROVE  ProcessesFit'
<1>1. CASE BodyStep
  BY <1>1, BodyProcesses
<1>2. CASE Next /\ ~BodyStep
  <2>1. at' = "spawn" => at = "spawn"
    BY <1>2, Others
  <2>2. CASE UNCHANGED sidecar
    BY <2>1, <2>2 DEF ProcessesFit, SidecarsAreHeld, sidecar
  <2>3. ASSUME NEW d \in drains, SidecarTerminated(d)
        PROVE  ProcessesFit'
    <3>1. /\ drains' = (drains \ {d}) \cup {[d EXCEPT !.pc = "queued"]}
          /\ d.pid \notin alive /\ UNCHANGED <<exit, alive, spawned>>
      BY <2>3 DEF SidecarTerminated
    <3>2. d \in Drain
      BY DEF TypeOK
    <3>3. [d EXCEPT !.pc = "queued"].pid = d.pid
      BY <3>2 DEF Drain
    <3>. QED BY <2>1, <3>1, <3>3 DEF ProcessesFit, SidecarsAreHeld
  <2>4. ASSUME NEW d \in drains, ClearTerminated(d)
        PROVE  ProcessesFit'
    BY <2>1, <2>4 DEF ClearTerminated, ProcessesFit, SidecarsAreHeld
  <2>5. CASE SidecarDies
    BY <2>1, <2>5 DEF SidecarDies, ProcessesFit, SidecarsAreHeld
  <2>6. \/ UNCHANGED sidecar \/ SidecarDies
        \/ \E d \in drains : SidecarTerminated(d) \/ ClearTerminated(d)
    BY <1>2 DEF Next, Ask, Begin, ReaderAsks, TaskStep, MonitorStops, MonitorNotices, ReaderHears,
                CheckMode, ClaimRecovery, InvalidateReadiness, EnterRecovery, Recover, DrainStep,
                ServiceLost
  <2>. QED BY <2>2, <2>3, <2>4, <2>5, <2>6
<1>3. CASE UNCHANGED vars
  BY <1>3 DEF ProcessesFit, SidecarsAreHeld, vars, body, sidecar
<1>. QED BY <1>1, <1>2, <1>3

\* Withdrawing the readiness leaves a process its drain.
LEMMA StaysDrained ==
    ASSUME CoreTypes, NEW p, IsDrained(p), UNCHANGED drains,
           ready' = ready \/ ready' = Inactive(ready)
    PROVE  \E d \in drains' : d.pid = p /\ (ready'.active => d.pc = "reading" /\ ready'.gen = d.gen)
BY ReadyTypes DEF IsDrained

\* What the body does where a Sidecar runs and goes on running.
KeepsSidecar ==
    /\ mode = "Sidecar" /\ at \notin {"reap", "unreap"}
    /\ UNCHANGED <<child, drains>> /\ (ready' = ready \/ ready' = Inactive(ready))

LEMMA BodyKeepsSidecar ==
    ASSUME TypeOK, ModesFit, BodyStep, mode' = "Sidecar", at' \notin {"reap", "unreap"}
    PROVE  SidecarStarted \/ KeepsSidecar
<1>1. ControlTypes /\ ~CoreStopped /\ (at \in Starting => mode # "Sidecar")
  BY TypesAreTypeOK DEF CoreStopped, ModesFit
<1>. USE DEF KeepsSidecar
<1>2. CASE StopNothing \/ HandoffSkipped \/ StopGuardOnly \/ ClearBeforeStop \/ CancelThenAsk
           \/ StopRefused \/ AllowSidecar
  BY <1>2 DEF StopNothing, HandoffSkipped, StopGuardOnly, ClearBeforeStop, CancelThenAsk, StopRefused,
              AllowSidecar, core, sidecar
<1>3. CASE ServiceStops \/ StopFindsDisplaced \/ KillSidecar \/ ReapSidecar \/ UnwindStart \/ StartAbandoned
  BY <1>1, <1>3, StopsLead
     DEF ServiceStops, StopFindsDisplaced, RecoverLocked, ReapSidecar, UnwindStart, StartAbandoned
<1>4. CASE UnwindSidecar
  <2>1. UNCHANGED <<drains, mode, ready>> /\ mode = "Sidecar" /\ at = "unwind"
    BY <1>4 DEF UnwindSidecar, core
  <2>2. UNCHANGED child
    BY <1>4 DEF UnwindSidecar, Goto
  <2>. QED BY <2>1, <2>2
<1>5. CASE ReinstallService \/ UninstallService \/ ServiceGrants \/ MarkServiceReady \/ SpawnSidecar
           \/ DrainSidecar \/ SidecarAnswers \/ FallBack
  BY <1>1, <1>5
     DEF ReinstallService, UninstallService, ServiceGrants, MarkServiceReady, SpawnSidecar,
         DrainSidecar, SidecarAnswers, FallBack, Starting, core
<1>6. CASE StartSkipped \/ Settle \/ CaptureExpectation \/ RefusedUnready \/ ApplyProxy \/ CheckApplied
           \/ RefreshGuard \/ CheckGuarded \/ UndoApply
  BY <1>6
     DEF StartSkipped, Settle, CaptureExpectation, RefusedUnready, ApplyProxy, CheckApplied,
         RefreshGuard, CheckGuarded, UndoApply, core, sidecar
<1>7. CASE Decide \/ PrepareService \/ ServiceStartFails \/ ServiceNotAsked \/ FallbackWithheld
           \/ AwaitLastSidecar \/ SpawnFails \/ SidecarSilent
  <2>1. mode = "NotRunning"
    BY <1>7 DEF ModesFit, Starting, Decide, PrepareService, ServiceStartFails, ServiceNotAsked,
                FallbackWithheld, AwaitLastSidecar, SpawnFails, SidecarSilent
  <2>2. mode' = "NotRunning"
    BY <1>1, <1>7, <2>1, StartsLead DEF RolledBack, core
  <2>. QED BY <2>2
<1>8. CASE ServiceStarted \/ SidecarStarted
  BY <1>8 DEF ServiceStarted, CoreStarted
<1>. QED BY <1>2, <1>3, <1>4, <1>5, <1>6, <1>7, <1>8 DEF BodyStep

LEMMA BodyDrains ==
    ASSUME TypeOK, ModesFit, DrainsFit, BodyStep
    PROVE  DrainsFit'
<1>1. ControlTypes /\ CoreTypes
  BY TypesAreTypeOK
<1>2. ASSUME mode' = "Sidecar", at' \notin {"reap", "unreap"}
      PROVE  \E d \in drains' : d.pid = child' /\ (ready'.active => d.pc = "reading" /\ ready'.gen = d.gen)
  <2>1. CASE SidecarStarted
    <3>1. at = "polled" /\ child' = spawned /\ UNCHANGED <<ready, drains>>
      BY <2>1 DEF SidecarStarted
    <3>. QED BY <3>1 DEF DrainsFit, IsDrained
  <2>2. CASE KeepsSidecar
    BY <1>1, <2>2, StaysDrained DEF DrainsFit, KeepsSidecar
  <2>. QED BY <1>2, <2>1, <2>2, BodyKeepsSidecar
<1>3. ASSUME at' \in {"poll", "polled"}
      PROVE  \E d \in drains' : d.pid = spawned' /\ (ready'.active => d.pc = "reading" /\ ready'.gen = d.gen)
  <2>1. CASE DrainSidecar
    <3>1. drains' = drains \cup {NewDrain} /\ UNCHANGED spawned
      BY <2>1 DEF DrainSidecar
    <3>2. NewDrain.pid = spawned /\ NewDrain.pc = "reading" /\ NewDrain.gen = ready'.gen
      BY DEF NewDrain
    <3>. QED BY <3>1, <3>2
  <2>2. CASE SidecarAnswers
    BY <2>2 DEF SidecarAnswers, DrainsFit, IsDrained, core, sidecar
  <2>. QED BY <1>1, <1>3, <2>1, <2>2, StopsLead, StartsLead, AppliesLead DEF BodyStep
<1>. QED BY <1>2, <1>3 DEF DrainsFit, IsDrained

LEMMA DrainsStayFit ==
    ASSUME TypeOK, ModesFit, DrainsFit, [Next]_vars
    PROVE  DrainsFit'
<1>1. CoreTypes
  BY TypesAreTypeOK
<1>2. CASE BodyStep
  BY <1>2, BodyDrains
<1>3. CASE Next /\ ~BodyStep
  <2>1. /\ at' \in {"poll", "polled"} => at \in {"poll", "polled"}
        /\ at' \notin {"reap", "unreap"} => at \notin {"reap", "unreap"}
        /\ mode' = "Sidecar" => mode = "Sidecar"
    BY <1>3, Others
  <2>2. CASE UNCHANGED <<child, drains, spawned>> /\ (ready' = ready \/ ready' = Inactive(ready))
    BY <1>1, <2>1, <2>2, StaysDrained DEF DrainsFit, IsDrained
  <2>3. ASSUME NEW d \in drains, SidecarTerminated(d)
        PROVE  DrainsFit'
    <3>. DEFINE q == [d EXCEPT !.pc = "queued"]
    <3>1. drains' = (drains \ {d}) \cup {q} /\ UNCHANGED <<child, spawned>>
      BY <2>3 DEF SidecarTerminated
    <3>2. d \in Drain
      BY DEF TypeOK
    <3>3. q.pid = d.pid
      BY <3>2 DEF Drain
    <3>4. \/ ~ready'.active
          \/ ready' = ready /\ ~(ready.active /\ ready.gen = d.gen)
      <4>1. ready = [active |-> TRUE, gen |-> d.gen] <=> ready.active /\ ready.gen = d.gen
        BY <1>1 DEF CoreTypes, Readiness
      <4>. QED BY <1>1, <2>3, <4>1, ReadyTypes DEF SidecarTerminated
    <3>. HIDE DEF q
    <3>5. ASSUME NEW p, IsDrained(p)
          PROVE  \E e \in drains' : e.pid = p /\ (ready'.active => e.pc = "reading" /\ ready'.gen = e.gen)
      <4>1. PICK e \in drains : e.pid = p /\ (ready.active => e.pc = "reading" /\ ready.gen = e.gen)
        BY <3>5 DEF IsDrained
      <4>2. CASE e = d
        BY <3>1, <3>3, <3>4, <4>1, <4>2
      <4>3. CASE e # d
        BY <3>1, <3>4, <4>1, <4>3
      <4>. QED BY <4>2, <4>3
    <3>. QED BY <2>1, <3>1, <3>5 DEF DrainsFit, IsDrained
  <2>4. ASSUME NEW d \in drains, ClearTerminated(d)
        PROVE  DrainsFit'
    <3>1. at' = "free" /\ drains' = drains \ {d}
      BY <2>4 DEF ClearTerminated, body
    <3>2. CASE ShouldClear(d)
      BY <2>4, <3>1, <3>2 DEF ClearTerminated, ClearSidecar, CoreStopped, DrainsFit
    <3>3. CASE ~ShouldClear(d)
      <4>1. UNCHANGED <<child, ready, mode>> /\ (mode = "Sidecar" => child # d.pid)
        BY <2>4, <3>3 DEF ClearTerminated, ShouldClear, core
      <4>. QED BY <2>1, <3>1, <4>1 DEF DrainsFit, IsDrained
    <3>. QED BY <3>2, <3>3
  <2>5. \/ UNCHANGED <<child, drains, spawned>> /\ (ready' = ready \/ ready' = Inactive(ready))
        \/ \E d \in drains : SidecarTerminated(d) \/ ClearTerminated(d)
    BY <1>3 DEF Next, Ask, Begin, ReaderAsks, TaskStep, MonitorStops, MonitorNotices, ReaderHears,
                CheckMode, ClaimRecovery, InvalidateReadiness, EnterRecovery, Recover, RecoverLocked,
                CoreStopped, DrainStep, ServiceLost, SidecarDies, core, sidecar
  <2>. QED BY <2>2, <2>3, <2>4, <2>5
<1>4. CASE UNCHANGED vars
  BY <1>4 DEF DrainsFit, IsDrained, vars, body, core, sidecar
<1>. QED BY <1>2, <1>3, <1>4

-----------------------------------------------------------------------------
(* Monitors, readers and what they concluded *)

\* u is t at a later place.
Follows(t, u, pc) == Became(t, u) /\ u \in Task /\ u.who = t.who /\ u.pc = pc

LEMMA TasksFollow ==
    ASSUME TypeOK, NEW t \in tasks
    PROVE  /\ MonitorNotices(t) =>
                \E u \in Task : /\ Follows(t, u, "lost") /\ u.gen = t.gen
                                /\ u.why = "displaced" => svc.session # session
           /\ ReaderHears(t) =>
                \/ Over(t)
                \/ \E u \in Task : Follows(t, u, "lost") /\ u.gen = t.gen /\ svc.session = None
           /\ CheckMode(t) =>
                \/ mode # "Service" /\ Over(t)
                \/ \E u \in Task : Follows(t, u, "claiming") /\ u.gen = t.gen /\ u.why = t.why
           /\ ClaimRecovery(t) =>
                \/ ownerGen # t.gen /\ Over(t) /\ UNCHANGED ownerGen
                \/ /\ ownerGen = t.gen /\ ownerGen' = t.gen + 1
                   /\ \E u \in Task : Follows(t, u, "claimed") /\ u.gen = t.gen + 1 /\ u.why = t.why
           /\ InvalidateReadiness(t) =>
                \E u \in Task : Follows(t, u, "queued") /\ u.gen = t.gen /\ u.why = t.why
           /\ EnterRecovery(t) =>
                \/ ~StillLost(t) /\ Over(t) /\ UNCHANGED at
                \/ /\ StillLost(t) /\ at' = "recovering"
                   /\ \E u \in Task : Follows(t, u, "recovering") /\ u.gen = t.gen /\ u.why = t.why
<1>1. t \in Task /\ DOMAIN t = {"who", "gen", "pc", "why"}
  BY DEF TypeOK, Task
<1>. USE TaskUpdates DEF Follows, Became, Over, Drop, Move, Loses
<1>2. ASSUME NEW why \in {"displaced", "failed", "transport"}
      PROVE  LET u == [t EXCEPT !.pc = "lost", !.why = why] IN
             u \in Task /\ u.who = t.who /\ u.gen = t.gen /\ u.pc = "lost" /\ u.why = why
  <2>. DEFINE u == [t EXCEPT !.pc = "lost", !.why = why]
  <2>1. u \in Task
    BY <1>1
  <2>2. u.who = t.who /\ u.gen = t.gen /\ u.pc = "lost" /\ u.why = why
    BY <1>1
  <2>. QED BY <2>1, <2>2
<1>3. ASSUME NEW pc \in {"claiming", "queued", "recovering"}
      PROVE  LET u == [t EXCEPT !.pc = pc] IN
             u \in Task /\ u.who = t.who /\ u.gen = t.gen /\ u.pc = pc /\ u.why = t.why
  <2>. DEFINE u == [t EXCEPT !.pc = pc]
  <2>1. u \in Task
    BY <1>1
  <2>2. u.who = t.who /\ u.gen = t.gen /\ u.pc = pc /\ u.why = t.why
    BY <1>1
  <2>. QED BY <2>1, <2>2
<1>4. LET u == [t EXCEPT !.pc = "claimed", !.gen = t.gen + 1] IN
      u \in Task /\ u.who = t.who /\ u.gen = t.gen + 1 /\ u.pc = "claimed" /\ u.why = t.why
  <2>. DEFINE u == [t EXCEPT !.pc = "claimed", !.gen = t.gen + 1]
  <2>1. u \in Task
    BY <1>1
  <2>2. u.who = t.who /\ u.gen = t.gen + 1 /\ u.pc = "claimed" /\ u.why = t.why
    BY <1>1
  <2>. QED BY <2>1, <2>2
<1>5. MonitorNotices(t) =>
        \E u \in Task : /\ Follows(t, u, "lost") /\ u.gen = t.gen
                        /\ u.why = "displaced" => svc.session # session
  BY <1>2 DEF MonitorNotices
<1>6. ReaderHears(t) =>
        \/ Over(t)
        \/ \E u \in Task : Follows(t, u, "lost") /\ u.gen = t.gen /\ svc.session = None
  BY <1>2 DEF ReaderHears
<1>7. CheckMode(t) =>
        \/ mode # "Service" /\ Over(t)
        \/ \E u \in Task : Follows(t, u, "claiming") /\ u.gen = t.gen /\ u.why = t.why
  BY <1>3 DEF CheckMode
<1>8. ClaimRecovery(t) =>
        \/ ownerGen # t.gen /\ Over(t) /\ UNCHANGED ownerGen
        \/ /\ ownerGen = t.gen /\ ownerGen' = t.gen + 1
           /\ \E u \in Task : Follows(t, u, "claimed") /\ u.gen = t.gen + 1 /\ u.why = t.why
  BY <1>4 DEF ClaimRecovery
<1>9. InvalidateReadiness(t) =>
        \E u \in Task : Follows(t, u, "queued") /\ u.gen = t.gen /\ u.why = t.why
  BY <1>3 DEF InvalidateReadiness
<1>10. EnterRecovery(t) =>
        \/ ~StillLost(t) /\ Over(t) /\ UNCHANGED at
        \/ /\ StillLost(t) /\ at' = "recovering"
           /\ \E u \in Task : Follows(t, u, "recovering") /\ u.gen = t.gen /\ u.why = t.why
  BY <1>3 DEF EnterRecovery, body
<1>. QED BY <1>5, <1>6, <1>7, <1>8, <1>9, <1>10

\* What the body does where the Service runs a core and goes on running it.
KeepsService ==
    /\ mode = "Service" /\ UNCHANGED <<session, svc>>
    /\ \/ at # "ask" /\ UNCHANGED <<ownerGen, tasks>>
       \/ CancelThenAsk \/ StopRefused

LEMMA BodyKeepsService ==
    ASSUME TypeOK, ModesFit, BodyStep, mode' = "Service"
    PROVE  ServiceStarted \/ KeepsService
<1>1. ControlTypes /\ ~CoreStopped /\ (at \in Starting => mode # "Service")
  BY TypesAreTypeOK DEF CoreStopped, ModesFit
<1>. USE DEF KeepsService
<1>2. CASE StopNothing \/ HandoffSkipped \/ StopGuardOnly \/ ClearBeforeStop \/ AllowSidecar
           \/ KillSidecar \/ UnwindSidecar
  BY <1>2 DEF StopNothing, HandoffSkipped, StopGuardOnly, ClearBeforeStop, AllowSidecar, KillSidecar,
              UnwindSidecar, core, owner, service
<1>3. CASE ServiceStops \/ StopFindsDisplaced \/ ReapSidecar \/ UnwindStart \/ StartAbandoned
  BY <1>1, <1>3
     DEF ServiceStops, StopFindsDisplaced, RecoverLocked, ReapSidecar, UnwindStart, StartAbandoned
<1>4. CASE CancelThenAsk \/ StopRefused
  BY <1>4 DEF CancelThenAsk, StopRefused, core, service
<1>5. CASE ReinstallService \/ UninstallService \/ ServiceGrants \/ MarkServiceReady \/ SpawnSidecar
           \/ DrainSidecar \/ SidecarAnswers \/ FallBack
  BY <1>1, <1>5
     DEF ReinstallService, UninstallService, ServiceGrants, MarkServiceReady, SpawnSidecar,
         DrainSidecar, SidecarAnswers, FallBack, Starting, core
<1>6. CASE StartSkipped \/ Settle \/ CaptureExpectation \/ RefusedUnready \/ ApplyProxy \/ CheckApplied
           \/ RefreshGuard \/ CheckGuarded \/ UndoApply
  BY <1>6
     DEF StartSkipped, Settle, CaptureExpectation, RefusedUnready, ApplyProxy, CheckApplied,
         RefreshGuard, CheckGuarded, UndoApply, core, owner, service
<1>7. CASE Decide \/ PrepareService \/ ServiceStartFails \/ ServiceNotAsked \/ FallbackWithheld
           \/ AwaitLastSidecar \/ SpawnFails \/ SidecarSilent
  <2>1. mode = "NotRunning"
    BY <1>7 DEF ModesFit, Starting, Decide, PrepareService, ServiceStartFails, ServiceNotAsked,
                FallbackWithheld, AwaitLastSidecar, SpawnFails, SidecarSilent
  <2>2. mode' = "NotRunning"
    BY <1>1, <1>7, <2>1, StartsLead DEF RolledBack, core
  <2>. QED BY <2>2
<1>8. CASE ServiceStarted \/ SidecarStarted
  BY <1>8 DEF SidecarStarted, CoreStarted
<1>. QED BY <1>2, <1>3, <1>4, <1>5, <1>6, <1>7, <1>8 DEF BodyStep

\* Tasks of the body's making are monitors that watch the newest generation.
LEMMA BodyTasks ==
    ASSUME TypeOK, BodyStep
    PROVE  /\ ownerGen' \in {ownerGen, ownerGen + 1}
           /\ \/ UNCHANGED tasks
              \/ SpawnMonitor /\ (StopRefused \/ ServiceStartFails \/ ServiceGrants)
BY DEF BodyStep, StopNothing, HandoffSkipped, StopGuardOnly, ClearBeforeStop, CancelThenAsk,
       CancelMonitors, ServiceStops, StopRefused, StopFindsDisplaced, KillSidecar, ReapSidecar,
       ReinstallService, UninstallService, AllowSidecar, UnwindSidecar, UnwindStart, StartSkipped,
       Decide, StartAbandoned, PrepareService, ServiceGrants, ServiceStartFails, ServiceNotAsked,
       MarkServiceReady, ServiceStarted, FallBack, FallbackWithheld, AwaitLastSidecar, SpawnFails,
       SpawnSidecar, DrainSidecar, SidecarAnswers, SidecarSilent, SidecarStarted, Settle,
       CaptureExpectation, RefusedUnready, ApplyProxy, CheckApplied, RefreshGuard, CheckGuarded,
       UndoApply, SpawnMonitor, owner

LEMMA BodyMonitors ==
    ASSUME TypeOK, ModesFit, MonitorsFit, BodyStep
    PROVE  MonitorsFit'
<1>1. ControlTypes /\ OwnerTypes /\ ServiceTypes /\ \A t \in tasks : t.gen \in Nat /\ t.gen <= ownerGen
  BY TypesAreTypeOK DEF OwnerTypes, Task, MonitorsFit
<1>2. \A t \in tasks : t.gen <= ownerGen + 1 /\ t.gen # ownerGen + 1
  BY <1>1 DEF OwnerTypes
<1>3. \A t \in tasks' : t.gen <= ownerGen'
  <2>1. CASE UNCHANGED tasks
    BY <1>1, <1>2, <2>1, BodyTasks
  <2>2. CASE SpawnMonitor
    <3>1. ownerGen + 1 <= ownerGen + 1
      BY <1>1 DEF OwnerTypes
    <3>. QED BY <1>1, <1>2, <2>2, <3>1, MonitorTypes
  <2>. QED BY <2>1, <2>2, BodyTasks
<1>4. ASSUME at' \in {"granted", "marked"}
      PROVE  /\ session' # None
             /\ \E t \in tasks' : t.who = Monitor /\ t.gen = ownerGen'
             /\ \A t \in tasks' : t.gen = ownerGen' => t.who = Monitor /\ t.pc = "watching"
  <2>1. CASE ServiceGrants
    <3>1. SpawnMonitor /\ session' = grants + 1
      BY <2>1 DEF ServiceGrants
    <3>. QED BY <1>1, <1>2, <3>1, MonitorTypes, ServiceWords
  <2>2. CASE MarkServiceReady
    BY <2>2 DEF MarkServiceReady, MonitorsFit, Settling, owner
  <2>. QED BY <1>1, <1>4, <2>1, <2>2, StopsLead, StartsLead, AppliesLead DEF BodyStep
<1>5. ASSUME mode' = "Service", at' \notin {"ask", "recovering"}
      PROVE  \E t \in tasks' : t.gen = ownerGen' /\ (t.who = Monitor \/ t.pc \in {"claimed", "queued"})
  <2>1. CASE ServiceStarted
    BY <2>1 DEF ServiceStarted, MonitorsFit, Settling, owner
  <2>2. CASE StopRefused
    BY <1>1, <2>2, MonitorTypes DEF StopRefused
  <2>3. CASE mode = "Service" /\ at # "ask" /\ UNCHANGED <<ownerGen, tasks>>
    <3>1. at # "recovering"
      BY DEF BodyStep, StopNothing, HandoffSkipped, StopGuardOnly, ClearBeforeStop, CancelThenAsk,
             ServiceStops, StopRefused, StopFindsDisplaced, KillSidecar, ReapSidecar, ReinstallService,
             UninstallService, AllowSidecar, UnwindSidecar, UnwindStart, StartSkipped, Decide,
             StartAbandoned, PrepareService, ServiceGrants, ServiceStartFails, ServiceNotAsked,
             MarkServiceReady, ServiceStarted, FallBack, FallbackWithheld, AwaitLastSidecar, SpawnFails,
             SpawnSidecar, DrainSidecar, SidecarAnswers, SidecarSilent, SidecarStarted, Settle,
             CaptureExpectation, RefusedUnready, ApplyProxy, CheckApplied, RefreshGuard, CheckGuarded,
             UndoApply
    <3>. QED BY <2>3, <3>1 DEF MonitorsFit, Watches
  <2>. QED BY <1>1, <1>5, <2>1, <2>2, <2>3, BodyKeepsService, StopsLead DEF KeepsService
<1>. QED BY <1>3, <1>4, <1>5 DEF MonitorsFit, Settling, Watches

-----------------------------------------------------------------------------
(* The tasks' own steps *)

\* What the tasks' steps leave alone.
LEMMA TaskFrame ==
    ASSUME NEW t \in tasks, TaskStep(t)
    PROVE  /\ \/ UNCHANGED <<at, mode>>
              \/ EnterRecovery(t) /\ at = "free" /\ at' \in {"free", "recovering"} /\ UNCHANGED mode
              \/ Recover(t) /\ at = "recovering" /\ at' = "free" /\ mode' = "NotRunning"
           /\ UNCHANGED svc
           /\ ~Recover(t) => UNCHANGED session
           /\ ~ClaimRecovery(t) => UNCHANGED ownerGen
BY DEF TaskStep, MonitorStops, MonitorNotices, ReaderHears, CheckMode, ClaimRecovery,
       InvalidateReadiness, EnterRecovery, Recover, RecoverLocked, CoreStopped, body, core, service

LEMMA TaskMonitors ==
    ASSUME TypeOK, ModesFit, MonitorsFit, NEW t \in tasks, TaskStep(t)
    PROVE  MonitorsFit'
<1>1. /\ \A v \in tasks : v.gen \in Nat /\ v.gen <= ownerGen
      /\ ownerGen \in Nat
  BY DEF TypeOK, Task, MonitorsFit
<1>2. Settling' => Settling /\ UNCHANGED <<at, session>>
  BY TaskFrame DEF Settling, Recover
<1>3. Settling /\ t.gen = ownerGen => t.who = Monitor /\ t.pc = "watching"
  BY DEF MonitorsFit
<1>4. mode' = "Service" /\ at' \notin {"ask", "recovering"} =>
        mode = "Service" /\ at \notin {"ask", "recovering"}
  BY TaskFrame
<1>5. CASE (MonitorStops(t) \/ MonitorNotices(t)) /\ ~Settling
  <2>1. UNCHANGED ownerGen
    BY <1>5 DEF MonitorStops, MonitorNotices
  <2>2. CASE MonitorStops(t)
    <3>1. tasks' = tasks \ {t} /\ (mode = "Service" => t.gen # ownerGen)
      BY <2>2 DEF MonitorStops, Drop
    <3>. QED BY <1>1, <1>2, <1>4, <1>5, <2>1, <3>1 DEF MonitorsFit, Watches
  <2>3. CASE MonitorNotices(t)
    <3>1. PICK u \in Task : Follows(t, u, "lost") /\ u.gen = t.gen
      BY <2>3, TasksFollow
    <3>2. t.who = Monitor
      BY <2>3 DEF MonitorNotices
    <3>. QED BY <1>1, <1>2, <1>4, <1>5, <2>1, <3>1, <3>2 DEF MonitorsFit, Watches, Follows, Became
  <2>. QED BY <1>5, <2>2, <2>3
<1>6. CASE ReaderHears(t)
  <2>1. UNCHANGED ownerGen /\ t.who # Monitor /\ t.pc = "watching"
    BY <1>6 DEF ReaderHears
  <2>2. Over(t) \/ \E u \in Task : Follows(t, u, "lost") /\ u.gen = t.gen
    BY <1>6, TasksFollow
  <2>. QED BY <1>1, <1>2, <1>3, <1>4, <2>1, <2>2 DEF MonitorsFit, Watches, Follows, Became, Over
<1>7. CASE CheckMode(t)
  <2>1. UNCHANGED ownerGen /\ t.pc = "lost"
    BY <1>7 DEF CheckMode
  <2>2. \/ mode # "Service" /\ Over(t)
        \/ \E u \in Task : Follows(t, u, "claiming") /\ u.gen = t.gen
    BY <1>7, TasksFollow
  <2>. QED BY <1>1, <1>2, <1>3, <1>4, <2>1, <2>2 DEF MonitorsFit, Watches, Follows, Became, Over
<1>8. CASE ClaimRecovery(t)
  <2>1. t.pc = "claiming"
    BY <1>8 DEF ClaimRecovery
  <2>2. CASE ownerGen # t.gen /\ Over(t) /\ UNCHANGED ownerGen
    BY <1>1, <1>2, <1>3, <1>4, <2>1, <2>2 DEF MonitorsFit, Watches, Over
  <2>3. CASE /\ ownerGen = t.gen /\ ownerGen' = t.gen + 1
             /\ \E u \in Task : Follows(t, u, "claimed") /\ u.gen = t.gen + 1 /\ u.why = t.why
    <3>1. ~Settling
      BY <1>3, <2>1, <2>3
    <3>2. PICK u \in Task : Follows(t, u, "claimed") /\ u.gen = ownerGen'
      BY <2>3
    <3>3. \A v \in tasks : v.gen <= ownerGen'
      BY <1>1, <2>3
    <3>4. u.gen <= ownerGen'
      BY <1>1, <2>3, <3>2
    <3>. QED BY <1>2, <3>1, <3>2, <3>3, <3>4 DEF MonitorsFit, Watches, Follows, Became
  <2>. QED BY <1>8, <2>2, <2>3, TasksFollow
<1>9. CASE InvalidateReadiness(t)
  <2>1. UNCHANGED ownerGen /\ t.pc = "claimed"
    BY <1>9 DEF InvalidateReadiness
  <2>2. PICK u \in Task : Follows(t, u, "queued") /\ u.gen = t.gen
    BY <1>9, TasksFollow
  <2>. QED BY <1>1, <1>2, <1>3, <1>4, <2>1, <2>2 DEF MonitorsFit, Watches, Follows, Became
<1>10. CASE EnterRecovery(t)
  <2>1. UNCHANGED <<ownerGen, mode>> /\ t.pc = "queued"
    BY <1>10 DEF EnterRecovery, core
  <2>2. CASE ~StillLost(t) /\ Over(t) /\ UNCHANGED at
    <3>1. mode = "Service" => t.gen # ownerGen
      BY <2>2 DEF StillLost
    <3>. QED BY <1>1, <1>2, <1>3, <1>4, <2>1, <2>2, <3>1 DEF MonitorsFit, Watches, Over
  <2>3. CASE /\ StillLost(t) /\ at' = "recovering"
             /\ \E u \in Task : Follows(t, u, "recovering") /\ u.gen = t.gen /\ u.why = t.why
    BY <1>1, <2>1, <2>3 DEF MonitorsFit, Settling, Follows, Became
  <2>. QED BY <1>10, <2>2, <2>3, TasksFollow
<1>11. CASE Recover(t)
  <2>1. UNCHANGED ownerGen /\ tasks' \subseteq tasks /\ at' = "free" /\ mode' = "NotRunning"
    BY <1>11 DEF Recover, RecoverLocked, CoreStopped, Drop
  <2>. QED BY <2>1 DEF MonitorsFit, Settling
<1>12. MonitorStops(t) \/ MonitorNotices(t) => ~Settling
  BY DEF MonitorStops, MonitorNotices
<1>. QED BY <1>5, <1>6, <1>7, <1>8, <1>9, <1>10, <1>11, <1>12 DEF TaskStep

\* A reader that asks is a task of the newest generation that watches.
LEMMA ReaderArrives ==
    ASSUME TypeOK, NEW r \in scenario.readers, ReaderAsks(r)
    PROVE  \E m \in Task : /\ m.who = r /\ m.gen = ownerGen /\ m.pc = "watching" /\ m.why = "none"
                           /\ tasks' = tasks \cup {m}
<1>. DEFINE m == [who |-> r, gen |-> ownerGen, pc |-> "watching", why |-> "none"]
<1>1. r \in Readers
  BY CoreLifecycleAssumption DEF TypeOK
<1>2. m \in Task
  BY <1>1 DEF TypeOK, Task
<1>3. tasks' = tasks \cup {m}
  BY DEF ReaderAsks
<1>4. m.who = r /\ m.gen = ownerGen /\ m.pc = "watching" /\ m.why = "none"
  OBVIOUS
<1>. HIDE DEF m
<1>. QED BY <1>2, <1>3, <1>4

\* The steps of the environment and of the drains are not about monitors.
LEMMA BystandersOfOwners ==
    ASSUME TypeOK, Next, ~BodyStep, \A t \in tasks : ~TaskStep(t), \A r \in scenario.readers : ~ReaderAsks(r)
    PROVE  /\ UNCHANGED <<ownerGen, session, tasks>>
           /\ UNCHANGED at \/ (at = "free" /\ at' \in {"start", "capture", "prepare", "stop"})
           /\ mode' = mode \/ mode' = "NotRunning"
           /\ UNCHANGED svc \/ ServiceLost
<1>1. CASE \E c \in Callers : Ask(c) \/ Begin(c)
  BY <1>1 DEF Ask, Begin, body, core, owner, service
<1>2. CASE \E d \in drains : DrainStep(d)
  BY <1>2 DEF DrainStep, SidecarTerminated, ClearTerminated, ClearSidecar, CoreStopped, body, core,
              owner, service
<1>3. CASE SidecarDies \/ ServiceLost
  BY <1>3 DEF SidecarDies, ServiceLost, body, core, owner, service
<1>. QED BY <1>1, <1>2, <1>3 DEF Next

LEMMA MonitorsStayFit ==
    ASSUME TypeOK, ModesFit, MonitorsFit, [Next]_vars
    PROVE  MonitorsFit'
<1>1. CASE BodyStep
  BY <1>1, BodyMonitors
<1>2. CASE \E t \in tasks : TaskStep(t)
  BY <1>2, TaskMonitors
<1>3. ASSUME NEW r \in scenario.readers, ReaderAsks(r)
      PROVE  MonitorsFit'
  <2>1. PICK m \in Task : m.gen = ownerGen /\ m.pc = "watching" /\ tasks' = tasks \cup {m}
    BY <1>3, ReaderArrives
  <2>2. mode = "Service" /\ UNCHANGED <<at, mode, ownerGen, session>>
    BY <1>3 DEF ReaderAsks, body, core
  <2>3. ~Settling /\ ownerGen <= ownerGen
    BY <2>2 DEF ModesFit, Settling, Starting, TypeOK
  <2>4. ~Settling'
    BY <2>2, <2>3 DEF Settling
  <2>. QED BY <2>1, <2>2, <2>3, <2>4 DEF MonitorsFit, Watches
<1>4. CASE /\ Next /\ ~BodyStep
           /\ \A t \in tasks : ~TaskStep(t)
           /\ \A r \in scenario.readers : ~ReaderAsks(r)
  <2>1. /\ UNCHANGED <<ownerGen, session, tasks>>
        /\ UNCHANGED at \/ (at = "free" /\ at' \in {"start", "capture", "prepare", "stop"})
        /\ mode' = mode \/ mode' = "NotRunning"
    BY <1>4, BystandersOfOwners
  <2>. QED BY <2>1 DEF MonitorsFit, Settling, Watches
<1>5. CASE UNCHANGED vars
  BY <1>5 DEF MonitorsFit, Settling, Watches, vars, body, core, owner
<1>. QED BY <1>1, <1>2, <1>3, <1>4, <1>5

-----------------------------------------------------------------------------
(* Losses and recoveries *)

\* While nobody recovers no task does, and a body runs only then.
LEMMA NobodyRecovers ==
    ASSUME LossesFit, at # "recovering"
    PROVE  \A t \in tasks : t.pc # "recovering"
BY DEF LossesFit

LEMMA BodyNotRecovering == BodyStep => at # "recovering"
BY DEF BodyStep, StopNothing, HandoffSkipped, StopGuardOnly, ClearBeforeStop, CancelThenAsk,
       ServiceStops, StopRefused, StopFindsDisplaced, KillSidecar, ReapSidecar, ReinstallService,
       UninstallService, AllowSidecar, UnwindSidecar, UnwindStart, StartSkipped, Decide,
       StartAbandoned, PrepareService, ServiceGrants, ServiceStartFails, ServiceNotAsked,
       MarkServiceReady, ServiceStarted, FallBack, FallbackWithheld, AwaitLastSidecar, SpawnFails,
       SpawnSidecar, DrainSidecar, SidecarAnswers, SidecarSilent, SidecarStarted, Settle,
       CaptureExpectation, RefusedUnready, ApplyProxy, CheckApplied, RefreshGuard, CheckGuarded,
       UndoApply

LEMMA BodyLosses ==
    ASSUME TypeOK, ModesFit, MonitorsFit, LossesFit, BodyStep
    PROVE  LossesFit'
<1>1. OwnerTypes /\ \A t \in tasks : t.gen \in Nat /\ t.gen <= ownerGen
  BY TypesAreTypeOK DEF OwnerTypes, Task, MonitorsFit
<1>2. \A t \in tasks : t.gen # ownerGen + 1
  BY <1>1 DEF OwnerTypes
<1>3. \A t \in tasks' : t.pc # "recovering"
  <2>1. \A t \in tasks : t.pc # "recovering"
    BY NobodyRecovers, BodyNotRecovering
  <2>2. CASE SpawnMonitor
    BY <1>1, <2>1, <2>2, MonitorTypes
  <2>. QED BY <2>1, <2>2, BodyTasks
<1>4. ASSUME mode' = "Service"
      PROVE  /\ session' # None
             /\ \A t \in tasks' : t.gen = ownerGen' /\ t.pc # "watching" /\ t.why = "displaced"
                                    => svc'.session # session'
  <2>1. CASE ServiceStarted
    BY <2>1 DEF ServiceStarted, MonitorsFit, Settling, owner
  <2>2. CASE KeepsService /\ UNCHANGED <<ownerGen, tasks>>
    BY <2>2 DEF KeepsService, LossesFit
  <2>3. CASE KeepsService /\ CancelThenAsk
    BY <1>2, <2>3 DEF KeepsService, CancelThenAsk, CancelMonitors, LossesFit
  <2>4. CASE KeepsService /\ StopRefused
    BY <1>1, <1>2, <2>4, MonitorTypes DEF KeepsService, StopRefused, LossesFit
  <2>. QED BY <1>4, <2>1, <2>2, <2>3, <2>4, BodyKeepsService DEF KeepsService
<1>. QED BY <1>3, <1>4 DEF LossesFit

LEMMA TaskLosses ==
    ASSUME TypeOK, MonitorsFit, LossesFit, NEW t \in tasks, TaskStep(t)
    PROVE  LossesFit'
<1>1. CASE EnterRecovery(t)
  <2>1. at = "free" /\ t.pc = "queued" /\ UNCHANGED <<mode, session, svc, ownerGen>>
    BY <1>1 DEF EnterRecovery, core, service
  <2>2. \A v \in tasks : v.pc # "recovering"
    BY <2>1, NobodyRecovers
  <2>3. CASE Over(t)
    BY <2>1, <2>2, <2>3 DEF LossesFit, Over
  <2>4. CASE /\ StillLost(t) /\ at' = "recovering"
             /\ \E u \in Task : Follows(t, u, "recovering") /\ u.gen = t.gen /\ u.why = t.why
    <3>1. PICK u \in Task : Follows(t, u, "recovering") /\ u.gen = t.gen /\ u.why = t.why
      BY <2>4
    <3>2. mode = "Service" /\ t.gen = ownerGen /\ (t.why = "displaced" => svc.session # session)
      BY <2>1, <2>4 DEF LossesFit, StillLost
    <3>. QED BY <2>1, <2>2, <2>4, <3>1, <3>2 DEF LossesFit, Follows, Became
  <2>. QED BY <1>1, <2>3, <2>4, TasksFollow
<1>2. CASE Recover(t)
  <2>1. at' = "free" /\ mode' = "NotRunning" /\ tasks' = tasks \ {t} /\ t.pc = "recovering"
    BY <1>2 DEF Recover, RecoverLocked, CoreStopped, Drop
  <2>2. \A v \in tasks : v.pc = "recovering" => v = t
    BY <2>1 DEF LossesFit
  <2>. QED BY <2>1, <2>2 DEF LossesFit
<1>3. CASE ClaimRecovery(t)
  <2>1. t.pc = "claiming" /\ UNCHANGED <<at, mode, session, svc>>
    BY <1>3 DEF ClaimRecovery, body, core, service
  <2>2. CASE ownerGen # t.gen /\ Over(t) /\ UNCHANGED ownerGen
    BY <2>1, <2>2 DEF LossesFit, Over
  <2>3. CASE /\ ownerGen = t.gen /\ ownerGen' = t.gen + 1
             /\ \E u \in Task : Follows(t, u, "claimed") /\ u.gen = t.gen + 1 /\ u.why = t.why
    <3>1. PICK u \in Task : Follows(t, u, "claimed") /\ u.why = t.why
      BY <2>3
    <3>2. ASSUME mode = "Service", NEW v \in tasks', v.gen = ownerGen', v.why = "displaced"
          PROVE  svc.session # session
      <4>1. v = u
        <5>1. \A w \in tasks : w.gen \in Nat /\ w.gen <= ownerGen /\ ownerGen \in Nat
          BY DEF TypeOK, Task, MonitorsFit
        <5>2. \A w \in tasks : w.gen # ownerGen'
          BY <2>3, <5>1
        <5>. QED BY <3>1, <3>2, <5>2 DEF Follows, Became
      <4>. QED BY <2>1, <2>3, <3>1, <3>2, <4>1 DEF LossesFit
    <3>3. \A v \in tasks' : v.pc = "recovering" => v \in tasks
      BY <3>1 DEF Follows, Became
    <3>. QED BY <2>1, <3>2, <3>3 DEF LossesFit
  <2>. QED BY <1>3, <2>2, <2>3, TasksFollow
<1>4. CASE \/ MonitorStops(t) \/ MonitorNotices(t) \/ ReaderHears(t) \/ CheckMode(t)
           \/ InvalidateReadiness(t)
  <2>1. UNCHANGED <<at, mode, ownerGen, session, svc>>
    BY <1>4 DEF MonitorStops, MonitorNotices, ReaderHears, CheckMode, InvalidateReadiness, body, core, service
  <2>2. \/ Over(t)
        \/ \E u \in Task :
             /\ Became(t, u) /\ u.gen = t.gen /\ u.pc # "recovering"
             /\ mode = "Service" /\ u.gen = ownerGen /\ u.why = "displaced" => svc.session # session
    <3>1. CASE MonitorStops(t)
      BY <3>1 DEF MonitorStops, Drop, Over
    <3>2. CASE MonitorNotices(t)
      BY <3>2, TasksFollow DEF Follows
    <3>3. CASE ReaderHears(t)
      <4>1. mode = "Service" => session # None
        BY DEF LossesFit
      <4>. QED BY <3>3, <4>1, TasksFollow DEF Follows
    <3>4. CASE CheckMode(t) \/ InvalidateReadiness(t)
      <4>1. t.pc # "watching"
        BY <3>4 DEF CheckMode, InvalidateReadiness
      <4>2. mode = "Service" /\ t.gen = ownerGen /\ t.why = "displaced" => svc.session # session
        BY <4>1 DEF LossesFit
      <4>. QED BY <3>4, <4>2, TasksFollow DEF Follows
    <3>. QED BY <1>4, <3>1, <3>2, <3>3, <3>4
  <2>3. CASE Over(t)
    BY <2>1, <2>3 DEF LossesFit, Over
  <2>4. ASSUME NEW u \in Task, Became(t, u), u.gen = t.gen, u.pc # "recovering",
               mode = "Service" /\ u.gen = ownerGen /\ u.why = "displaced" => svc.session # session
        PROVE  LossesFit'
    BY <2>1, <2>4 DEF LossesFit, Became
  <2>. QED BY <2>2, <2>3, <2>4
<1>. QED BY <1>1, <1>2, <1>3, <1>4 DEF TaskStep

LEMMA LossesStayFit ==
    ASSUME TypeOK, ModesFit, MonitorsFit, LossesFit, [Next]_vars
    PROVE  LossesFit'
<1>1. CASE BodyStep
  BY <1>1, BodyLosses
<1>2. CASE \E t \in tasks : TaskStep(t)
  BY <1>2, TaskLosses
<1>3. ASSUME NEW r \in scenario.readers, ReaderAsks(r)
      PROVE  LossesFit'
  <2>1. PICK m \in Task : m.pc = "watching" /\ tasks' = tasks \cup {m}
    BY <1>3, ReaderArrives
  <2>2. UNCHANGED <<at, mode, ownerGen, session, svc>>
    BY <1>3 DEF ReaderAsks, body, core, service
  <2>. QED BY <2>1, <2>2 DEF LossesFit
<1>4. CASE /\ Next /\ ~BodyStep
           /\ \A t \in tasks : ~TaskStep(t)
           /\ \A r \in scenario.readers : ~ReaderAsks(r)
  <2>1. /\ UNCHANGED <<ownerGen, session, tasks>>
        /\ UNCHANGED at \/ at = "free"
        /\ mode' = mode \/ mode' = "NotRunning"
        /\ UNCHANGED svc \/ ServiceLost
    BY <1>4, BystandersOfOwners
  <2>2. mode = "Service" => svc'.session = svc.session \/ svc'.session # session
    <3>1. CASE ServiceLost
      <4>1. svc' = [session |-> None, core |-> FALSE] \/ svc' = [svc EXCEPT !.core = FALSE]
        BY <3>1 DEF ServiceLost
      <4>2. svc'.session = None \/ svc'.session = svc.session
        BY <4>1, TypesAreTypeOK, ServiceWords
      <4>. QED BY <4>2 DEF LossesFit
    <3>. QED BY <2>1, <3>1
  <2>3. (\A t \in tasks : t.pc # "recovering") \/ UNCHANGED <<at, mode>>
    <3>1. CASE at = "recovering"
      BY <1>4, <2>1, <3>1, Others
    <3>. QED BY <3>1, NobodyRecovers
  <2>4. mode' = "Service" => mode = "Service"
    BY <2>1
  <2>5. \A t \in tasks : t.pc = "recovering" /\ t.why = "displaced" => svc'.session # session
    BY <2>2 DEF LossesFit
  <2>. QED BY <2>1, <2>2, <2>3, <2>4, <2>5 DEF LossesFit
<1>5. CASE UNCHANGED vars
  BY <1>5 DEF LossesFit, vars, body, core, owner, service
<1>. QED BY <1>1, <1>2, <1>3, <1>4, <1>5

-----------------------------------------------------------------------------
(* Theorems *)

LEMMA InitFits == Init => IInv
BY DEF Init, IInv, ModesFit, ProxiesFit, ProcessesFit, SidecarsAreHeld, DrainsFit, MonitorsFit, LossesFit,
       Settling, Starting, Applying, Stopping

LEMMA NextFits == Types /\ IInv /\ [Next]_vars => Types' /\ IInv'
BY NextTypes, ModesStayFit, ProxiesStayFit, ProcessesStayFit, DrainsStayFit, MonitorsStayFit, LossesStayFit
   DEF Types, IInv

LEMMA Invariance == Spec => [](Types /\ IInv)
<1>1. Init => Types /\ IInv
  <2>1. Init => HasPid
    BY DEF Init, HasPid
  <2>. QED BY <2>1, InitTypes, InitFits DEF Types
<1>. QED BY <1>1, NextFits, PTL DEF Spec

\* Whatever fails, times out or is lost between any two steps of a body, the words it
\* shares with the monitors, readers and drains keep their types: the typing of
\* CoreManager, State and the words of core/service.rs.
THEOREM TypeCorrect == Spec => []TypeOK
BY Invariance, PTL DEF Types

\* For any callers, readers and scenarios: two Sidecars never live at once; a core that
\* runs, whether as a child (start_core_by_sidecar) or by the Service (start_owner_monitor),
\* always has a task that will learn of its end, and the guard is off where none runs.
THEOREM CoresAreNeverAlone == Spec => []NoCoreLeftAlone
<1>1. Types /\ IInv => NoCoreLeftAlone
  BY DEF Types, IInv, NoCoreLeftAlone, ProcessesFit, ServiceCoreIsWatched, MonitorsFit,
         SidecarIsDrained, DrainsFit, IsDrained, NoGuardWithoutCore, ProxiesFit
<1>. QED BY <1>1, Invariance, PTL

\* controlled_stop_core_with_intent and rollback_failed_sidecar_transition end a core only
\* after the proxy was taken off it, off macOS, however the proxy and the core change
\* between the clear and the end.
THEOREM StopsAlwaysClearTheProxy == Spec => StopsClearTheProxy
<1>1. ASSUME Types, IInv, [Next]_vars, mode # "NotRunning", mode' = "NotRunning",
             at \in {"ask", "reap", "unreap"}, platform # "macos"
      PROVE  ~proxy'
  <2>1. ~proxy
    BY <1>1 DEF IInv, ProxiesFit, Stopping
  <2>2. proxy' = FALSE \/ proxy' = proxy
    <3>1. CASE BodyStep
      BY <1>1, <3>1
      DEF BodyStep, StopNothing, HandoffSkipped, StopGuardOnly, ClearBeforeStop, CancelThenAsk,
          ServiceStops, StopRefused, StopFindsDisplaced, RecoverLocked, KillSidecar, ReapSidecar,
          ReinstallService, UninstallService, AllowSidecar, UnwindSidecar, UnwindStart, StartSkipped,
          Decide, StartAbandoned, PrepareService, ServiceGrants, ServiceStartFails, ServiceNotAsked,
          MarkServiceReady, ServiceStarted, FallBack, FallbackWithheld, AwaitLastSidecar, SpawnFails,
          SpawnSidecar, DrainSidecar, SidecarAnswers, SidecarSilent, SidecarStarted, Settle,
          CaptureExpectation, RefusedUnready, ApplyProxy, CheckApplied, RefreshGuard, CheckGuarded,
          UndoApply, proxies
    <3>2. CASE Next /\ ~BodyStep
      BY <1>1, <3>2, Others DEF Types
    <3>3. CASE UNCHANGED vars
      BY <3>3 DEF vars, proxies
    <3>. QED BY <1>1, <3>1, <3>2, <3>3
  <2>. QED BY <2>1, <2>2
<1>2. Types /\ IInv /\ [Next]_vars =>
        [mode # "NotRunning" /\ mode' = "NotRunning" /\ at \in {"ask", "reap", "unreap"}
           /\ platform # "macos" => ~proxy']_vars
  BY <1>1
<1>. QED BY <1>2, Invariance, PTL DEF Spec, StopsClearTheProxy

\* The drain of an earlier Sidecar that hears of its end late never clears the Sidecar that
\* took its place: pids are compared under the lock (CommandEvent::Terminated).
THEOREM OnlyTheDeadAreCleared == Spec => OnlyDeadSidecarsCleared
<1>1. ASSUME Types, IInv, [Next]_vars, at = "free", mode = "Sidecar", mode' = "NotRunning"
      PROVE  child \notin alive
  <2>1. ~BodyStep /\ ~UNCHANGED vars
    <3>1. ~BodyStep
      BY <1>1 DEF BodyStep, StopNothing, HandoffSkipped, StopGuardOnly, ClearBeforeStop, CancelThenAsk,
          ServiceStops, StopRefused, StopFindsDisplaced, KillSidecar, ReapSidecar, ReinstallService,
          UninstallService, AllowSidecar, UnwindSidecar, UnwindStart, StartSkipped, Decide,
          StartAbandoned, PrepareService, ServiceGrants, ServiceStartFails, ServiceNotAsked,
          MarkServiceReady, ServiceStarted, FallBack, FallbackWithheld, AwaitLastSidecar, SpawnFails,
          SpawnSidecar, DrainSidecar, SidecarAnswers, SidecarSilent, SidecarStarted, Settle,
          CaptureExpectation, RefusedUnready, ApplyProxy, CheckApplied, RefreshGuard, CheckGuarded,
          UndoApply
    <3>. QED BY <1>1, <3>1 DEF vars, core
  <2>2. PICK d \in drains : ClearTerminated(d) /\ ShouldClear(d)
    <3>1. \/ UNCHANGED mode \/ (\E t \in tasks : Recover(t))
          \/ \E d \in drains : ClearTerminated(d) /\ ShouldClear(d)
      BY <1>1, <2>1 DEF Next, Ask, Begin, ReaderAsks, TaskStep, MonitorStops, MonitorNotices, ReaderHears,
             CheckMode, ClaimRecovery, InvalidateReadiness, EnterRecovery, DrainStep,
             SidecarTerminated, ClearTerminated, SidecarDies, ServiceLost, core
    <3>. QED BY <1>1, <3>1 DEF Recover
  <2>. QED BY <1>1, <2>2 DEF ClearTerminated, ShouldClear, IInv, ProcessesFit
<1>2. Types /\ IInv /\ [Next]_vars =>
        [at = "free" /\ mode = "Sidecar" /\ mode' = "NotRunning" => child \notin alive]_vars
  BY <1>1
<1>. QED BY <1>2, Invariance, PTL DEF Spec, OnlyDeadSidecarsCleared

\* recover_after_owner_loss_while_locked, entered for a displaced owner, ends only a
\* session the Service no longer honours: the generation claimed without the lock and read again under it rules out
\* that a core was stopped and started in between.
THEOREM RecoveriesAreForTheLost == Spec => RecoveriesEndLostSessions
<1>1. ASSUME Types, IInv, [Next]_vars, NEW t \in tasks, t.pc = "recovering", t.why = "displaced"
      PROVE  svc.session # session
  BY <1>1 DEF IInv, LossesFit
<1>2. Types /\ IInv /\ [Next]_vars =>
        [\A t \in tasks : t.pc = "recovering" /\ t.why = "displaced" /\ t \notin tasks'
           => svc.session # session]_vars
  BY <1>1
<1>. QED BY <1>2, Invariance, PTL DEF Spec, RecoveriesEndLostSessions

=============================================================================
