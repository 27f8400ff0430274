------------------------------ MODULE ProxyGuard ------------------------------
(***************************************************************************)
(* The system proxy and those who write it                                 *)
(* (src-tauri/src/core/proxy_control.rs, core/sysopt.rs).                  *)
(*                                                                         *)
(* Applies, clears and guard refreshes run under lifecycle_lock, one job   *)
(* at a time: a job is the sequence `calls` of what it still has to do,    *)
(* and `step` is the place inside its first call.  Beside them a guard     *)
(* keeps rewriting the setting: a local one (the GuardMonitor of the       *)
(* sysproxy crate) or, on macOS with a core of the Service, a task that    *)
(* asks the Service.  Service guards are told apart by the generation      *)
(* they captured; operation_lock keeps a request of theirs and a final     *)
(* write apart.  A local guard is drained before a write, but a drain may  *)
(* time out and a write that was stuck then lands late.                    *)
(*                                                                         *)
(* A setting is "off", one of Targets, or "foreign", set by somebody else  *)
(* or left by a write that failed halfway.  Sysopt's own locks are not     *)
(* modelled: lifecycle_lock already keeps its callers apart.               *)
(***************************************************************************)
EXTENDS Naturals, Sequences, FiniteSets

CONSTANTS
    Targets,                \* the proxies and PAC addresses a user may want
    Wanted,                 \* bound: the settings users choose
    FailuresBeforeStopping, \* GUARD_FAILURES_BEFORE_STOPPING
    IsMacOS,                \* cfg!(target_os = "macos")
    MaxJobs                 \* bound: jobs and patches that begin

ASSUME ProxyGuardAssumption ==
    /\ FailuresBeforeStopping \in Nat \ {0}
    /\ IsMacOS \in BOOLEAN /\ MaxJobs \in Nat
    /\ {"off", "foreign", "none"} \cap Targets = {}
    /\ Wanted \subseteq [proxy : Targets \cup {"off"}, guard : BOOLEAN]

NoSession == 0
NoTarget  == "none"
Wishes    == [proxy : Targets \cup {"off"}, guard : BOOLEAN]
Calls     == {"apply", "refresh", "clear", "try clear", "stop guard", "stop core", "halt"}
Steps     == {"begin", "drain", "lock", "request", "write", "guard", "drain again", "write again"}
Guards    == [gen : Nat, proof : Nat, target : Targets,
              pc : {"sleeping", "requesting", "reporting"}, failures : Nat]

VARIABLES
    verge, before,   \* enable_system_proxy and enable_proxy_guard as latest_arc
                     \* shows them; the committed ones
    patch,           \* the patch that changes them, while it runs
    mode, session,   \* Running Mode; ACTIVE_SERVICE_SESSION
    calls, step,     \* what the holder of lifecycle_lock has still to do
    checked, drained, wasRunning, \* its locals, reset once
                     \* dead: the job checks the core's readiness; the drain
                     \* ended; a local guard ran before
    gen, lock,       \* guard_generation; operation_lock
    guards, local,   \* the Service guards; the local one
    notice,          \* a pending GuardStopped failure
    os, asked,       \* the system setting; what the app brought it to
    loose,           \* the last write did not wait for a guard that hung
    svc, jobs        \* the session the Service honours; jobs begun

holder == <<calls, step, checked, drained, wasRunning>>
config == <<verge, before, patch>>
core   == <<mode, session, svc>>
setting == <<os, asked, loose>>
vars == <<config, core, holder, gen, lock, guards, local, notice, setting, jobs>>

Init ==
    /\ verge \in Wanted /\ before = verge /\ patch = "idle"
    /\ mode = "NotRunning" /\ session = NoSession /\ svc = NoSession
    /\ calls = <<>> /\ step = "begin"
    /\ checked = FALSE /\ drained = TRUE /\ wasRunning = FALSE
    /\ gen = 0 /\ lock = "free" /\ guards = {}
    /\ local = [runs |-> FALSE, stopping |-> FALSE, target |-> NoTarget, writing |-> NoTarget]
    /\ notice = FALSE
    /\ os = "off" /\ asked = "off" /\ loose = FALSE /\ jobs = 0

-----------------------------------------------------------------------------
(* Helpers *)

(* proxy_backend_route *)
Route == IF IsMacOS /\ mode = "Service" THEN "Service" ELSE "Local"

AtRest == calls = <<>>
Calling(c, s) == calls # <<>> /\ Head(calls) = c /\ step = s

Goto(s) == step' = s /\ UNCHANGED <<calls, checked, patch>>

(* The job ends; a patch hears how. *)
EndJob(ok) ==
    /\ calls' = <<>> /\ step' = "begin" /\ checked' = FALSE
    /\ patch' = IF patch # "applying" THEN patch ELSE IF ok THEN "applied" ELSE "failed"

(* The first call is over.  apply_proxy_after_start checks the core after an
   apply and after a refresh, and undoes both when it was lost meanwhile. *)
Return ==
    \/ IF Len(calls) = 1 THEN EndJob(TRUE)
       ELSE calls' = Tail(calls) /\ step' = "begin" /\ UNCHANGED <<checked, patch>>
    \/ /\ checked /\ Head(calls) \in {"apply", "refresh"}
       /\ calls' = <<"try clear", "stop guard">> /\ step' = "begin" /\ checked' = FALSE
       /\ patch' = IF patch = "applying" THEN "failed" ELSE patch

Fail == IF Head(calls) = "try clear" THEN Return ELSE EndJob(FALSE)

\* mutant: the old guards stay current
KeepGeneration == UNCHANGED gen

InvalidateGuard == gen' = gen + 1

(* The GuardMonitor counts as stopped once it was shut down, though its last
   write may not have finished. *)
Running == local.runs /\ ~local.stopping

(* GuardMonitor::shutdown: a guard between two writes ends at once. *)
ShutDown == [local EXCEPT !.stopping = local.runs, !.runs = local.runs /\ local.writing # NoTarget]

(* GuardMonitor::start refuses while a previous run has not finished. *)
Started == IF local.runs THEN local ELSE [local EXCEPT !.runs = TRUE, !.stopping = FALSE]

Pointed(t) == [local EXCEPT !.target = t]

\* mutant: a guard is wanted although the proxy is off
GuardRegardless == verge.guard

GuardWanted == verge.guard /\ verge.proxy # "off"

Wrote(t) == os' = t /\ asked' = t /\ loose' = ~drained

-----------------------------------------------------------------------------
(* Drains and operation_lock *)

(* apply and clear of the local route, and an apply through the Service, shut
   the local guard down first; the others queue for operation_lock first. *)
DrainsFirst ==
    \/ Head(calls) = "apply"
    \/ Head(calls) \in {"clear", "try clear"} /\ Route = "Local"

BeginDrain ==
    /\ ~AtRest /\ step = "begin" /\ Head(calls) \notin {"stop core", "halt"} /\ DrainsFirst
    /\ wasRunning' = (Running /\ Calling("apply", "begin")) /\ local' = ShutDown
    /\ Goto("drain")
    /\ UNCHANGED <<verge, before, core, drained, gen, lock, guards, notice, setting, jobs>>

BeginQueue ==
    /\ ~AtRest /\ step = "begin" /\ Head(calls) \notin {"stop core", "halt"} /\ ~DrainsFirst
    /\ InvalidateGuard
    /\ Goto("lock")
    /\ UNCHANGED <<verge, before, core, drained, wasRunning, lock, guards, local, notice, setting, jobs>>

(* cancel_and_drain keeps the lock until the local guard is drained;
   run_final_service_operation keeps it until the Service has answered. *)
Lock ==
    /\ ~AtRest /\ step = "lock" /\ lock = "free"
    /\ lock' = "job"
    /\ IF Head(calls) \in {"refresh", "stop guard"}
       THEN local' = ShutDown /\ Goto("drain")
       ELSE UNCHANGED local /\ Goto("request")
    /\ UNCHANGED <<verge, before, core, drained, wasRunning, gen, guards, notice, setting, jobs>>

\* mutant: a drain that times out keeps operation_lock
KeepLockOnTimeout == lock' = IF local.runs THEN lock ELSE "free"

Unlock == lock' = "free"

(* The wait is over: the guard is idle, or its write hangs. *)
Drain ==
    /\ ~AtRest /\ step = "drain"
    /\ drained' = ~local.runs /\ UNCHANGED wasRunning
    /\ CASE Head(calls) = "stop guard" -> Unlock /\ Return /\ UNCHANGED gen
         [] Head(calls) = "refresh"    -> Unlock /\ Goto("guard") /\ UNCHANGED gen
         [] Head(calls) = "apply" /\ Route = "Service" ->
              InvalidateGuard /\ Goto("lock") /\ UNCHANGED lock
         [] OTHER                      -> Goto("write") /\ UNCHANGED <<gen, lock>>
    /\ UNCHANGED <<verge, before, core, guards, local, notice, setting, jobs>>

-----------------------------------------------------------------------------
(* Writes *)

(* What the call asks the system for. *)
Asks == IF Head(calls) = "apply" THEN verge.proxy ELSE "off"

(* set_system_proxy_by_service, a final operation.  A fallback to a direct
   connection is what a disable wants and a failure for the rest. *)
Request ==
    /\ ~AtRest /\ step = "request" /\ lock' = "free"
    /\ \/ session = svc /\ Wrote(Asks) /\ Return
       \/ session = svc /\ Wrote("off") /\ Asks # "off" /\ Fail
       \/ UNCHANGED setting /\ Fail
    /\ UNCHANGED <<verge, before, core, drained, wasRunning, gen, guards, local, notice, jobs>>

(* update_sysproxy reads the setting first where it can, and points the guard
   at a target only after the system took it. *)
Apply ==
    /\ Calling("apply", "write")
    /\ \/ IsMacOS /\ drained /\ os = verge.proxy
       \/ TRUE
    /\ Wrote(verge.proxy)
    /\ local' = Pointed(IF GuardWanted THEN verge.proxy ELSE NoTarget)
    /\ Return /\ wasRunning' = FALSE
    /\ UNCHANGED <<verge, before, core, drained, gen, lock, guards, notice, jobs>>

\* mutant: the guard that is started again has the new target
PointedEarly == IF wasRunning THEN [Started EXCEPT !.target = verge.proxy] ELSE local

(* recover_guard_after_failure, nothing written: an old guard goes on. *)
Restored == IF wasRunning THEN Started ELSE local

ApplyFails ==
    /\ Calling("apply", "write")
    /\ \/ UNCHANGED setting /\ local' = Restored
       \* a partial write: force the proxy off, which may fail too
       \/ /\ os' \in {"off", "foreign"} /\ asked' = "off" /\ loose' = ~drained
          /\ local' = Pointed(NoTarget)
    /\ Fail /\ wasRunning' = FALSE
    /\ UNCHANGED <<verge, before, core, drained, gen, lock, guards, notice, jobs>>

(* reset_sysproxy: after a guard that hung the proxy is turned off again. *)
Clear ==
    /\ Calling("clear", "write") \/ Calling("try clear", "write")
    /\ \/ Wrote("off") /\ IF drained THEN Return ELSE Goto("drain again")
       \/ os' \in {os, "foreign"} /\ UNCHANGED <<asked, loose>> /\ Fail
    /\ UNCHANGED <<verge, before, core, drained, wasRunning, gen, lock, guards, local, notice, jobs>>

DrainAgain ==
    /\ ~AtRest /\ step = "drain again"
    /\ drained' = ~local.runs /\ UNCHANGED wasRunning
    /\ Goto("write again")
    /\ UNCHANGED <<verge, before, core, gen, lock, guards, local, notice, setting, jobs>>

ClearAgain ==
    /\ ~AtRest /\ step = "write again"
    /\ \/ Wrote("off") /\ Return
       \/ os' \in {os, "foreign"} /\ UNCHANGED <<asked, loose>> /\ Fail
    /\ UNCHANGED <<verge, before, core, drained, wasRunning, gen, lock, guards, local, notice, jobs>>

(* refresh_guard, once the old guards are gone. *)
RefreshLocal ==
    /\ Calling("refresh", "guard") /\ Route = "Local"
    /\ local' = IF GuardWanted THEN Started ELSE ShutDown
    /\ notice' = (notice /\ GuardWanted /\ local.stopping)
    /\ Return
    /\ UNCHANGED <<verge, before, core, drained, wasRunning, gen, lock, guards, setting, jobs>>

NewGuard == [gen |-> gen, proof |-> session, target |-> verge.proxy,
             pc |-> "sleeping", failures |-> 0]

RefreshService ==
    /\ Calling("refresh", "guard") /\ Route = "Service"
    /\ guards' = IF GuardWanted THEN guards \cup {NewGuard} ELSE guards
    /\ notice' = FALSE
    /\ Return
    /\ UNCHANGED <<verge, before, core, drained, wasRunning, gen, lock, local, setting, jobs>>

(* The core stops: the Service's own stop also clears what it had set. *)
StopCore ==
    /\ Calling("stop core", "begin")
    /\ \/ /\ mode = "Service" /\ session = svc /\ svc' = NoSession
          /\ IF IsMacOS THEN Wrote("off") ELSE UNCHANGED setting
       \/ mode = "Sidecar" /\ UNCHANGED <<svc, setting>>
    /\ mode' = "NotRunning" /\ session' = NoSession
    /\ Return
    /\ UNCHANGED <<verge, before, drained, wasRunning, gen, lock, guards, local, notice, jobs>>

StopRefused ==
    /\ Calling("stop core", "begin")
    /\ EndJob(FALSE)
    /\ UNCHANGED <<verge, before, core, drained, wasRunning, gen, lock, guards, local, notice, setting, jobs>>

Halt ==
    /\ Calling("halt", "begin")
    /\ mode' = "NotRunning" /\ session' = NoSession /\ UNCHANGED svc
    /\ Return
    /\ UNCHANGED <<verge, before, drained, wasRunning, gen, lock, guards, local, notice, setting, jobs>>

HolderStep ==
    \/ BeginDrain \/ BeginQueue \/ Lock \/ Drain \/ Request
    \/ Apply \/ ApplyFails \/ Clear \/ DrainAgain \/ ClearAgain
    \/ RefreshLocal \/ RefreshService \/ StopCore \/ StopRefused \/ Halt

-----------------------------------------------------------------------------
(* Jobs under lifecycle_lock *)

Job(cs, check) ==
    /\ AtRest /\ jobs < MaxJobs /\ jobs' = jobs + 1
    /\ calls' = cs /\ step' = "begin" /\ checked' = check
    /\ UNCHANGED <<verge, before, drained, wasRunning, gen, lock, guards, local, notice, setting>>

(* A core came up, or did not (rollback_failed_start).  Starts and network
   changes hold the claim or the lock that keeps patches out. *)
CoreUp ==
    /\ mode = "NotRunning" /\ patch = "idle"
    /\ \/ mode' = "Service" /\ session' = jobs + 1 /\ svc' = jobs + 1
       \/ mode' = "Sidecar" /\ UNCHANGED <<session, svc>>
    /\ Job(<<"apply", "refresh">>, TRUE) /\ UNCHANGED patch

StartFailed ==
    /\ mode = "NotRunning" /\ patch = "idle"
    /\ Job(<<"stop guard">>, FALSE) /\ UNCHANGED <<core, patch>>

(* network_watch::reapply *)
NetworkChanged ==
    /\ IsMacOS /\ mode # "NotRunning" /\ patch = "idle" /\ verge.proxy # "off"
    /\ Job(<<"apply", "refresh">>, TRUE) /\ UNCHANGED <<core, patch>>

(* controlled_stop_core_with_intent; the last is a hand-over to the Service. *)
Stop ==
    /\ \/ mode # "NotRunning" /\ Route = "Local" /\ Job(<<"clear", "stop core">>, FALSE)
       \/ Route = "Service" /\ Job(<<"stop guard", "stop core">>, FALSE)
       \/ /\ IsMacOS /\ mode = "Sidecar" /\ patch = "idle"
          /\ Job(<<"stop guard", "stop core">>, FALSE)
    /\ UNCHANGED <<core, patch>>

(* recover_after_owner_loss_while_locked; a macOS setting that may belong to
   another owner is left alone. *)
OwnerLost ==
    /\ mode = "Service"
    /\ \/ Job(<<"stop guard", "try clear", "halt">>, FALSE)
       \/ IsMacOS /\ Job(<<"stop guard", "halt">>, FALSE)
    /\ UNCHANGED <<core, patch>>

\* mutant: the guard is left to find out by itself
SidecarJustEnded ==
    /\ mode = "Sidecar"
    /\ Job(<<"halt">>, FALSE) /\ UNCHANGED <<core, patch>>

(* clear_terminated_sidecar *)
SidecarEnded ==
    /\ mode = "Sidecar"
    /\ Job(<<"stop guard", "halt">>, FALSE) /\ UNCHANGED <<core, patch>>

(* Effect::SystemProxy of a patch: staged, applied under the lifecycle lock,
   committed or rolled back after its other effects.  A job that reads the
   configuration excludes patches, so that one begins at rest. *)
StagePatch ==
    /\ patch = "idle" /\ AtRest /\ jobs < MaxJobs /\ jobs' = jobs + 1
    /\ verge' \in Wanted \ {verge} /\ patch' = "staged"
    /\ UNCHANGED <<before, core, holder, gen, lock, guards, local, notice, setting>>

ApplyPatch ==
    /\ patch = "staged" /\ AtRest
    /\ calls' = <<"apply", "refresh">> /\ step' = "begin" /\ checked' = (verge.proxy # "off")
    /\ verge.proxy # "off" => mode # "NotRunning"
    /\ patch' = "applying"
    /\ UNCHANGED <<verge, before, core, drained, wasRunning, gen, lock, guards, local, notice, setting, jobs>>

RefusePatch ==
    /\ patch = "staged" /\ AtRest /\ verge.proxy # "off" /\ mode = "NotRunning"
    /\ patch' = "failed"
    /\ UNCHANGED <<verge, before, core, holder, gen, lock, guards, local, notice, setting, jobs>>

CommitPatch ==
    /\ patch = "applied" /\ patch' = "idle"
    /\ before' = verge /\ UNCHANGED verge
    /\ UNCHANGED <<core, holder, gen, lock, guards, local, notice, setting, jobs>>

RollBackPatch ==
    /\ patch \in {"applied", "failed"} /\ patch' = "idle"
    /\ verge' = before /\ UNCHANGED before
    /\ UNCHANGED <<core, holder, gen, lock, guards, local, notice, setting, jobs>>

-----------------------------------------------------------------------------
(* Guards *)

BesideHolder == UNCHANGED <<config, core, holder, gen, asked, loose, jobs>>

\* mutant: the generation is not looked at again under the lock
CurrentSession(g) == mode = "Service" /\ session = g.proof

(* run_guard_request checks under the lock; old guards end here. *)
Current(g) == g.gen = gen /\ mode = "Service" /\ session = g.proof

GuardAsks(g) ==
    /\ g.pc = "sleeping" /\ lock = "free"
    /\ IF Current(g)
       THEN lock' = "guard" /\ guards' = (guards \ {g}) \cup {[g EXCEPT !.pc = "requesting"]}
       ELSE UNCHANGED lock /\ guards' = guards \ {g}
    /\ UNCHANGED <<local, notice, os>> /\ BesideHolder

GuardWrites(g) ==
    /\ g.pc = "requesting" /\ lock' = "free"
    /\ g.proof = svc /\ os' = g.target
    /\ guards' = (guards \ {g}) \cup {[g EXCEPT !.pc = "sleeping", !.failures = 0]}
    /\ UNCHANGED <<local, notice>> /\ BesideHolder

\* mutant: after its last failure a guard ends without a word
GiveUp(g) == IF g.failures + 1 < FailuresBeforeStopping
             THEN {[g EXCEPT !.pc = "sleeping", !.failures = @ + 1]} ELSE {}

AfterFailure(g) ==
    {[g EXCEPT !.failures = @ + 1,
               !.pc = IF g.failures + 1 < FailuresBeforeStopping THEN "sleeping" ELSE "reporting"]}

GuardFails(g) ==
    /\ g.pc = "requesting" /\ lock' = "free"
    /\ UNCHANGED os \/ (g.proof = svc /\ os' = "off")
    /\ guards' = (guards \ {g}) \cup AfterFailure(g)
    /\ UNCHANGED <<local, notice>> /\ BesideHolder

\* mutant: a replaced guard reports as well
ReportAnyway(g) ==
    /\ g.pc = "reporting" /\ lock = "free"
    /\ notice' = TRUE /\ guards' = guards \ {g}
    /\ UNCHANGED <<lock, local, os>> /\ BesideHolder

(* report_guard_stopped *)
GuardReports(g) ==
    /\ g.pc = "reporting" /\ lock = "free"
    /\ notice' = (notice \/ g.gen = gen) /\ guards' = guards \ {g}
    /\ UNCHANGED <<lock, local, os>> /\ BesideHolder

(* The loop of the sysproxy crate's GuardMonitor. *)
LocalBegins ==
    /\ Running /\ local.writing = NoTarget /\ local.target # NoTarget
    /\ local' = [local EXCEPT !.writing = local.target]
    /\ UNCHANGED <<lock, guards, notice, os>> /\ BesideHolder

LocalWrites ==
    /\ local.writing # NoTarget /\ os' = local.writing
    /\ local' = [local EXCEPT !.writing = NoTarget, !.runs = ~local.stopping, !.stopping = FALSE]
    /\ UNCHANGED <<lock, guards, notice>> /\ BesideHolder

GuardStep(g) == GuardAsks(g) \/ GuardWrites(g) \/ GuardFails(g) \/ GuardReports(g)
LocalStep == LocalBegins \/ LocalWrites

(* The environment: the setting is changed by somebody else; the Service stops
   honouring the session. *)
SomebodyElse ==
    /\ os' = "foreign"
    /\ UNCHANGED <<lock, local, guards, notice>> /\ BesideHolder

ServiceLost ==
    /\ svc # NoSession /\ svc' = NoSession /\ os' \in {os, "foreign"}
    /\ UNCHANGED <<config, mode, session, holder, gen, lock, guards, local, notice, asked, loose, jobs>>

Next ==
    \/ HolderStep
    \/ CoreUp \/ StartFailed \/ NetworkChanged \/ Stop \/ OwnerLost \/ SidecarEnded
    \/ StagePatch \/ ApplyPatch \/ RefusePatch \/ CommitPatch \/ RollBackPatch
    \/ \E g \in guards : GuardStep(g)
    \/ LocalStep
    \/ SomebodyElse \/ ServiceLost

Spec == Init /\ [][Next]_vars

(* Every await of a job ends with an answer or a timeout; a guard's timer fires
   and its request is answered; the task of a staged patch goes on. *)
Fairness ==
    /\ WF_vars(HolderStep) /\ WF_vars(LocalStep)
    /\ WF_vars(\E g \in guards : GuardStep(g))

FairSpec == Spec /\ Fairness

-----------------------------------------------------------------------------
(* Properties *)

(* The types of the words, calls and guards. *)
TypeOK ==
    /\ verge \in Wishes /\ before \in Wishes
    /\ patch \in {"idle", "staged", "applying", "applied", "failed"}
    /\ mode \in {"NotRunning", "Service", "Sidecar"} /\ session \in Nat /\ svc \in Nat
    /\ calls \in Seq(Calls) /\ step \in Steps
    /\ checked \in BOOLEAN /\ drained \in BOOLEAN /\ wasRunning \in BOOLEAN
    /\ gen \in Nat /\ lock \in {"free", "job", "guard"} /\ guards \subseteq Guards
    /\ local \in [runs : BOOLEAN, stopping : BOOLEAN,
                  target : Targets \cup {NoTarget}, writing : Targets \cup {NoTarget}]
    /\ notice \in BOOLEAN /\ jobs \in Nat
    /\ os \in Targets \cup {"off", "foreign"} /\ asked \in Targets \cup {"off"}
    /\ loose \in BOOLEAN

(* Once a job is over no guard brings back a proxy that it replaced or turned
   off, unless the job itself wrote beside a guard that hung. *)
NoStaleTarget == AtRest /\ ~loose /\ os \in Targets => os = asked

(* The guards that would write again. *)
ServiceGuards == {g \in guards : Current(g) /\ g.pc # "reporting"}
LocalGuards   == IF Running /\ local.target # NoTarget THEN {local} ELSE {}
Enforcers     == ServiceGuards \cup LocalGuards

(* The local guard and the Service's never enforce side by side, and neither
   do two generations of the latter. *)
OneEnforcer == Cardinality(Enforcers) <= 1

(* A guard enforces what the app last brought the setting to, never a target
   that failed to reach the system. *)
EnforcersAgree == AtRest => \A g \in Enforcers : g.target = asked

(* No guard is left enforcing for a core that is gone. *)
NoEnforcerWithoutCore == AtRest /\ mode = "NotRunning" => Enforcers = {}

(* "Do not publish a late failure from a replaced guard": while the failure is
   pending no guard of the Service is at work. *)
NoticeMeansStopped == notice /\ AtRest => ServiceGuards = {}

(* At most one guard enforces, it enforces what was asked for a core that runs,
   and none does behind a notice that says it stopped. *)
GuardsAgree ==
    TypeOK /\ OneEnforcer /\ EnforcersAgree /\ NoEnforcerWithoutCore /\ NoticeMeansStopped

(* A setting that somebody else changed is brought back, or its guard says
   that it stopped, or a job takes over. *)
GuardsRestore ==
    (AtRest /\ Enforcers # {} /\ os = "foreign") ~> (~AtRest \/ notice \/ os # "foreign")

(* Every job ends, whatever guards hold operation_lock. *)
JobsFinish == ~AtRest ~> AtRest

=============================================================================
