----------------------------- MODULE CoreUpgrade -----------------------------
(***************************************************************************)
(* The in-app upgrade of the core (feat/core_upgrade.rs): a package is     *)
(* downloaded, unpacked and run beside the managed core, renamed over it,  *)
(* handed to the Service when the Service runs the core, and put back when *)
(* the restart fails.                                                      *)
(*                                                                         *)
(* A file is the version it holds.  The Service never runs the managed     *)
(* file but the copy an administrator approved.  Meanwhile the core may    *)
(* die or be restarted, the Service may be reinstalled, and the            *)
(* application may be killed between any two operations on files.          *)
(***************************************************************************)
EXTENDS Integers, FiniteSets

CONSTANTS
    Upgrades,      \* calls of upgrade_core
    Platforms,     \* of "unix", "windows"
    MaxRelease,    \* bound: the releases are 1 .. MaxRelease
    MaxUpgradeFailures,   \* bound: operations that fail of themselves
    MaxAccidents   \* bound: kills, deaths of the core and what other tasks do to it

Missing == 0
Broken  == -1      \* what an interrupted in-place upgrade leaves
Files   == {Missing, Broken} \cup 1 .. MaxRelease

UpgradePhases == {"idle", "resolve", "download", "link", "publish", "swap", "stage", "restart",
           "recover", "restage", "again", "clean", "upgraded", "current", "failed"}

VARIABLES
    platform,
    upgrade,       \* each call: where it is and what it has found out
    upgradeLock,   \* the call that holds UPGRADE_LOCK, or Missing
    target, rollback, displaced,  \* the managed core, `.rollback`, `.old`
    approved,      \* the copy the Service may run
    coreMode, runs,    \* the running mode and the version that runs
    release,       \* the release on offer
    apart,         \* history: why managed core and approved copy differ
    upgradeFailures, accidents

files == <<target, rollback, displaced>>
core  == <<coreMode, runs>>
outside == <<platform, release>>
upgradeCounts == <<upgradeFailures, accidents>>
upgradeVars == <<outside, upgrade, upgradeLock, files, approved, core, apart, upgradeCounts>>

UpgradeJob == [phase      : UpgradePhases,
        force      : BOOLEAN,
        installed  : Files,      \* what the managed core said, Missing if it said nothing
        wanted     : 0 .. MaxRelease,
        staged     : Files,      \* its staging file
        restorable : BOOLEAN,
        service    : BOOLEAN,    \* service_mode
        staging    : {"NotAttempted", "Succeeded", "Refused"},
        ran        : Files]      \* the version the restart started

FreshUpgrade == [phase |-> "idle", force |-> FALSE, installed |-> Missing, wanted |-> 0, staged |-> Missing,
          restorable |-> FALSE, service |-> FALSE, staging |-> "NotAttempted", ran |-> Missing]

UpgradeInit ==
    /\ platform \in Platforms
    /\ upgrade = [u \in Upgrades |-> FreshUpgrade] /\ upgradeLock = Missing
    /\ target \in {Broken, 1} /\ rollback = Missing /\ displaced = Missing
    /\ approved = 1
    /\ coreMode \in {"NotRunning", "Service", "Sidecar"}
    /\ coreMode = "Sidecar" => target # Broken
    /\ runs = IF coreMode = "NotRunning" THEN Missing ELSE 1
    /\ release = 1
    /\ apart = IF target = approved THEN {} ELSE {"broken"}
    /\ upgradeFailures = 0 /\ accidents = 0

Succeeds == UNCHANGED upgradeFailures
FailsAlone == upgradeFailures < MaxUpgradeFailures /\ upgradeFailures' = upgradeFailures + 1

Doing(u, phase) == upgrade[u].phase = phase
Become(u, job) == upgrade' = [upgrade EXCEPT ![u] = job]
StepsTo(u, phase) == Become(u, [upgrade[u] EXCEPT !.phase = phase])
Staying == UNCHANGED <<outside, accidents>>

\* The call returns and gives the lock back.
Ends(u, phase) ==
    /\ Become(u, [upgrade[u] EXCEPT !.phase = phase, !.staged = Missing])
    /\ upgradeLock' = Missing

Readable(file) == file > 0

-----------------------------------------------------------------------------
(* upgrade_core *)

\* mutant: nothing keeps two upgrades apart
Overlapping(u) == upgradeLock' = upgradeLock

Serialized(u) == upgradeLock = Missing /\ upgradeLock' = u

(* A core that an interrupted upgrade broke reports no version. *)
StartUpgrade(u) ==
    /\ Doing(u, "idle") /\ Serialized(u)
    /\ \E force \in BOOLEAN :
                Become(u, [upgrade[u] EXCEPT !.phase = "resolve", !.force = force,
                                             !.installed = IF Readable(target) THEN target ELSE Missing])
    /\ UNCHANGED <<files, approved, core, apart, upgradeFailures>> /\ Staying

\* resolve_latest_version: three proxies in turn; none may reach the release.
Resolve(u) ==
    /\ Doing(u, "resolve")
    /\ IF ~upgrade[u].force /\ upgrade[u].installed = release
       THEN Ends(u, "current") /\ Succeeds
       ELSE \/ Become(u, [upgrade[u] EXCEPT !.phase = "download", !.wanted = release])
               /\ Succeeds /\ UNCHANGED upgradeLock
            \/ Ends(u, "failed") /\ FailsAlone
    /\ UNCHANGED <<files, approved, core, apart>> /\ Staying

\* download_package, stage_core: a staged core that cannot say it is the version
\* that was asked for is dropped.
StageCore(u) ==
    /\ Doing(u, "download")
    /\ \/ Become(u, [upgrade[u] EXCEPT !.phase = "link", !.staged = upgrade[u].wanted]) /\ Succeeds /\ UNCHANGED upgradeLock
       \/ Ends(u, "failed") /\ FailsAlone
    /\ UNCHANGED <<files, approved, core, apart>> /\ Staying

\* The hard link that keeps the core being replaced.
LinkRollback(u) ==
    /\ Doing(u, "link")
    /\ \E restorable \in BOOLEAN :
         /\ CASE restorable -> upgrade[u].installed # Missing /\ target # Missing /\ Succeeds
              [] upgrade[u].installed = Missing \/ target = Missing -> ~restorable /\ Succeeds
              [] OTHER -> FailsAlone
         /\ rollback' = IF restorable THEN target ELSE Missing
         /\ Become(u, [upgrade[u] EXCEPT !.phase = "publish", !.restorable = restorable, !.service = (coreMode = "Service")])
    /\ UNCHANGED <<upgradeLock, target, displaced, approved, core, apart>> /\ Staying

\* "A running executable cannot be replaced on Windows, but it can be moved aside."
InTheWay == platform = "windows" /\ coreMode = "Sidecar" /\ runs = target

Published(u) ==
    /\ target' = upgrade[u].staged
    /\ Become(u, [upgrade[u] EXCEPT !.phase = "stage", !.staged = Missing])

NotPublished(u) == Become(u, [upgrade[u] EXCEPT !.phase = "recover", !.staged = Missing])

\* StagedCore::publish: one rename; on Windows a second try moves the core aside,
\* over what an earlier upgrade moved there.
Publish(u) ==
    /\ Doing(u, "publish")
    /\ \/ ~InTheWay /\ Succeeds /\ Published(u) /\ UNCHANGED displaced
       \/ platform = "unix" /\ FailsAlone /\ NotPublished(u) /\ UNCHANGED <<target, displaced>>
       \/ /\ platform = "windows"
          /\ IF InTheWay THEN Succeeds ELSE FailsAlone
          /\ displaced' = target /\ target' = Missing
          /\ IF target = Missing THEN NotPublished(u) ELSE StepsTo(u, "swap")
       \/ \* it cannot be moved either
          /\ InTheWay /\ FailsAlone /\ NotPublished(u)
          /\ displaced' = Missing /\ UNCHANGED target
    /\ UNCHANGED <<upgradeLock, rollback, approved, core, apart>> /\ Staying

\* The displaced core may still execute, so it is not deleted.
Swap(u) ==
    /\ Doing(u, "swap")
    /\ \/ Succeeds /\ Published(u) /\ UNCHANGED displaced
       \/ Succeeds /\ Published(u) /\ coreMode # "Sidecar" /\ displaced' = Missing
       \/ /\ FailsAlone /\ NotPublished(u)
          /\ target' = displaced /\ displaced' = Missing
       \/ \* nor can it be put back
          /\ upgradeFailures + 1 < MaxUpgradeFailures /\ upgradeFailures' = upgradeFailures + 2 /\ NotPublished(u)
          /\ UNCHANGED <<target, displaced>>
    /\ UNCHANGED <<upgradeLock, rollback, approved, core, apart>> /\ Staying

\* mutant: the service keeps the core that failed
KeepApproved == UNCHANGED <<approved, apart>>

\* stage_approved_core: an administrator hands the managed core over, or refuses.
Approve == approved' = target /\ apart' = {}

HandOver(u) ==
    /\ Doing(u, "stage")
    /\ IF upgrade[u].service
       THEN \/ Approve /\ Succeeds
               /\ Become(u, [upgrade[u] EXCEPT !.phase = "restart", !.staging = "Succeeded"])
            \/ UNCHANGED <<approved, apart>> /\ FailsAlone
               /\ Become(u, [upgrade[u] EXCEPT !.phase = "recover", !.staging = "Refused"])
       ELSE /\ StepsTo(u, "restart") /\ Succeeds
            /\ apart' = apart \cup (IF target # approved THEN {"sidecar"} ELSE {}) /\ UNCHANGED approved
    /\ UNCHANGED <<upgradeLock, files, core>> /\ Staying

-----------------------------------------------------------------------------
(* restart_core, modelled in CoreLifecycle *)

CanRun(m) == m = "Service" \/ Readable(target)
Version(m) == IF m = "Service" THEN approved ELSE target

Started(m) == CanRun(m) /\ coreMode' = m /\ runs' = Version(m)
Stopped == coreMode' = "NotRunning" /\ runs' = Missing

Restart(u) ==
    /\ Doing(u, "restart")
    /\ \/ \E m \in {"Service", "Sidecar"} :
            /\ Started(m) /\ Succeeds
            /\ Become(u, [upgrade[u] EXCEPT !.phase = "clean", !.ran = runs'])
       \/ \* not stopped, or started with the proxy not restored
          /\ FailsAlone /\ StepsTo(u, "recover")
          /\ \/ UNCHANGED core
             \/ \E m \in {"Service", "Sidecar"} : Started(m)
       \/ \* the new core does not come up
          /\ FailsAlone /\ StepsTo(u, "recover") /\ Stopped
    /\ UNCHANGED <<upgradeLock, files, approved, apart>> /\ Staying

\* mutant: a core that runs is left alone, whatever runs it
RestoreIfDown(u) == upgrade[u].restorable /\ (coreMode = "NotRunning" \/ target = Missing)

PutsBack(u) ==
    /\ upgrade[u].restorable
    /\ upgrade[u].staging = "Refused" \/ coreMode = "NotRunning" \/ target = Missing

(* The previous core goes back; the service copy follows when it had taken the
   new one, and a core that was down is started again. *)
Recover(u) ==
    /\ Doing(u, "recover")
    /\ \/ /\ PutsBack(u) /\ Succeeds
          /\ target' = rollback /\ rollback' = IF target = rollback THEN rollback ELSE Missing
          /\ UNCHANGED apart
          /\ Become(u, [upgrade[u] EXCEPT
                !.phase = IF upgrade[u].staging = "Succeeded" THEN "restage"
                          ELSE IF coreMode = "NotRunning" THEN "again" ELSE "clean",
                !.ran = Missing])
       \/ /\ IF PutsBack(u) THEN FailsAlone ELSE Succeeds
          /\ Become(u, [upgrade[u] EXCEPT !.phase = "clean", !.ran = Missing])
          /\ apart' = apart \cup (IF PutsBack(u) \/ ~upgrade[u].restorable THEN {"unrestored"} ELSE {})
          /\ UNCHANGED <<target, rollback>>
    /\ UNCHANGED <<upgradeLock, displaced, approved, core>> /\ Staying

Restage(u) ==
    /\ Doing(u, "restage")
    /\ \/ Approve /\ Succeeds
       \/ UNCHANGED approved /\ apart' = apart \cup {"unstaged"} /\ FailsAlone
    /\ StepsTo(u, "again")
    /\ UNCHANGED <<upgradeLock, files, core>> /\ Staying

StartAgain(u) ==
    /\ Doing(u, "again")
    /\ \/ \E m \in {"Service", "Sidecar"} : Started(m)
       \/ UNCHANGED core
    /\ StepsTo(u, "clean") /\ Succeeds
    /\ UNCHANGED <<upgradeLock, files, approved, apart>> /\ Staying

(* Without a rollback link the displaced core is the only copy left. *)
CleanUp(u) ==
    /\ Doing(u, "clean")
    /\ rollback' = Missing
    /\ displaced' = IF upgrade[u].ran # Missing \/ upgrade[u].restorable THEN Missing ELSE displaced
    /\ Ends(u, IF upgrade[u].ran # Missing THEN "upgraded" ELSE "failed")
    /\ apart' = IF target = approved THEN {} ELSE apart
    /\ UNCHANGED <<target, approved, core, upgradeFailures>> /\ Staying

UpgradeStep(u) ==
    \/ StartUpgrade(u) \/ Resolve(u) \/ StageCore(u) \/ LinkRollback(u) \/ Publish(u) \/ Swap(u) \/ HandOver(u)
    \/ Restart(u) \/ Recover(u) \/ Restage(u) \/ StartAgain(u) \/ CleanUp(u)

-----------------------------------------------------------------------------
(* Everybody else *)

Accident == accidents < MaxAccidents /\ accidents' = accidents + 1

NewRelease ==
    /\ release < MaxRelease /\ release' = release + 1
    /\ UNCHANGED <<platform, upgrade, upgradeLock, files, approved, core, apart, upgradeCounts>>

CoreDies ==
    /\ Accident /\ coreMode # "NotRunning" /\ Stopped
    /\ UNCHANGED <<outside, upgrade, upgradeLock, files, approved, apart, upgradeFailures>>

\* A lifecycle command of another task, in either mode.
OthersStart ==
    /\ Accident /\ coreMode = "NotRunning"
    /\ \E m \in {"Service", "Sidecar"} : Started(m)
    /\ UNCHANGED <<outside, upgrade, upgradeLock, files, approved, apart, upgradeFailures>>

\* install_service, reinstall_service: approves the cores beside the application.
ServiceInstalled ==
    /\ Accident /\ Readable(target)
    /\ approved' = target
    /\ apart' = IF upgradeLock = Missing THEN {} ELSE apart \cup {"installed"}
    /\ UNCHANGED <<outside, upgrade, upgradeLock, files, core, upgradeFailures>>

\* The application is killed: its files stay as they are, a Sidecar goes with it.
Killed ==
    /\ Accident
    /\ upgrade' = [u \in Upgrades |-> IF Doing(u, "idle") THEN FreshUpgrade ELSE [FreshUpgrade EXCEPT !.phase = "failed"]]
    /\ upgradeLock' = Missing
    /\ IF coreMode = "Sidecar" THEN Stopped ELSE UNCHANGED core
    /\ apart' = apart \cup (IF upgradeLock # Missing THEN {"killed"} ELSE {})
    /\ UNCHANGED <<outside, files, approved, upgradeFailures>>

Outside == NewRelease \/ CoreDies \/ OthersStart \/ ServiceInstalled \/ Killed

UpgradeNext == (\E u \in Upgrades : UpgradeStep(u)) \/ Outside

-----------------------------------------------------------------------------
(* Properties *)

UpgradeTypeOK ==
    /\ upgrade \in [Upgrades -> UpgradeJob] /\ upgradeLock \in Upgrades \cup {Missing}
    /\ target \in Files /\ rollback \in Files /\ displaced \in Files /\ approved \in 1 .. MaxRelease
    /\ coreMode \in {"NotRunning", "Service", "Sidecar"} /\ runs \in Files

(* "one atomic rename": whenever the application is killed, there is a core; on
   Windows it may have been moved aside, but never without a copy. *)
ACoreIsThere ==
    target = Missing =>
        /\ platform = "windows"
        /\ (upgradeFailures = 0 \/ (upgradeFailures < 3 /\ accidents = 0)) => displaced # Missing

(* "leaving the new file would make a retry read the new version and report
   nothing to do while the service keeps running the old core": between upgrades
   the managed core and the approved copy agree.  Apart from an upgrade made in
   Sidecar mode, a previous core that could not be kept, put back or approved
   again, and a kill. *)
CopiesAgree == upgradeLock = Missing /\ apart = {} => target = approved

(* A call that reports an upgrade has started the version it reports, unless the
   Service took over a core that was a Sidecar when the call looked. *)
ReportsAreTrue ==
    \A u \in Upgrades :
        Doing(u, "upgraded") /\ upgrade[u].ran # upgrade[u].wanted => ~upgrade[u].service

UpgradesKeepACore ==
    UpgradeTypeOK /\ ACoreIsThere /\ CopiesAgree /\ ReportsAreTrue

=============================================================================
