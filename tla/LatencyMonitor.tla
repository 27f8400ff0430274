---------------------------- MODULE LatencyMonitor ----------------------------
(***************************************************************************)
(* The task that measures the nodes of the current profile                 *)
(* (core/latency_uptime.rs).  It loads its settings from layers that may   *)
(* hold a draft, sleeps for an interval, and is woken through a channel of *)
(* one place: by a committed patch, by a profile switch and by lightweight *)
(* mode.                                                                   *)
(***************************************************************************)
EXTENDS Integers, FiniteSets

CONSTANTS
    Profiles,
    MaxMonitorChanges,   \* bound: patches, switches and changes of the mode
    MaxMonitorFailures   \* bound: patches and switches that fail, cores that do not answer

Unset == "none"

VARIABLES
    enabled,      \* enable_auto_all_latency_uptime as committed
    stagedEnabled,       \* the value a patch has staged, or None
    current,      \* the current profile as committed
    stagedProfile,       \* the profile a switch has staged, or None
    running,      \* the profile the core runs
    light,        \* lightweight mode
    wake,         \* the channel holds a signal
    pending,      \* changes committed whose refresh() is still to come
    monitor,      \* where its loops are; it sleeps in "outer", "light" and "wait"
    scanning,     \* the profile of the settings the last loop loaded
    nodes,        \* the profile whose nodes the core listed
    store,        \* the counted results: [profile, of, torn]
    monitorChanges, monitorFailures,
    saw,          \* history: the drafts the last load read and nobody has committed
    torn          \* history: a switch went on since the last load

enabling == <<enabled, stagedEnabled>>
switch   == <<current, stagedProfile, running>>
work     == <<monitor, scanning, nodes>>
monitorVars == <<enabling, switch, light, wake, pending, work, store, monitorChanges, monitorFailures, saw, torn>>

MonitorInit ==
    /\ enabled \in BOOLEAN /\ stagedEnabled = Unset
    /\ current \in Profiles /\ stagedProfile = Unset /\ running = current
    /\ light \in BOOLEAN
    /\ wake = TRUE /\ pending = 0          \* init() refreshes
    /\ monitor = "outer" /\ scanning = Unset /\ nodes = Unset
    /\ store = {} /\ monitorChanges = 0 /\ monitorFailures = 0
    /\ saw = {} /\ torn = FALSE

\* latest_arc: the draft, where there is one.
WantedOn == IF stagedEnabled = Unset THEN enabled ELSE stagedEnabled = "on"
Scope  == IF stagedProfile = Unset THEN current ELSE stagedProfile

-----------------------------------------------------------------------------
(* Those who change what the monitor depends on *)

SettingChanges == monitorChanges < MaxMonitorChanges /\ monitorChanges' = monitorChanges + 1
ChangeFails  == monitorFailures < MaxMonitorFailures /\ monitorFailures' = monitorFailures + 1

\* mutant: a change of the settings does not wake the monitor
NoRefresh == UNCHANGED wake

\* try_send: a full channel already holds a wake.
refresh == wake' = TRUE

StageEnabling ==
    /\ stagedEnabled = Unset /\ SettingChanges
    /\ stagedEnabled' = IF enabled THEN "off" ELSE "on"
    /\ UNCHANGED <<enabled, switch, light, wake, pending, work, store, monitorFailures>>

EndEnabling ==
    /\ stagedEnabled # Unset /\ stagedEnabled' = Unset
    /\ \/ enabled' = (stagedEnabled = "on") /\ pending' = pending + 1 /\ UNCHANGED monitorFailures
       \/ ChangeFails /\ UNCHANGED <<enabled, pending>>
    /\ UNCHANGED <<switch, light, wake, work, store, monitorChanges>>

StageSwitch ==
    /\ stagedProfile = Unset /\ SettingChanges
    /\ stagedProfile' \in Profiles \ {current}
    /\ UNCHANGED <<enabling, current, running, light, wake, pending, work, store, monitorFailures>>

Reload ==
    /\ stagedProfile # Unset /\ running # stagedProfile /\ running' = stagedProfile
    /\ UNCHANGED <<enabling, current, stagedProfile, light, wake, pending, work, store, monitorChanges, monitorFailures>>

\* handle_success commits once the core runs the target; else the draft is dropped.
EndSwitch ==
    /\ stagedProfile # Unset /\ stagedProfile' = Unset
    /\ \/ running = stagedProfile /\ current' = stagedProfile /\ pending' = pending + 1 /\ UNCHANGED monitorFailures
       \/ running # stagedProfile /\ ChangeFails /\ UNCHANGED <<current, pending>>
    /\ UNCHANGED <<enabling, running, light, wake, work, store, monitorChanges>>

ChangeMode ==
    /\ SettingChanges /\ light' = ~light /\ pending' = pending + 1
    /\ UNCHANGED <<enabling, switch, wake, work, store, monitorFailures>>

\* After a commit, other awaits come first.
Refresh ==
    /\ pending > 0 /\ pending' = pending - 1 /\ refresh
    /\ UNCHANGED <<enabling, switch, light, work, store, monitorChanges, monitorFailures>>

-----------------------------------------------------------------------------
(* LatencyUptimeMonitor::run *)

Step(next) == monitor' = next /\ UNCHANGED <<enabling, switch, light, pending, monitorChanges, monitorFailures>>

(* The settings are loaded, and what was counted is forgotten when they are off.
   `outer` is the receive of the outer loop. *)
Receive ==
    /\ monitor = "outer" /\ wake /\ wake' = FALSE
    /\ Step("announced") /\ UNCHANGED <<scanning, nodes, store>>

\* mutant: what was counted is kept
Keep == UNCHANGED store

clear == store' = {}

\* mutant: the loop goes on with the settings it began with
KeepScope == scanning' = IF scanning = Unset THEN Scope ELSE scanning

MonitorSettings == scanning' = Scope

Load(at, on) ==
    /\ monitor = at
    /\ \/ WantedOn /\ Step(on) /\ MonitorSettings /\ UNCHANGED store
       \/ ~WantedOn /\ Step("outer") /\ clear /\ UNCHANGED scanning
    /\ UNCHANGED <<wake, nodes>>

CheckMode ==
    /\ monitor = "loaded" /\ Step(IF light THEN "light" ELSE "scan")
    /\ UNCHANGED <<wake, scanning, nodes, store>>

\* LIGHTWEIGHT_POLL_INTERVAL, or a signal.
Poll ==
    /\ monitor = "light" /\ Step("inner") /\ wake' = FALSE
    /\ UNCHANGED <<scanning, nodes, store>>

\* get_proxies and get_proxy_providers; a core that does not answer ends the scan.
Discover ==
    /\ monitor = "scan"
    /\ \/ Step("measure") /\ nodes' = running
       \/ Step("wait") /\ UNCHANGED nodes
    /\ UNCHANGED <<wake, scanning, store>>

\* Node by node, and the batch is applied under the profile loaded before.
Measure ==
    /\ monitor = "measure" /\ Step("wait")
    /\ store' = store \cup {[profile |-> scanning, of |-> nodes, torn |-> torn]}
    /\ UNCHANGED <<wake, scanning, nodes>>

\* The interval, or a signal.
WakeUp ==
    /\ monitor = "wait" /\ Step("inner") /\ wake' = FALSE
    /\ UNCHANGED <<scanning, nodes, store>>

run ==
    \/ Receive \/ Load("announced", "inner") \/ Load("inner", "loaded") \/ CheckMode
    \/ Poll \/ Discover \/ Measure \/ WakeUp

MonitorStep ==
    \/ StageEnabling \/ EndEnabling \/ StageSwitch \/ Reload \/ EndSwitch \/ ChangeMode \/ Refresh \/ run

Drafts == {d \in {"patch", "switch"} : IF d = "patch" THEN stagedEnabled # Unset ELSE stagedProfile # Unset}
Loads  == monitor \in {"announced", "inner"} /\ monitor' # monitor
CommitsDraft(d) == IF d = "patch" THEN enabled' # enabled ELSE current' # current

MonitorNext ==
    /\ MonitorStep
    /\ saw' = IF Loads THEN Drafts ELSE {d \in saw : ~CommitsDraft(d)}
    /\ torn' = (stagedProfile' # Unset \/ (torn /\ ~Loads))

-----------------------------------------------------------------------------
(* Properties *)

MonitorTypeOK ==
    /\ enabled \in BOOLEAN /\ stagedEnabled \in {Unset, "on", "off"}
    /\ current \in Profiles /\ stagedProfile \in Profiles \cup {Unset} /\ scanning \in Profiles \cup {Unset}
    /\ monitor \in {"outer", "announced", "inner", "loaded", "light", "scan", "measure", "wait"}
    /\ store \subseteq [profile : Profiles, of : Profiles, torn : BOOLEAN]

MonitorQuiet == stagedEnabled = Unset /\ stagedProfile = Unset /\ pending = 0 /\ ~wake /\ saw = {}

(* No wake is lost: a monitor asleep has stopped, with nothing left to show, only
   when it is switched off, and measures the current profile when it is on.  A
   draft it loaded and nobody committed misleads it until it is next woken. *)
SleepsAsConfigured ==
    MonitorQuiet => /\ monitor = "outer" => ~enabled /\ store = {}
                    /\ monitor \in {"wait", "light"} => enabled /\ scanning = current

\* A profile's results are of its own nodes, unless it was being switched meanwhile.
ResultsOfTheirProfile == \A r \in store : r.torn \/ r.profile = r.of

MonitorFollowsSettings == MonitorTypeOK /\ SleepsAsConfigured /\ ResultsOfTheirProfile

=============================================================================
