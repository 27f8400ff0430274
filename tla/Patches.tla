-------------------------------- MODULE Patches --------------------------------
(***************************************************************************)
(* The settings of the application and the configuration made of them:     *)
(* patches of the verge and clash settings with their effects and their    *)
(* rollback (src-tauri/src/feat/executor.rs), saving the proxy ports       *)
(* (feat/listener.rs), the mode (feat/clash.rs), the DNS override          *)
(* (feat/dns.rs, config/dns.rs), and a start that borrows another port for *)
(* the session when the chosen one is taken (config/port.rs).              *)
(*                                                                         *)
(* Three layers hold the settings and the generated configuration, each    *)
(* with a draft; three files keep them.  CONFIG_WRITE_LOCK lets one        *)
(* operation at a time edit the layers, config_update_in_progress one at a *)
(* time bring a configuration to the core.  A change of mode takes         *)
(* neither.                                                                *)
(*                                                                         *)
(* How a configuration is made is Enhance's, how the core is stopped and   *)
(* started CoreLifecycle's, how it takes one ConfigUpdate's: here an       *)
(* attempt ends in one of four ways.  The profile is the current one; its  *)
(* file changes under the operations.                                      *)
(***************************************************************************)
EXTENDS Enhance, FiniteSets

CONSTANTS
    None,
    Profiles,      \* the texts the file of the current profile may have
    Text,          \* what they say, with the items of the profile
    Global,        \* the global merge and script
    Page,          \* the fields the DNS page sets
    Clashes,       \* the clash settings that may come about
    DefaultClash, DefaultVerge, \* the settings of a first start
    PatchSet,      \* the patches the user may ask for: a layer and the fields set
    PortChoices,   \* what the user may save as ports: the mixed port, whether socks is on
    Modes,
    MinPort, MaxPort, \* MIN_FALLBACK_PORT and u16::MAX
    MaxWork,       \* bound: commands of the user
    MaxFaults,     \* bound: steps that fail of themselves
    MaxTaken,      \* bound: ports other programs take
    MaxEnds        \* bound: crashes and quits

Ports == 1 .. MaxPort
MaxRetries == 3   \* MAX_PORT_FALLBACK_RETRIES

\* The settings of IVerge that decide what the core runs.
VergeFields == {"mixed", "socks", "tun", "dns", "confirmed", "controller", "sysproxy"}

\* patch_config: what a patch does not name stays.
Patched(value, set) == Over(set, value)

Confirmations == {Absent} \cup {DnsOverrideSource(Text[p]) : p \in Profiles}
Verges == [mixed : Ports, socks : BOOLEAN, tun : BOOLEAN, dns : BOOLEAN, confirmed : Confirmations,
           controller : BOOLEAN, sysproxy : BOOLEAN]

\* What Config::generate may be asked for, and the mode a core was told since.
Runs == [profile : Profiles \cup {None}, clash : Clashes, verge : Verges, fallback : {0} \cup Ports,
         fails : BOOLEAN, mode : Modes \cup {None}]

(* The template of the clash settings has every control key and a port for each
   listener (IClashTemp::template).  Ports are saved by save_proxy_ports and the
   DNS override by set_dns_override: a patch names neither. *)
ASSUME ClashesAssumption ==
    /\ DefaultClash \in Clashes
    /\ \A c \in Clashes :
         /\ ControlKeys \subseteq DOMAIN c /\ c["allow-lan"] \in BOOLEAN
         /\ c["mixed-port"] \in Ports /\ c["socks-port"] \in Ports
         /\ \A patch \in PatchSet : patch.layer = "clash" => Patched(c, patch.set) \in Clashes
         /\ \A choice \in PortChoices : Patched(c, Single("mixed-port", choice.port)) \in Clashes
         /\ \A m \in Modes : Patched(c, Single("mode", m)) \in Clashes

ASSUME PatchesAssumption ==
    /\ MinPort \in Ports /\ MaxPort \in Nat /\ Absent \notin Ports
    /\ {MaxWork, MaxFaults, MaxTaken, MaxEnds} \subseteq Nat
    /\ DefaultVerge \in Verges /\ DefaultVerge.mixed = DefaultClash["mixed-port"]
    /\ None \notin {"patch", "ports", "dns"} /\ None \notin Profiles /\ None \notin Modes /\ None \notin Clashes /\ None \notin Verges /\ None \notin Runs
    /\ PortChoices \subseteq [port : Ports, socks : BOOLEAN]
    /\ \A patch \in PatchSet :
         \/ /\ patch.layer = "verge"
            /\ DOMAIN patch.set \subseteq {"socks", "tun", "controller", "sysproxy"}
            /\ \A field \in DOMAIN patch.set : patch.set[field] \in BOOLEAN
         \/ patch.layer = "clash" /\ DOMAIN patch.set \cap {"mixed-port", "socks-port"} = {}

\* A profile is a mapping; the DNS page holds settings of the DNS.
ASSUME TextAssumption ==
    /\ \A p \in Profiles :
         {"fields", "proxies", "groups", "providers", "tunnels"} \subseteq DOMAIN Text[p].config
    /\ DOMAIN Page \cap (ControlKeys \cup {"tun.enable", "bind-address"}) = {}
    /\ \A path \in DOMAIN Page : Page[path] # Absent

VARIABLES
    clash, verge, runtime, \* the layers: [data, draft]
    files,     \* config.yaml, verge.yaml and the run file
    profile,   \* the text of the current profile's file
    fallback,  \* SESSION_FALLBACK
    core,      \* the configuration the core runs, None when it is stopped
    left,      \* the one a core of the last session still runs at the Service
    pac,       \* whether the PAC route answers
    proxy,     \* the port the system proxy names, 0 when it is off
    taken,     \* the ports other programs listen on
    updating,  \* config_update_in_progress
    op,        \* the operation that holds CONFIG_WRITE_LOCK
    reload,    \* how far an update without that lock is: "no", "claimed", "staged"
    mode,      \* the mode the core took and the settings do not know yet
    syncs,     \* whether a sync_dns_override waits to run
    phase,     \* where the application stands
    retries,   \* the retries of the start
    work, faults, ends, \* what is left of the bounds
    drift      \* history: what keeps files, settings and core apart

layers == <<clash, verge, runtime>>
serving == <<core, left, pac, proxy>>
world == <<profile, taken>>
start == <<phase, retries, ends>>
vars == <<layers, files, fallback, serving, world, updating, op, reload, mode, syncs, start, work, faults,
          drift>>

\* Draft
Layer(value) == [data |-> value, draft |-> None]
Latest(layer) == IF layer.draft = None THEN layer.data ELSE layer.draft
Stage(layer, value) == [layer EXCEPT !.draft = value]
Commit(layer) == Layer(Latest(layer))
Discard(layer) == Layer(layer.data)

CommitAll  == verge' = Commit(verge) /\ clash' = Commit(clash) /\ runtime' = Commit(runtime)
DiscardAll == verge' = Discard(verge) /\ clash' = Discard(clash) /\ runtime' = Discard(runtime)

Free == [kind |-> None]
At(kind, at) == op.kind = kind /\ op.at = at
Goto(at) == op' = [op EXCEPT !.at = at]

\* MixedPort::desired
Desired == IF fallback # 0 THEN fallback ELSE Latest(verge).mixed

-----------------------------------------------------------------------------
(* Config::generate.  A configuration is kept as what it was made from; what
   comes of that is Enhance's. *)

Candidate(c, v, borrowed, fails) ==
    [profile |-> profile, clash |-> c, verge |-> v, fallback |-> borrowed, fails |-> fails, mode |-> None]

Now(fails) == Candidate(Latest(clash), Latest(verge), fallback, fails)
StageNow == \E fails \in BOOLEAN : runtime' = Stage(runtime, Now(fails))

\* use_default_config
Minimal == [Now(FALSE) EXCEPT !.profile = None, !.fallback = 0]

ConfigOf(run) ==
    LET clashOnly == [fields |-> run.clash, proxies |-> {}, groups |-> << >>, providers |-> {}, tunnels |-> {}]
        made == IF run.profile = None THEN clashOnly
                ELSE Generated(Text[run.profile], Global, run.clash, run.verge, Page, run.fallback, run.fails).config
    IN IF run.mode = None THEN made ELSE Overlay(made, Single("mode", run.mode))

\* What the core listens on; OwnedFieldsHold says that its configuration says so.
PortOf(run) == IF run.fallback # 0 THEN run.fallback ELSE run.clash["mixed-port"]
SocksOf(run) == IF run.verge.socks \/ run.profile = None THEN {run.clash["socks-port"]} ELSE {}

\* The dns_override of the runtime, None before one is generated.
DnsOf(run) ==
    IF run = None THEN None
    ELSE IF run.profile = None THEN None
    ELSE DnsOverrideState(Text[run.profile], run.verge)

-----------------------------------------------------------------------------
(* The core takes a configuration *)

\* A step may fail of itself while the bound lasts.
Fails(n) == n <= faults /\ faults' = faults - n

ClaimedPorts(run) ==
    IF run = None THEN {} ELSE {PortOf(run)} \cup SocksOf(run)

\* Ports this application cannot bind: of other programs, or of a core left behind.
Busy == taken \cup ClaimedPorts(left)

\* apply_proxy_after_start
ProxyAfterStart == IF Latest(verge).sysproxy THEN Desired ELSE 0

(* A restart takes the system proxy off, replaces the core and puts the proxy
   back.  The core serves what it was given ("ok"), serves it but the proxy
   could not be put back ("late"), is lost ("dead") or was not even stopped
   ("kept"). *)
Restarts(next, outcome) ==
    LET free == PortOf(next) \notin taken IN
    /\ outcome \in {"ok", "late"} => free
    /\ Fails(IF outcome = "ok" \/ (outcome = "dead" /\ ~free) THEN 0 ELSE 1)
    /\ left' = IF outcome = "kept" THEN left ELSE None
    /\ \/ outcome \in {"ok", "late"} /\ core' = next /\ pac' = TRUE
          /\ proxy' = IF outcome = "ok" THEN ProxyAfterStart ELSE 0
       \/ outcome = "dead" /\ core' = None /\ pac' = FALSE /\ proxy' = 0
       \/ outcome = "kept" /\ core # None /\ UNCHANGED <<core, pac, proxy>>

(* A reload is first validated ("refused"); a core that does not take it in
   place is restarted. *)
Reloads(next, outcome) ==
    \/ outcome = "ok" /\ core # None /\ PortOf(next) \notin taken /\ core' = next
       /\ UNCHANGED <<left, pac, proxy, faults>>
    \/ outcome = "refused" /\ Fails(1) /\ UNCHANGED serving
    \/ Restarts(next, outcome)

Taken == {"ok", "late"}
Outcomes == Taken \cup {"dead", "kept", "refused"}

\* Mutant: an attempt that failed in the end leaves no runtime behind.
RetainedAfterAll(outcome) == IF outcome = "ok" THEN Commit(runtime) ELSE runtime

(* retain_applied_runtime: the runtime is committed as soon as a core runs it,
   whatever fails after. *)
Retained(outcome) == IF outcome \in Taken THEN Commit(runtime) ELSE runtime

\* The run file is written once the configuration is valid, before the core.
RunFile(outcome) ==
    IF outcome \in {"refused", "kept"} THEN files ELSE [files EXCEPT !.runtime = Latest(runtime)]

-----------------------------------------------------------------------------
(* feat/effects.rs, feat/executor.rs *)

\* "Variant order defines execution dependency order."
Order == [RestartCore |-> 1, ClashConfig |-> 2, SystemProxy |-> 3, Tray |-> 4]

VergeEffects(fields) ==
    (IF {"mixed", "socks", "controller"} \cap fields # {} THEN {"RestartCore"} ELSE {})
        \cup (IF "tun" \in fields THEN {"ClashConfig", "Tray"} ELSE {})
        \cup (IF "sysproxy" \in fields THEN {"SystemProxy", "Tray"} ELSE {})

\* A restart supersedes the rest; so does a change of allow-lan.
ClashEffects(fields) ==
    IF "external-controller" \in fields THEN {"RestartCore"}
    ELSE IF "allow-lan" \in fields THEN {"ClashConfig"}
    ELSE {"ClashConfig"} \cup (IF "mode" \in fields THEN {"Tray"} ELSE {})

Effects(patch) ==
    IF patch.layer = "verge" THEN VergeEffects(DOMAIN patch.set) ELSE ClashEffects(DOMAIN patch.set)

\* Both claims are taken, the files remembered and the patch staged.
Begin(patch) ==
    /\ phase = "up" /\ op = Free /\ ~updating
    /\ updating' = TRUE
    /\ op' = [kind |-> "patch", at |-> "effect", patch |-> patch, todo |-> Effects(patch),
              files |-> files, ran |-> runtime.data]
    /\ IF patch.layer = "verge"
         THEN verge' = Stage(verge, Patched(verge.data, patch.set)) /\ UNCHANGED clash
         ELSE clash' = Stage(clash, Patched(clash.data, patch.set)) /\ UNCHANGED verge
    /\ UNCHANGED <<runtime, files, fallback, serving, world, reload, mode, syncs, start, drift>>

StartPatch(patch) == work > 0 /\ work' = work - 1 /\ Begin(patch) /\ UNCHANGED faults

\* reconcile_tun_availability: TUN goes off when the Service it needs is gone.
DisableTun ==
    /\ verge.data.tun /\ core # None
    /\ Fails(1)
    /\ Begin([layer |-> "verge", set |-> [tun |-> FALSE]])
    /\ UNCHANGED work

Effect ==
    IF op.todo = {} THEN "none"
    ELSE CHOOSE e \in op.todo : \A f \in op.todo : Order[e] <= Order[f]

\* ensure_restart and update_config_in_patch
GenerateForPatch ==
    /\ At("patch", "effect") /\ Effect \in {"RestartCore", "ClashConfig"}
    /\ StageNow
    /\ Goto("apply")
    /\ UNCHANGED <<clash, verge, files, fallback, serving, world, updating, reload, mode, syncs, start, work,
                   faults, drift>>

Proceed(ok) == op' = IF ok THEN [op EXCEPT !.at = "effect", !.todo = @ \ {Effect}] ELSE [op EXCEPT !.at = "fail"]

ApplyForPatch ==
    /\ At("patch", "apply")
    /\ \E o \in Outcomes :
         /\ IF Effect = "RestartCore" THEN Restarts(Latest(runtime), o) ELSE Reloads(Latest(runtime), o)
         /\ runtime' = Retained(o) /\ files' = RunFile(o)
         /\ Proceed(o = "ok")
    /\ UNCHANGED <<clash, verge, fallback, world, updating, reload, mode, syncs, start, work, drift>>

\* A proxy can only be switched on while a core is there for it.
ProxyForPatch ==
    /\ At("patch", "effect") /\ Effect = "SystemProxy"
    /\ \/ /\ Latest(verge).sysproxy => core # None
          /\ proxy' = ProxyAfterStart /\ Proceed(TRUE) /\ UNCHANGED faults
       \/ /\ IF Latest(verge).sysproxy /\ core = None THEN UNCHANGED faults ELSE Fails(1)
          /\ Proceed(FALSE) /\ UNCHANGED proxy
    /\ UNCHANGED <<layers, files, fallback, core, left, pac, world, updating, reload, mode, syncs, start, work, drift>>

\* A tray that fails rejects a verge patch only.
TrayForPatch ==
    /\ At("patch", "effect") /\ Effect = "Tray"
    /\ \/ Proceed(TRUE) /\ UNCHANGED faults
       \/ op.patch.layer = "verge" /\ Fails(1) /\ Proceed(FALSE)
    /\ UNCHANGED <<layers, files, fallback, serving, world, updating, reload, mode, syncs, start, work, drift>>

SavePatch ==
    /\ At("patch", "effect") /\ Effect = "none"
    /\ \/ /\ files' = IF op.patch.layer = "verge" THEN [files EXCEPT !.verge = Latest(verge)]
                      ELSE [files EXCEPT !.clash = Latest(clash)]
          /\ Goto("commit") /\ UNCHANGED faults
       \/ Fails(1) /\ Goto("fail") /\ UNCHANGED files
    /\ UNCHANGED <<layers, fallback, serving, world, updating, reload, mode, syncs, start, work, drift>>

\* Mutant: the flag stays with the patch that is over.
ReleaseLock == op' = Free /\ syncs' = TRUE /\ UNCHANGED updating

\* The flag is released, and the DNS override synchronised later, on every exit.
Release == op' = Free /\ updating' = FALSE /\ syncs' = TRUE

CommitPatch ==
    /\ At("patch", "commit")
    /\ CommitAll
    /\ Release
    /\ drift' = IF runtime.data # op.ran THEN drift \ {"ahead"} ELSE drift
    /\ UNCHANGED <<files, fallback, serving, world, reload, mode, start, work, faults>>

\* Mutant: the files keep what the rejected patch wrote.
RestoreNothing(snapshot) == files' = files /\ UNCHANGED faults

(* The files go back to what they were, except the run file of a runtime the
   core has loaded.  A file that cannot be written keeps what it has. *)
RestoreFiles(snapshot) ==
    LET loaded == runtime.data # op.ran
        back == IF loaded THEN [snapshot EXCEPT !.runtime = files.runtime] ELSE snapshot
    IN \/ files' = back /\ UNCHANGED faults
       \/ Fails(1) /\ \E lost \in {"clash", "verge"} : files' = [back EXCEPT ![lost] = files[lost]]

RollbackPatch ==
    /\ At("patch", "fail")
    /\ DiscardAll
    /\ RestoreFiles(op.files)
    /\ Release
    /\ drift' = drift \cup (IF runtime.data # op.ran THEN {"ahead"} ELSE {})
                      \cup (IF faults' # faults THEN {"unsaved"} ELSE {})
    /\ UNCHANGED <<fallback, serving, world, reload, mode, start, work>>

-----------------------------------------------------------------------------
(* feat/listener.rs: save_proxy_ports *)

(* PAC closes while the staged ports are not served, and the port borrowed for
   the session is given up for the one the user picked. *)
StartPorts(port, socks) ==
    /\ phase = "up" /\ op = Free /\ ~updating /\ work > 0
    /\ runtime.data # None
    /\ work' = work - 1
    /\ updating' = TRUE
    /\ clash' = Stage(clash, Patched(clash.data, Single("mixed-port", port)))
    /\ verge' = Stage(verge, [verge.data EXCEPT !.mixed = port, !.socks = socks])
    /\ pac' = FALSE
    /\ fallback' = 0
    /\ op' = [kind |-> "ports", at |-> "probe", files |-> files, ran |-> runtime.data,
              borrowed |-> fallback, running |-> core # None]
    /\ UNCHANGED <<runtime, files, core, left, proxy, world, reload, mode, syncs, start, faults, drift>>

\* probe_proxy_port_change: the sockets of the running core are about to be free.
Conflicts(current, next, running) ==
    \/ PortOf(next) \in SocksOf(next)
    \/ ClaimedPorts(next) \cap (Busy \ (IF running THEN ClaimedPorts(current) ELSE {})) # {}

\* The candidate is probed and validated, then written.
ProbePorts ==
    /\ At("ports", "probe")
    /\ \E fails \in BOOLEAN :
         LET next == Now(fails) IN
         /\ runtime' = Stage(runtime, next)
         /\ IF Conflicts(runtime.data, next, op.running)
              THEN Goto("return") /\ UNCHANGED <<files, faults>>
              ELSE \/ files' = [files EXCEPT !.runtime = next] /\ Goto("restart") /\ UNCHANGED faults
                   \/ Fails(1) /\ Goto("return") /\ UNCHANGED files
    /\ UNCHANGED <<clash, verge, fallback, serving, world, updating, reload, mode, syncs, start, work, drift>>

RestartForPorts ==
    /\ At("ports", "restart")
    /\ IF op.running
         THEN \E o \in Outcomes : Restarts(Latest(runtime), o) /\ Goto(IF o = "ok" THEN "persist" ELSE "undo")
         ELSE Goto("persist") /\ UNCHANGED <<serving, faults>>
    /\ UNCHANGED <<layers, files, fallback, world, updating, reload, mode, syncs, start, work, drift>>

\* config.yaml first, then verge.yaml.
PersistClash ==
    /\ At("ports", "persist")
    /\ \/ files' = [files EXCEPT !.clash = Latest(clash)] /\ Goto("persistVerge") /\ UNCHANGED faults
       \/ Fails(1) /\ Goto("undo") /\ UNCHANGED files
    /\ UNCHANGED <<layers, fallback, serving, world, updating, reload, mode, syncs, start, work, drift>>

PersistVerge ==
    /\ At("ports", "persistVerge")
    /\ \/ files' = [files EXCEPT !.verge = Latest(verge)] /\ Goto("commit") /\ UNCHANGED faults
       \/ Fails(1) /\ Goto("undo") /\ UNCHANGED files
    /\ UNCHANGED <<layers, fallback, serving, world, updating, reload, mode, syncs, start, work, drift>>

CommitPorts ==
    /\ At("ports", "commit")
    /\ CommitAll
    /\ pac' = (core # None)
    /\ Release
    /\ drift' = drift \ {"ahead", "overtaken"}
    /\ UNCHANGED <<files, fallback, core, left, proxy, world, reload, mode, start, work, faults>>

\* Mutant: the port that was borrowed is forgotten.
KeepNothing == UNCHANGED fallback

RestoreBorrowedPort == fallback' = op.borrowed

(* The restart failed or a file could not be written: drafts, borrowed port and
   files go back first, for the restart of the old core reads them. *)
UndoPorts ==
    /\ At("ports", "undo")
    /\ DiscardAll
    /\ RestoreBorrowedPort
    /\ RestoreFiles(op.files)
    /\ drift' = IF faults' # faults THEN drift \cup {"unsaved"} ELSE drift
    /\ Goto("restore")
    /\ UNCHANGED <<serving, world, updating, reload, mode, syncs, start, work>>

\* A rollback that fails is reported; the core stays what it has become.
RestoreCore ==
    /\ At("ports", "restore")
    /\ IF op.running
         THEN \E o \in Outcomes :
                /\ Restarts(runtime.data, o)
                /\ drift' = IF o = "kept" THEN drift \cup {"stayed", "astray"} ELSE drift
         ELSE UNCHANGED <<serving, faults, drift>>
    /\ Goto("return")
    /\ UNCHANGED <<layers, files, fallback, world, updating, reload, mode, syncs, start, work>>

(* The guards run in the reverse of their order: the borrowed port is back and
   PAC answers before the drafts are dropped. *)
ReturnPorts ==
    /\ At("ports", "return")
    /\ RestoreBorrowedPort
    /\ pac' = (core # None)
    /\ Goto("drop")
    /\ UNCHANGED <<layers, files, core, left, proxy, world, updating, reload, mode, syncs, start, work, faults, drift>>

DropPorts ==
    /\ At("ports", "drop")
    /\ DiscardAll
    /\ Release
    /\ UNCHANGED <<files, fallback, serving, world, reload, mode, start, work, faults, drift>>

-----------------------------------------------------------------------------
(* feat/dns.rs: set_dns_override, and config/dns.rs: sync_dns_override *)

(* A provider's DNS is replaced once the user confirmed that very one; without
   the confirmation the command only asks for it. *)
StartDns(enabled, confirmation) ==
    LET source == DnsOverrideSource(Text[profile]) IN
    /\ phase = "up" /\ op = Free /\ work > 0
    /\ enabled => source \in {Absent, confirmation}
    /\ work' = work - 1
    /\ verge' = Stage(verge, [verge.data EXCEPT !.dns = enabled, !.confirmed = IF enabled THEN source ELSE Absent])
    /\ op' = [kind |-> "dns", at |-> "claim", enabled |-> enabled]
    /\ UNCHANGED <<clash, runtime, files, fallback, serving, world, updating, reload, mode, syncs, start,
                   faults, drift>>

\* update_config_checked, which is refused while another update runs
ClaimDns ==
    /\ At("dns", "claim")
    /\ \/ updating /\ Goto("drop") /\ UNCHANGED <<updating, runtime>>
       \/ ~updating /\ updating' = TRUE /\ StageNow /\ Goto("apply")
    /\ UNCHANGED <<clash, verge, files, fallback, serving, world, reload, mode, syncs, start, work, faults, drift>>

ApplyDns ==
    /\ At("dns", "apply")
    /\ \E o \in Outcomes :
         /\ Reloads(Latest(runtime), o)
         /\ runtime' = Discard(Retained(o)) /\ files' = RunFile(o)
         /\ Goto(IF o = "ok" THEN "settle" ELSE "drop")
         /\ drift' = CASE o = "ok" -> drift \ {"ahead", "overtaken"} [] o = "late" -> drift \cup {"ahead"} [] OTHER -> drift
    /\ updating' = FALSE /\ syncs' = TRUE
    /\ UNCHANGED <<clash, verge, fallback, world, reload, mode, start, work>>

\* The profile may have changed while the core validated: then the override is off.
SettleDns ==
    /\ At("dns", "settle")
    /\ LET state == DnsOf(runtime.data)
           off == op.enabled /\ state # None /\ ~state.enabled
       IN verge' = IF off THEN Layer([Latest(verge) EXCEPT !.dns = FALSE, !.confirmed = Absent]) ELSE Commit(verge)
    /\ Goto("save")
    /\ UNCHANGED <<clash, runtime, files, fallback, serving, world, updating, reload, mode, syncs, start, work,
                   faults, drift>>

\* What is being applied was made from the settings that change here.
Overtaken == IF reload = "staged" THEN {"overtaken"} ELSE {}

\* The core and the memory keep the setting when the file cannot be written.
SaveVerge ==
    LET synced == (drift \ {"unsynced"}) \cup Overtaken IN
    \/ files' = [files EXCEPT !.verge = verge'.data] /\ drift' = synced /\ UNCHANGED faults
    \/ Fails(1) /\ drift' = synced \cup {"unsaved"} /\ UNCHANGED files

SaveDns ==
    /\ At("dns", "save")
    /\ UNCHANGED verge /\ SaveVerge
    /\ op' = Free
    /\ UNCHANGED <<clash, runtime, fallback, serving, world, updating, reload, mode, syncs, start, work>>

DropDns ==
    /\ At("dns", "drop")
    /\ verge' = Discard(verge)
    /\ op' = Free
    /\ UNCHANGED <<clash, runtime, files, fallback, serving, world, updating, reload, mode, syncs, start, work,
                   faults, drift>>

\* apply_to: unless the settings moved on since the runtime was generated.
Applies(state, v) ==
    /\ v.dns = state.requested /\ v.confirmed = state.confirmation
    /\ state.enabled # state.requested \/ (state.confirmation # Absent /\ state.source # state.confirmation)

SyncedVerge(state, v) ==
    [v EXCEPT !.dns = state.enabled, !.confirmed = IF state.source # state.confirmation THEN Absent ELSE @]

Synchronise ==
    LET state == DnsOf(runtime.data) IN
    IF state # None /\ Applies(state, verge.data)
      THEN verge' = Layer(SyncedVerge(state, verge.data)) /\ SaveVerge
      ELSE drift' = drift \ {"unsynced"} /\ UNCHANGED <<verge, files, faults>>

SyncDns ==
    /\ phase = "up" /\ syncs /\ op = Free
    /\ Synchronise
    /\ syncs' = FALSE
    /\ UNCHANGED <<clash, runtime, fallback, serving, world, updating, op, reload, mode, start, work>>

-----------------------------------------------------------------------------
(* Updates and restarts without the lock: update_config_checked, restart_core *)

StartReload ==
    /\ phase = "up" /\ ~updating /\ work > 0
    /\ work' = work - 1
    /\ updating' = TRUE /\ reload' = "claimed"
    /\ UNCHANGED <<layers, files, fallback, serving, world, op, mode, syncs, start, faults, drift>>

\* It reads the settings as they are now, staged or not.
GenerateForReload ==
    /\ reload = "claimed"
    /\ StageNow
    /\ reload' = "staged"
    /\ drift' = IF op # Free THEN drift \cup {"crossed"} ELSE drift
    /\ UNCHANGED <<clash, verge, files, fallback, serving, world, updating, op, mode, syncs, start, work, faults>>

ApplyReload ==
    /\ reload = "staged"
    /\ \E o \in Outcomes :
         /\ Reloads(Latest(runtime), o)
         /\ runtime' = Discard(Retained(o)) /\ files' = RunFile(o)
         /\ drift' = IF o \in Taken THEN drift \ {"ahead", "stayed"} ELSE drift
    /\ reload' = "no" /\ updating' = FALSE /\ syncs' = TRUE
    /\ UNCHANGED <<clash, verge, fallback, world, op, mode, start, work>>

\* The core restarts with the runtime there is; nothing is generated.
RestartCore ==
    /\ phase = "up" /\ ~updating /\ work > 0 /\ runtime.data # None
    /\ work' = work - 1
    /\ \E o \in Outcomes :
         /\ Restarts(Latest(runtime), o)
         /\ files' = RunFile(o)
         /\ drift' = IF o \in Taken THEN drift \ {"stayed", "astray"} ELSE drift
    /\ syncs' = TRUE
    /\ UNCHANGED <<layers, fallback, world, updating, op, reload, mode, start>>

-----------------------------------------------------------------------------
(* feat/clash.rs: change_clash_mode, without lock and flag *)

\* The core takes the mode, or the command ends here.
PatchMode(m) ==
    /\ phase = "up" /\ core # None /\ mode = None /\ work > 0
    /\ work' = work - 1
    /\ core' = [core EXCEPT !.mode = m]
    /\ mode' = m
    /\ UNCHANGED <<layers, files, fallback, left, pac, proxy, world, updating, op, reload, syncs, start, faults, drift>>

\* Whatever is staged in the clash layer is committed with it.
SaveMode ==
    /\ mode # None
    /\ clash' = Layer(Patched(Latest(clash), Single("mode", mode)))
    /\ mode' = None
    /\ LET crossed == IF op.kind \in {"patch", "ports"} THEN drift \cup {"crossed"} ELSE drift IN
       \/ files' = [files EXCEPT !.clash = clash'.data] /\ drift' = crossed /\ UNCHANGED faults
       \/ Fails(1) /\ drift' = crossed \cup {"unsaved"} /\ UNCHANGED files
    /\ UNCHANGED <<verge, runtime, fallback, serving, world, updating, op, reload, syncs, start, work>>

-----------------------------------------------------------------------------
(* Other programs, the providers of the profile, and the end *)

OtherTakes(port) ==
    /\ Cardinality(taken) < MaxTaken
    /\ port \notin Busy \cup ClaimedPorts(core)
    /\ taken' = taken \cup {port}
    /\ UNCHANGED <<layers, files, fallback, serving, profile, updating, op, reload, mode, syncs, start, work,
                   faults, drift>>

\* A subscription update replaces the file; its reload is StartReload.
ProfileChanges(text) ==
    /\ work > 0 /\ text # profile
    /\ work' = work - 1
    /\ profile' = text
    /\ UNCHANGED <<layers, files, fallback, serving, taken, updating, op, reload, mode, syncs, start, faults,
                   drift>>

Nothing == op' = Free /\ updating' = FALSE /\ reload' = "no" /\ mode' = None /\ syncs' = FALSE
Down == phase' = "down" /\ ends' = ends - 1 /\ retries' = 0 /\ Nothing

\* A core of the Service survives the application, and so does the system proxy.
Crash ==
    /\ phase # "down" /\ ends > 0
    /\ Down
    /\ core' = None /\ pac' = FALSE
    /\ left' \in {left, IF core = None THEN left ELSE core, None}
    /\ UNCHANGED <<layers, files, fallback, proxy, world, work, faults, drift>>

\* apply_all_and_save_file: what is staged is committed and saved.
Quit ==
    /\ phase = "up" /\ ends > 0
    /\ Down
    /\ verge' = Commit(verge) /\ clash' = Commit(clash)
    /\ files' = [files EXCEPT !.verge = Latest(verge), !.clash = Latest(clash)]
    /\ core' = None /\ pac' = FALSE /\ proxy' = 0
    /\ UNCHANGED <<left, runtime, fallback, world, work, faults, drift>>

-----------------------------------------------------------------------------
(* A start: resolve_setup, Config::init_runtime_config, CoreManager::init *)

\* IClashTemp::new, IVerge::new: what the files say.
LoadClash == clash' = Layer(files.clash)
LoadVerge == verge' = Layer(files.verge)

Launch ==
    /\ phase = "down"
    /\ phase' = "tun"
    /\ LoadClash /\ LoadVerge /\ runtime' = Layer(None)
    /\ fallback' = 0
    /\ drift' = {}
    /\ UNCHANGED <<files, serving, world, updating, op, reload, mode, syncs, retries, ends, work, faults>>

\* reconcile_startup_tun_availability: only the preference is written.
ReconcileTun ==
    /\ phase = "tun"
    /\ \/ verge.data.tun /\ verge' = Layer([verge.data EXCEPT !.tun = FALSE]) /\ SaveVerge
       \/ UNCHANGED <<verge, files, faults, drift>>
    /\ phase' = "resolve"
    /\ UNCHANGED <<clash, runtime, fallback, serving, world, updating, op, reload, mode, syncs, retries, ends,
                   work>>

Selected == IF fallback # 0 THEN fallback ELSE Latest(clash)["mixed-port"]

\* configured_listener_ports: the ports of the other listeners, switched on or not
Reserved == {Latest(clash)["socks-port"]}

\* Mutant: the search does not come round at the last port.
PortsAbove(from) == {port \in from + 1 .. from + MaxPort : port \notin Reserved \cup Busy}

\* find_next_available_port, from the port after this one and round
Candidates(from) ==
    LET span == MaxPort - MinPort + 1
        base == IF from < MinPort THEN MaxPort ELSE from
        Nth(k) == MinPort + ((base - MinPort + k) % span)
    IN {Nth(k) : k \in {k \in 1 .. span :
            /\ Nth(k) # from /\ Nth(k) \notin Reserved \cup Busy
            /\ \A j \in 1 .. k - 1 : Nth(j) = from \/ Nth(j) \in Reserved \cup Busy}}

\* apply_startup_mixed_port_fallback: only the generated configuration moves.
Borrow(port) ==
    LET next == Candidate(Latest(clash), Latest(verge), port, FALSE) IN
    /\ fallback' = port
    /\ runtime' = Layer(next)
    /\ files' = [files EXCEPT !.runtime = next]

\* A core this user already runs through the Service is no conflict.
Owned == left # None /\ PortOf(left) = Selected
Conflict == Selected \in Busy /\ ~Owned

(* At the start; a probe that cannot tell keeps the port, and without a port to
   go to the core may not start at all. *)
ResolvePort ==
    /\ phase = "resolve"
    /\ IF ~Conflict THEN phase' = "generate" /\ UNCHANGED <<runtime, files, fallback, faults>>
       ELSE \/ \E port \in Candidates(Selected) : Borrow(port) /\ phase' = "sync" /\ UNCHANGED faults
            \/ /\ \/ Candidates(Selected) = {} /\ UNCHANGED faults /\ phase' = "up"
                  \/ Fails(1) /\ phase' \in {"generate", "up"}
               /\ UNCHANGED <<runtime, files, fallback>>
    /\ UNCHANGED <<clash, verge, serving, world, updating, op, reload, mode, syncs, retries, ends, work, drift>>

GenerateAtStart ==
    /\ phase = "generate"
    /\ \E fails \in BOOLEAN, valid \in BOOLEAN :
         /\ IF valid THEN UNCHANGED faults ELSE Fails(1)
         /\ LET next == IF valid THEN Now(fails) ELSE Minimal IN
            runtime' = Layer(next) /\ files' = [files EXCEPT !.runtime = next]
    /\ phase' = "sync"
    /\ UNCHANGED <<clash, verge, fallback, serving, world, updating, op, reload, mode, syncs, retries, ends, work,
                   drift>>

SyncAtStart ==
    /\ phase = "sync"
    /\ Synchronise
    /\ phase' = "core"
    /\ UNCHANGED <<clash, runtime, fallback, serving, world, updating, op, reload, mode, syncs, retries, ends,
                   work>>

\* A start that fails while a port may be the reason tries another port.
StartCore ==
    /\ phase = "core"
    /\ \E o \in {"ok", "late", "dead"} :
         /\ Restarts(runtime.data, o)
         /\ phase' = IF o = "dead" /\ retries < MaxRetries THEN "retry" ELSE "up"
    /\ UNCHANGED <<layers, files, fallback, world, updating, op, reload, mode, syncs, retries, ends, work, drift>>

RetryPort ==
    /\ phase = "retry"
    /\ \/ /\ Conflict
          /\ \E port \in Candidates(Selected) : Borrow(port)
          /\ phase' = "core" /\ retries' = retries + 1
          /\ drift' = drift \cup {"unsynced"}
          /\ UNCHANGED faults
       \/ /\ IF Conflict /\ Candidates(Selected) # {} THEN Fails(1) ELSE UNCHANGED faults
          /\ phase' = "up"
          /\ UNCHANGED <<runtime, files, fallback, retries, drift>>
    /\ UNCHANGED <<clash, verge, serving, world, updating, op, reload, mode, syncs, ends, work>>

-----------------------------------------------------------------------------
Init ==
    /\ files = [clash |-> DefaultClash, verge |-> DefaultVerge, runtime |-> None]
    /\ clash = Layer(DefaultClash) /\ verge = Layer(DefaultVerge) /\ runtime = Layer(None)
    /\ profile \in Profiles
    /\ fallback = 0 /\ core = None /\ left = None /\ pac = FALSE /\ proxy = 0 /\ taken = {}
    /\ updating = FALSE /\ op = Free /\ reload = "no" /\ mode = None /\ syncs = FALSE
    /\ phase = "down" /\ retries = 0
    /\ work = MaxWork /\ faults = MaxFaults /\ ends = MaxEnds
    /\ drift = {}

Commands ==
    \/ \E patch \in PatchSet : StartPatch(patch)
    \/ \E choice \in PortChoices : StartPorts(choice.port, choice.socks)
    \/ \E enabled \in BOOLEAN, c \in {DnsOverrideSource(Text[profile]), Absent} : StartDns(enabled, c)
    \/ StartReload \/ RestartCore
    \/ \E m \in Modes : PatchMode(m)

Environment ==
    \/ \E port \in Ports : OtherTakes(port)
    \/ \E text \in Profiles : ProfileChanges(text)
    \/ DisableTun \/ Crash \/ Quit

Steps ==
    \/ GenerateForPatch \/ ApplyForPatch \/ ProxyForPatch \/ TrayForPatch \/ SavePatch \/ CommitPatch
    \/ RollbackPatch
    \/ ProbePorts \/ RestartForPorts \/ PersistClash \/ PersistVerge \/ CommitPorts \/ UndoPorts
    \/ RestoreCore \/ ReturnPorts \/ DropPorts
    \/ ClaimDns \/ ApplyDns \/ SettleDns \/ SaveDns \/ DropDns \/ SyncDns
    \/ GenerateForReload \/ ApplyReload \/ SaveMode
    \/ Launch \/ ReconcileTun \/ ResolvePort \/ GenerateAtStart \/ SyncAtStart \/ StartCore \/ RetryPort

Next == Commands \/ Environment \/ Steps

\* Every await of a step is bounded by a timeout or a file operation.
Spec == Init /\ [][Next]_vars /\ WF_vars(Steps)

-----------------------------------------------------------------------------
(* Properties *)

TypeOK ==
    /\ clash \in [data : Clashes, draft : Clashes \cup {None}]
    /\ verge \in [data : Verges, draft : Verges \cup {None}]
    /\ runtime \in [data : Runs \cup {None}, draft : Runs \cup {None}]
    /\ files \in [clash : Clashes, verge : Verges, runtime : Runs \cup {None}]
    /\ core \in Runs \cup {None} /\ left \in Runs \cup {None}
    /\ faults \in Nat /\ fallback \in {0} \cup Ports /\ proxy \in {0} \cup Ports /\ taken \subseteq Ports
    /\ profile \in Profiles /\ mode \in Modes \cup {None}
    /\ pac \in BOOLEAN /\ updating \in BOOLEAN /\ syncs \in BOOLEAN
    /\ reload \in {"no", "claimed", "staged"}
    /\ phase \in {"down", "tun", "resolve", "generate", "sync", "core", "retry", "up"}
    /\ drift \subseteq {"ahead", "stayed", "astray", "crossed", "unsaved", "unsynced", "overtaken"}
    /\ retries \in 0 .. MaxRetries

\* Nothing is under way.
Quiet == phase = "up" /\ op = Free /\ ~updating /\ mode = None /\ ~syncs

Untouched(reasons) == drift \cap reasons = {}

(* Once an operation is over the settings, the generated configuration and the
   core agree: the core runs the committed runtime, and that was made from the
   committed settings.  Not after a rollback that failed, nor while a patch that
   was rejected late has left its runtime in the core; nor for a DNS override
   synchronised with the runtime before while another one was being applied.  (retain_applied_runtime,
   DraftTransaction in executor.rs, listener.rs and dns.rs) *)
SettingsInForce ==
    LET made == runtime.data
        Plain(v) == [v EXCEPT !.dns = FALSE, !.confirmed = Absent, !.sysproxy = FALSE]
        Fixed(c) == Without(c, {"mode"})
    IN Quiet /\ core # None /\ Untouched({"ahead", "stayed", "crossed"}) =>
         /\ [core EXCEPT !.mode = None] = made
         /\ made.profile # None =>
              Fixed(made.clash) = Fixed(clash.data) /\ Plain(made.verge) = Plain(verge.data)
         /\ DnsOf(made) # None /\ Untouched({"unsynced", "overtaken"}) =>
              DnsOf(made).enabled = verge.data.dns

(* PAC and the system proxy name the port the core serves: the borrowed one for
   the session, else the saved one.  (MixedPort::desired: "Paths staging it must
   close PAC until the Core catches up") *)
NamedPortIsServed ==
    LET split == Latest(clash)["mixed-port"] # Latest(verge).mixed IN
    Quiet /\ core # None /\ ~split /\ Untouched({"astray", "crossed"}) =>
        /\ pac => Desired = PortOf(core)
        /\ proxy # 0 => proxy = PortOf(core)

(* What the application owns holds in whatever a core may be given, whatever
   the profile, the merges and the scripts wrote; the mode, which the core may
   be told later, apart.  (AuthoritativeFields, MixedPort::session_fallback) *)
OwnedFieldsHold(config, run) ==
    DnsOf(run) # None =>
        LET has == config.fields
            c == run.clash
            v == run.verge
        IN /\ has["mixed-port"] = PortOf(run)
           /\ {Get(has, "socks-port")} \ {Absent} = SocksOf(run)
           /\ Get(has, "external-controller") = IF v.controller THEN c["external-controller"] ELSE ""
           /\ Get(has, "allow-lan") = c["allow-lan"]
           /\ Get(has, "tun.enable") = v.tun
           /\ c["allow-lan"] => Get(has, "bind-address") # "loopback"
           /\ DnsOf(run).enabled => \A path \in DOMAIN Page : Get(has, path) = Page[path]

(* Every name a group or a tunnel refers to is one the core knows, or may still
   come from a provider of the group.  (cleanup_proxy_groups,
   sanitize_tunnels_proxy) *)
NamesResolve(config) ==
    LET known == config.proxies \cup NamesOf(config.groups) IN
    /\ \A i \in DOMAIN config.groups :
         LET g == config.groups[i] IN
         /\ g.use \subseteq config.providers
         /\ g.use = {} => g.members \subseteq known \cup config.providers \cup Builtin
    /\ config.tunnels \subseteq known \cup {"DIRECT", "REJECT"}

(* What a core may be given keeps what the application owns and names only what
   the core knows. *)
ConfigurationHolds ==
    \A run \in {core, Latest(runtime)} \ {None} :
        LET config == ConfigOf(run) IN OwnedFieldsHold(config, run) /\ NamesResolve(config)

(* The files say what the memory says once nothing is under way, so the next
   start finds it; a file that could not be written apart.  (save_file,
   save_config, restore_files) *)
FilesFollowMemory ==
    Quiet /\ Untouched({"unsaved", "crossed"}) => files.clash = clash.data /\ files.verge = verge.data

(* Settings, configuration, core and files agree when nothing is under way. *)
SettingsAgree == SettingsInForce /\ FilesFollowMemory

(* Every operation, and every start, comes to its end. *)
OperationsEnd == []<>(Quiet \/ phase = "down")
====
