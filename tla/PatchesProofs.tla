----------------------------- MODULE PatchesProofs -----------------------------
(***************************************************************************)
(* Theorems about Patches, for every set of settings, patches, texts of    *)
(* the profile and ports, and for any number of faults.                    *)
(***************************************************************************)
EXTENDS Patches, TLAPS

-----------------------------------------------------------------------------
(* The inductive invariant *)

Config == {"RestartCore", "ClashConfig"}
Kinds == Config \cup {"SystemProxy", "Tray"}
Files == [clash : Clashes, verge : Verges, runtime : Runs \cup {None}]
TunOff == [layer |-> "verge", set |-> [tun |-> FALSE]]

PatchPlaces == {"effect", "apply", "commit", "fail"}
PortPlaces == {"probe", "restart", "persist", "persistVerge", "commit", "undo", "restore", "return", "drop"}
DnsPlaces == {"claim", "apply", "settle", "save", "drop"}

PatchOps == [kind : {"patch"}, at : PatchPlaces, patch : PatchSet \cup {TunOff}, todo : SUBSET Kinds,
             files : Files, ran : Runs \cup {None}]
PortOps == [kind : {"ports"}, at : PortPlaces, files : Files, ran : Runs, borrowed : {0} \cup Ports,
            running : BOOLEAN]
DnsOps == [kind : {"dns"}, at : DnsPlaces, enabled : BOOLEAN]

IsPatch == op.kind = "patch"
IsPorts == op.kind = "ports"
IsDns == op.kind = "dns"
In(places) == op.at \in places

\* Types, with the shape of the operation under way.
Types == TypeOK /\ op \in {Free} \cup PatchOps \cup PortOps \cup DnsOps

Crossed == "crossed" \in drift
Ahead == "ahead" \in drift

\* Who holds the claim of the update, and when layers have drafts.
Control ==
    /\ updating <=> IsPatch \/ IsPorts \/ At("dns", "apply") \/ reload # "no"
    /\ reload # "no" => ~IsPatch /\ ~IsPorts /\ ~At("dns", "apply")
    /\ phase # "up" => op = Free /\ reload = "no" /\ mode = None /\ ~syncs /\ core = None
    /\ reload = "claimed" => runtime.draft = None
    /\ reload = "staged" /\ IsDns /\ In({"settle", "save"}) => Crossed
    /\ "stayed" \in drift => "astray" \in drift
    /\ phase = "retry" => retries < MaxRetries

\* The operation has a runtime staged that it means to commit.
Applying ==
    \/ IsPatch /\ In({"apply"})
    \/ IsPorts /\ In({"restart", "persist", "persistVerge", "commit"})
    \/ At("dns", "apply")

Drafts ==
    /\ clash.draft # None => IsPatch \/ IsPorts
    /\ verge.draft # None => IsPatch \/ IsPorts \/ IsDns
    /\ runtime.draft # None =>
         \/ IsPatch /\ In({"apply", "fail"})
         \/ IsPorts \/ At("dns", "apply") \/ reload = "staged"
    /\ Applying \/ reload = "staged" => runtime.draft # None
    /\ phase \in {"tun", "resolve", "generate"} => runtime.data = None /\ fallback = 0
    /\ phase \in {"sync", "core", "retry"} => runtime.data # None
    /\ runtime.data # None => runtime.data.mode = None
    /\ runtime.draft # None => runtime.draft.mode = None
    /\ IsPorts => /\ ~op.running => core = None
                  /\ In({"restore"}) => clash.draft = None /\ verge.draft = None
    /\ At("dns", "save") => verge.draft = None

\* What a configuration was made from, apart from the mode ...
Fixed(c) == Without(c, {"mode"})
Fresh(r, c, v) == r # None => Fixed(r.clash) = Fixed(c) /\ r.verge = v

\* ... and apart from what the core does not need to be told again.
Plain(v) == [v EXCEPT !.dns = FALSE, !.confirmed = Absent, !.sysproxy = FALSE]
Made(r, c, v) == r # None => Fixed(r.clash) = Fixed(c) /\ Plain(r.verge) = Plain(v)

Asks(r, v) == r # None => r.verge.dns = v.dns /\ r.verge.confirmed = v.confirmed
Served(r, v) == DnsOf(r) # None => DnsOf(r).enabled = v.dns

\* What an operation stages stays within what it is there to change.
Staged ==
    /\ IsPatch => /\ IF op.patch.layer = "verge" THEN clash.draft = None ELSE verge.draft = None
                  /\ Latest(clash)["mixed-port"] = clash.data["mixed-port"]
                  /\ Latest(verge).mixed = verge.data.mixed
                  /\ Latest(verge).dns = verge.data.dns /\ Latest(verge).confirmed = verge.data.confirmed
    /\ IsDns /\ verge.draft # None => Plain(verge.draft) = Plain(verge.data) /\ verge.draft.mixed = verge.data.mixed
    /\ IsDns /\ In({"claim", "apply", "settle"}) => verge.draft # None /\ verge.draft.dns = op.enabled
    /\ IsPorts /\ In({"probe", "restart", "persist", "persistVerge", "commit"}) /\ ~Crossed =>
         Latest(clash)["mixed-port"] = Latest(verge).mixed

\* The runtime was made from the settings.
RuntimeMade ==
    /\ ~IsPatch /\ ~Ahead => Made(runtime.data, clash.data, verge.data)
    /\ IsPatch => /\ ~Ahead => Made(op.ran, clash.data, verge.data)
                  /\ runtime.data # op.ran => Fresh(runtime.data, Latest(clash), Latest(verge))
                  /\ ~Ahead /\ (In({"commit"}) \/ (In({"effect"}) /\ op.todo \cap Config = {})) =>
                         Made(runtime.data, Latest(clash), Latest(verge))
    /\ Applying => Fresh(runtime.draft, Latest(clash), Latest(verge))
    /\ reload = "staged" =>
         /\ Made(runtime.draft, clash.data, verge.data)
         /\ "overtaken" \notin drift => Asks(runtime.draft, verge.data)

\* The DNS override the runtime has is the one of the settings, or it is still to
\* be synchronised.
DnsAgreed ==
    LET r == IF IsPatch THEN op.ran ELSE runtime.data
        pending == Asks(r, verge.data) /\ (syncs \/ "unsynced" \in drift \/ phase = "sync")
    IN /\ At("dns", "settle") => Fresh(runtime.data, Latest(clash), Latest(verge))
       /\ ~Ahead /\ "overtaken" \notin drift =>
            /\ ~At("dns", "settle") => Served(r, verge.data) \/ pending
            /\ At("dns", "save") => Served(r, verge.data)

\* The core runs the runtime.
Bare(r) == [r EXCEPT !.mode = None]
Restarted == IsPorts /\ In({"persist", "persistVerge", "commit"})
Unsettled == Restarted \/ (IsPorts /\ In({"undo", "restore"}))
CoreRuns ==
    core # None =>
        /\ "stayed" \notin drift /\ ~Unsettled => runtime.data # None /\ Bare(core) = runtime.data
        /\ Restarted => Bare(core) = runtime.draft

\* The ports.
MixedOf(r) == r.clash["mixed-port"]
PortsKept ==
    /\ runtime.data # None => MixedOf(runtime.data) = clash.data["mixed-port"]
    /\ ~IsPorts /\ runtime.draft # None => MixedOf(runtime.draft) = clash.data["mixed-port"]
    /\ IsPorts /\ In({"restart", "persist", "persistVerge", "commit"}) =>
          MixedOf(runtime.draft) = Latest(clash)["mixed-port"]
Borrowed ==
    /\ ~IsPorts => /\ runtime.data # None => runtime.data.fallback = fallback
                   /\ runtime.draft # None => runtime.draft.fallback = fallback
    /\ IsPorts => /\ runtime.data # None /\ runtime.data.fallback = op.borrowed
                  /\ In({"probe", "restart", "persist", "persistVerge", "commit"}) => fallback = 0
                  /\ In({"restart", "persist", "persistVerge", "commit"}) => runtime.draft.fallback = 0
                  /\ In({"restore", "drop"}) => fallback = op.borrowed
ProxyNamed ==
    core # None /\ proxy # 0 =>
        /\ "astray" \notin drift /\ clash.data["mixed-port"] = verge.data.mixed /\ ~Unsettled =>
              proxy = PortOf(core)
        /\ Restarted => proxy = PortOf(core)

\* The files follow the layers.
FilesAgree ==
    /\ ~IsPatch /\ ~IsPorts => files.clash = clash.data /\ (At("dns", "save") \/ files.verge = verge.data)
    /\ IsPatch \/ IsPorts => op.files.clash = clash.data /\ op.files.verge = verge.data
    /\ \/ IsPatch /\ In({"effect", "apply", "fail"})
       \/ IsPorts /\ In({"probe", "restart", "persist", "restore", "return", "drop"})
       => files.clash = clash.data /\ files.verge = verge.data
    /\ (IsPatch /\ In({"commit"})) \/ (IsPorts /\ In({"persistVerge", "commit"})) => files.clash = Latest(clash)
    /\ (IsPatch \/ IsPorts) /\ In({"commit"}) => files.verge = Latest(verge)

Agreement ==
    /\ ~Crossed => RuntimeMade /\ DnsAgreed /\ PortsKept /\ ProxyNamed
    /\ ~Crossed /\ "unsaved" \notin drift => FilesAgree

Inner == Drafts /\ Staged /\ Borrowed /\ CoreRuns /\ Agreement

IInv ==
    /\ Types /\ Control
    /\ phase # "down" => Inner


-----------------------------------------------------------------------------
(* Layers *)

LayersOf(S, D) == [data : D, draft : S \cup {None}]

\* What a layer reads after each of its operations, and that it stays one.
LayerLaws(l, v, L) ==
    /\ Layer(v).data = v /\ Layer(v).draft = None /\ Latest(Layer(v)) = v
    /\ Stage(l, v).data = l.data /\ Stage(l, v).draft = v /\ Latest(Stage(l, v)) = v
    /\ Commit(l).data = Latest(l) /\ Commit(l).draft = None /\ Latest(Commit(l)) = Latest(l)
    /\ Discard(l).data = l.data /\ Discard(l).draft = None /\ Latest(Discard(l)) = l.data
    /\ Latest(l) = IF l.draft = None THEN l.data ELSE l.draft
    /\ {Layer(v), Stage(l, v), Commit(l), Discard(l)} \subseteq L

(* The operations of Draft do what is said of them. *)
LEMMA LayerFacts ==
    ASSUME NEW S, NEW D, None \notin S, S \subseteq D, NEW l \in LayersOf(S, D), NEW v \in S
    PROVE  LayerLaws(l, v, LayersOf(S, D))
    BY DEF LayerLaws, LayersOf, Layer, Latest, Stage, Commit, Discard

(* The mode is no part of what the core is told to serve.  (change_clash_mode) *)
LEMMA ModeApart ==
    ASSUME NEW c \in Clashes, NEW m
    PROVE  LET d == Patched(c, Single("mode", m)) IN Fixed(d) = Fixed(c) /\ d["mixed-port"] = c["mixed-port"]
    <1> DEFINE d == Patched(c, Single("mode", m))
    <1>1. {"mode", "mixed-port"} \subseteq DOMAIN c
        BY ClashesAssumption DEF ControlKeys
    <1>2. DOMAIN d = DOMAIN c /\ \A p \in DOMAIN c \ {"mode"} : d[p] = c[p]
        BY <1>1 DEF Patched, Over, Single
    <1>3. QED
        BY <1>1, <1>2 DEF Fixed, Without, Restrict

LEMMA VergePatched ==
    ASSUME NEW v \in Verges, NEW set, DOMAIN set \subseteq {"socks", "tun", "controller", "sysproxy"},
           \A field \in DOMAIN set : set[field] \in BOOLEAN
    PROVE  /\ Patched(v, set) \in Verges
           /\ Patched(v, set).mixed = v.mixed /\ Patched(v, set).dns = v.dns
           /\ Patched(v, set).confirmed = v.confirmed
    <1> DEFINE w == Patched(v, set)
    <1>1. DOMAIN v = VergeFields
        BY DEF Verges, VergeFields
    <1>2. DOMAIN w = VergeFields /\ \A p \in VergeFields : w[p] = IF p \in DOMAIN set THEN set[p] ELSE v[p]
        BY <1>1 DEF Patched, Over, VergeFields
    <1>3. w = [p \in VergeFields |-> w[p]]
        BY <1>2 DEF Patched, Over
    <1>4. w = [mixed |-> w["mixed"], socks |-> w["socks"], tun |-> w["tun"], dns |-> w["dns"],
               confirmed |-> w["confirmed"], controller |-> w["controller"], sysproxy |-> w["sysproxy"]]
        BY <1>3 DEF VergeFields
    <1>5. /\ w["mixed"] = v.mixed /\ w["dns"] = v.dns /\ w["confirmed"] = v.confirmed
          /\ {w["socks"], w["tun"], w["controller"], w["sysproxy"]} \subseteq BOOLEAN
        BY <1>2 DEF VergeFields, Verges
    <1>6. QED
        BY <1>4, <1>5 DEF Verges


-----------------------------------------------------------------------------
(* What the types say *)

LEMMA TypeFacts ==
    ASSUME Types
    PROVE  /\ {clash.data, Latest(clash), files.clash} \subseteq Clashes
           /\ {verge.data, Latest(verge), files.verge} \subseteq Verges
           /\ {runtime.data, Latest(runtime)} \subseteq Runs \cup {None}
           /\ None \notin Clashes /\ None \notin Verges /\ None \notin Runs
           /\ files \in Files
           /\ drift \subseteq {"ahead", "stayed", "astray", "crossed", "unsaved", "unsynced", "overtaken"}
    BY PatchesAssumption DEF Types, TypeOK, Latest, Files

LEMMA ClashLaws ==
    ASSUME Types, NEW c \in Clashes
    PROVE  LayerLaws(clash, c, [data : Clashes, draft : Clashes \cup {None}])
    BY LayerFacts, PatchesAssumption DEF Types, TypeOK, LayersOf

LEMMA VergeLaws ==
    ASSUME Types, NEW v \in Verges
    PROVE  LayerLaws(verge, v, [data : Verges, draft : Verges \cup {None}])
    BY LayerFacts, PatchesAssumption DEF Types, TypeOK, LayersOf

LEMMA RuntimeLaws ==
    ASSUME Types, NEW r \in Runs
    PROVE  LayerLaws(runtime, r, [data : Runs \cup {None}, draft : Runs \cup {None}])
    BY LayerFacts, PatchesAssumption DEF Types, TypeOK, LayersOf

(* The operation that holds the lock is one of the three, and is what it is. *)
LEMMA OpFacts ==
    ASSUME Types
    PROVE  /\ IsPatch => op \in PatchOps /\ op # Free /\ ~IsPorts /\ ~IsDns
           /\ IsPorts => op \in PortOps /\ op # Free /\ ~IsPatch /\ ~IsDns
           /\ IsDns => op \in DnsOps /\ op # Free /\ ~IsPatch /\ ~IsPorts
           /\ op # Free => IsPatch \/ IsPorts \/ IsDns
    BY PatchesAssumption DEF Types, Free, IsPatch, IsPorts, IsDns, PatchOps, PortOps, DnsOps

(* An operation that goes on changes its place only. *)
LEMMA GotoFacts ==
    ASSUME Types, NEW at, op # Free, Goto(at)
    PROVE  /\ op'.kind = op.kind /\ op'.at = at
           /\ IsPatch => /\ op'.patch = op.patch /\ op'.todo = op.todo /\ op'.files = op.files
                         /\ op'.ran = op.ran /\ (at \in PatchPlaces => op' \in PatchOps)
           /\ IsPorts => /\ op'.files = op.files /\ op'.ran = op.ran /\ op'.borrowed = op.borrowed
                         /\ op'.running = op.running /\ (at \in PortPlaces => op' \in PortOps)
           /\ IsDns => op'.enabled = op.enabled /\ (at \in DnsPlaces => op' \in DnsOps)
    <1>1. CASE op \in PatchOps
        BY <1>1 DEF Goto, PatchOps, IsPatch, IsPorts, IsDns
    <1>2. CASE op \in PortOps
        BY <1>2 DEF Goto, PortOps, IsPatch, IsPorts, IsDns
    <1>3. CASE op \in DnsOps
        BY <1>3 DEF Goto, DnsOps, IsPatch, IsPorts, IsDns
    <1>4. QED
        BY <1>1, <1>2, <1>3 DEF Types

(* What is generated now is made from the settings as they are now, staged or
   not, and names the port they name.  (Config::generate) *)
LEMMA NowFacts ==
    ASSUME Types, NEW fails \in BOOLEAN
    PROVE  LET run == Now(fails) IN
           /\ run \in Runs /\ run # None /\ run.mode = None /\ run.fallback = fallback
           /\ run.clash = Latest(clash) /\ run.verge = Latest(verge)
           /\ Fresh(run, Latest(clash), Latest(verge)) /\ MixedOf(run) = Latest(clash)["mixed-port"]
    <1>1. Latest(clash) \in Clashes /\ Latest(verge) \in Verges
        BY TypeFacts
    <1>2. Now(fails) \in Runs
        BY <1>1 DEF Now, Candidate, Runs, Types, TypeOK
    <1>3. QED
        BY <1>2, PatchesAssumption DEF Now, Candidate, Fresh, MixedOf

LEMMA StageFacts ==
    ASSUME Types, StageNow
    PROVE  LET run == runtime'.draft IN
           /\ runtime'.data = runtime.data /\ Latest(runtime') = run
           /\ runtime' \in [data : Runs \cup {None}, draft : Runs \cup {None}]
           /\ run \in Runs /\ run # None /\ run.mode = None /\ run.fallback = fallback
           /\ Fresh(run, Latest(clash), Latest(verge)) /\ MixedOf(run) = Latest(clash)["mixed-port"]
    <1>1. PICK fails \in BOOLEAN : runtime' = Stage(runtime, Now(fails))
        BY DEF StageNow
    <1>2. /\ runtime'.data = runtime.data /\ runtime'.draft = Now(fails) /\ Latest(runtime') = Now(fails)
          /\ runtime' \in [data : Runs \cup {None}, draft : Runs \cup {None}]
        BY <1>1, NowFacts, RuntimeLaws DEF LayerLaws
    <1>3. QED
        BY <1>2, NowFacts

(* Fresh is more than Made and Asks. *)
LEMMA FreshIsMade ==
    ASSUME NEW r, NEW c, NEW v, Fresh(r, c, v)
    PROVE  Made(r, c, v) /\ Asks(r, v)
    BY DEF Fresh, Made, Asks

-----------------------------------------------------------------------------
(* How an attempt ends *)

LEMMA ProxyFacts ==
    ASSUME Types
    PROVE  Desired \in Ports /\ ProxyAfterStart \in {0, Desired} /\ ProxyAfterStart \in {0} \cup Ports
    <1>1. Latest(verge) \in Verges
        BY TypeFacts
    <1>2. QED
        BY <1>1 DEF Desired, ProxyAfterStart, Types, TypeOK, Verges

(* Each end of a restart, in terms of what the core serves then and what the
   system proxy names.  (restart_core_once) *)
LEMMA RestartFacts ==
    ASSUME Types, NEW next \in Runs, NEW o, Restarts(next, o)
    PROVE  /\ o \in {"ok", "late", "dead", "kept"}
           /\ o \in Taken => core' = next /\ proxy' \in {0, ProxyAfterStart}
           /\ o = "dead" => core' = None /\ proxy' = 0
           /\ o = "kept" => core' = core /\ proxy' = proxy /\ pac' = pac /\ core # None
           /\ core' \in Runs \cup {None} /\ left' \in Runs \cup {None} /\ pac' \in BOOLEAN
           /\ proxy' \in {0} \cup Ports /\ faults' \in Nat
    <1>1. faults' \in Nat
        BY DEF Restarts, Fails, Types, TypeOK
    <1>2. left' \in Runs \cup {None}
        BY DEF Restarts, Types, TypeOK
    <1>3. \/ o \in {"ok", "late"} /\ core' = next /\ pac' = TRUE /\ proxy' \in {0, ProxyAfterStart}
          \/ o = "dead" /\ core' = None /\ pac' = FALSE /\ proxy' = 0
          \/ o = "kept" /\ core # None /\ core' = core /\ pac' = pac /\ proxy' = proxy
        BY DEF Restarts
    <1>4. QED
        BY <1>1, <1>2, <1>3, ProxyFacts DEF Taken, Types, TypeOK

LEMMA ReloadFacts ==
    ASSUME Types, NEW next \in Runs, NEW o, Reloads(next, o)
    PROVE  /\ o \in Outcomes
           /\ o \in Taken => core' = next /\ (proxy' \in {0, ProxyAfterStart} \/ (proxy' = proxy /\ core # None))
           /\ o = "dead" => core' = None /\ proxy' = 0
           /\ o \in {"kept", "refused"} => core' = core /\ proxy' = proxy /\ pac' = pac
           /\ core' \in Runs \cup {None} /\ left' \in Runs \cup {None} /\ pac' \in BOOLEAN
           /\ proxy' \in {0} \cup Ports /\ faults' \in Nat
    <1>1. CASE Restarts(next, o)
        BY <1>1, RestartFacts DEF Outcomes, Taken
    <1>2. CASE o = "ok" /\ core # None /\ core' = next /\ UNCHANGED <<left, pac, proxy, faults>>
        BY <1>2 DEF Outcomes, Taken, Types, TypeOK
    <1>3. CASE o = "refused" /\ Fails(1) /\ UNCHANGED serving
        BY <1>3 DEF Outcomes, Taken, Types, TypeOK, Fails, serving
    <1>4. QED
        BY <1>1, <1>2, <1>3 DEF Reloads


LEMMA SaveVergeFacts ==
    ASSUME Types, verge'.data \in Verges, SaveVerge
    PROVE  /\ files' \in Files /\ faults' \in Nat /\ files'.clash = files.clash
           /\ files'.verge = verge'.data \/ "unsaved" \in drift'
           /\ drift' \subseteq {"ahead", "stayed", "astray", "crossed", "unsaved", "unsynced", "overtaken"}
           /\ drift' \ {"unsaved"} = ((drift \ {"unsynced"}) \cup Overtaken) \ {"unsaved"}
           /\ drift \ {"unsynced"} \subseteq drift'
    <1>1. Overtaken \subseteq {"overtaken"} /\ drift \subseteq {"ahead", "stayed", "astray", "crossed", "unsaved", "unsynced", "overtaken"}
        BY TypeFacts DEF Overtaken
    <1>2. CASE files' = [files EXCEPT !.verge = verge'.data] /\ drift' = (drift \ {"unsynced"}) \cup Overtaken /\ UNCHANGED faults
        BY <1>1, <1>2 DEF Types, TypeOK, Files
    <1>3. CASE Fails(1) /\ drift' = (drift \ {"unsynced"}) \cup Overtaken \cup {"unsaved"} /\ UNCHANGED files
        BY <1>1, <1>3 DEF Types, TypeOK, Files, Fails
    <1>4. QED
        BY <1>2, <1>3 DEF SaveVerge

LEMMA RestoreFacts ==
    ASSUME Types, NEW snapshot \in Files, RestoreFiles(snapshot)
    PROVE  /\ files' \in Files /\ faults' \in Nat
           /\ faults' = faults => files'.clash = snapshot.clash /\ files'.verge = snapshot.verge
    <1> DEFINE back == IF runtime.data # op.ran THEN [snapshot EXCEPT !.runtime = files.runtime] ELSE snapshot
    <1>1. back \in Files /\ back.clash = snapshot.clash /\ back.verge = snapshot.verge
        BY DEF Files, Types, TypeOK
    <1>2. CASE files' = back /\ UNCHANGED faults
        BY <1>1, <1>2 DEF Types, TypeOK
    <1>3. CASE Fails(1) /\ \E lost \in {"clash", "verge"} : files' = [back EXCEPT ![lost] = files[lost]]
        BY <1>1, <1>3 DEF Types, TypeOK, Fails, Files
    <1>4. QED
        BY <1>2, <1>3 DEF RestoreFiles

LEMMA ProceedFacts ==
    ASSUME Types, IsPatch, NEW ok \in BOOLEAN, Proceed(ok)
    PROVE  /\ op' \in PatchOps /\ op'.kind = "patch"
           /\ op'.patch = op.patch /\ op'.files = op.files /\ op'.ran = op.ran
           /\ op'.at = IF ok THEN "effect" ELSE "fail"
           /\ op'.todo = IF ok THEN op.todo \ {Effect} ELSE op.todo
    <1>1. op \in PatchOps
        BY OpFacts
    <1>2. QED
        BY <1>1 DEF Proceed, PatchOps, PatchPlaces, IsPatch

-----------------------------------------------------------------------------
(* The steps.  Each keeps the types, the control, and, while the application
   runs, the rest. *)

USE DEF IsPatch, IsPorts, IsDns, In, At, Crossed, Ahead, Applying, Restarted, Unsettled,
        layers, serving, world, start

(* Other programs and the provider change nothing the invariant is about. *)
LEMMA OthersKeep ==
    ASSUME IInv,
           \/ \E port \in Ports : OtherTakes(port)
           \/ \E text \in Profiles : ProfileChanges(text)
    PROVE  IInv'
    <1> USE DEF OtherTakes, ProfileChanges
    <1>1. Types'
        <2>1. taken' \subseteq Ports /\ profile' \in Profiles
            BY DEF IInv, Types, TypeOK
        <2>2. UNCHANGED <<clash, verge, runtime, files, core, left, faults, fallback, proxy, mode, pac, updating, syncs,
                          reload, phase, drift, retries, op>>
            OBVIOUS
        <2>3. QED
            BY <2>1, <2>2 DEF IInv, Types, TypeOK
    <1>2. Control'
        BY DEF IInv, Control
    <1>3. ASSUME phase # "down" PROVE Inner'
        BY <1>3 DEF IInv, Inner, Drafts, Staged, Borrowed, CoreRuns, Agreement, RuntimeMade, DnsAgreed, PortsKept,
                    ProxyNamed, FilesAgree, PortOf
    <1>4. QED
        BY <1>1, <1>2, <1>3 DEF IInv

(* A crash loses what was not saved, and what runs in this application. *)
LEMMA CrashKeeps ==
    ASSUME IInv, Crash \/ Quit
    PROVE  IInv'
    <1>1. phase' = "down" /\ core' = None /\ op' = Free /\ ~updating' /\ reload' = "no" /\ mode' = None /\ ~syncs'
        BY DEF Crash, Quit, Down, Nothing
    <1>2. Types'
        <2>1. /\ op' \in {Free} \cup PatchOps \cup PortOps \cup DnsOps /\ phase' \in {"down"} /\ retries' \in 0 .. MaxRetries
              /\ reload' \in {"no", "claimed", "staged"} /\ mode' \in Modes \cup {None} /\ core' \in Runs \cup {None}
            BY <1>1 DEF Crash, Quit, Down, MaxRetries
        <2>2. updating' \in BOOLEAN /\ syncs' \in BOOLEAN /\ pac' \in BOOLEAN
            BY Zenon DEF Crash, Quit, Down, Nothing
        <2>3. left' \in Runs \cup {None} /\ proxy' \in {0} \cup Ports
            BY DEF Crash, Quit, IInv, Types, TypeOK
        <2>4. /\ clash' \in [data : Clashes, draft : Clashes \cup {None}]
              /\ verge' \in [data : Verges, draft : Verges \cup {None}]
              /\ files' \in [clash : Clashes, verge : Verges, runtime : Runs \cup {None}]
            <3>1. /\ Commit(clash) \in [data : Clashes, draft : Clashes \cup {None}]
                  /\ Commit(verge) \in [data : Verges, draft : Verges \cup {None}]
                BY TypeFacts, ClashLaws, VergeLaws DEF LayerLaws, IInv
            <3>2. QED
                BY <3>1, TypeFacts DEF Crash, Quit, IInv, Types, TypeOK
        <2>5. UNCHANGED <<runtime, faults, fallback, taken, profile, drift>>
            BY DEF Crash, Quit
        <2>6. faults' \in Nat /\ fallback' \in {0} \cup Ports
            BY <2>5 DEF IInv, Types, TypeOK
        <2>7. runtime' \in [data : Runs \cup {None}, draft : Runs \cup {None}]
            BY <2>5 DEF IInv, Types, TypeOK
        <2>8. taken' \subseteq Ports /\ profile' \in Profiles 
            BY <2>5 DEF IInv, Types, TypeOK
        <2>9. drift' \subseteq {"ahead", "stayed", "astray", "crossed", "unsaved", "unsynced", "overtaken"}
            BY <2>5 DEF IInv, Types, TypeOK
        <2>10. QED
            BY <2>1, <2>2, <2>3, <2>4, <2>6, <2>7, <2>8, <2>9 DEF Types, TypeOK
    <1>3. Control'
        BY <1>1, PatchesAssumption DEF Free, Control, Crash, Quit, IInv, Drafts
    <1>4. QED
        BY <1>1, <1>2, <1>3 DEF IInv

(* The core is told its mode first; what it serves does not change. *)
LEMMA PatchModeKeeps ==
    ASSUME IInv, NEW m \in Modes, PatchMode(m)
    PROVE  IInv'
    <1> USE DEF PatchMode
    <1>1. core \in Runs /\ core' \in Runs /\ core' # None /\ Bare(core') = Bare(core) /\ PortOf(core') = PortOf(core)
        <2>1. core \in Runs /\ core' = [core EXCEPT !.mode = m]
            BY DEF IInv, Types, TypeOK
        <2>2. core' \in Runs
            BY <2>1 DEF Runs
        <2>3. Bare(core') = Bare(core) /\ core'.clash = core.clash /\ core'.fallback = core.fallback
            BY <2>1 DEF Runs, Bare
        <2>4. QED
            BY <2>1, <2>2, <2>3, PatchesAssumption DEF PortOf
    <1>2. Types'
        BY <1>1 DEF IInv, Types, TypeOK
    <1>3. Control'
        BY DEF IInv, Control
    <1>4. Inner'
        BY <1>1 DEF IInv, Inner, Drafts, Staged, Borrowed, CoreRuns, Agreement, RuntimeMade, DnsAgreed, PortsKept,
                    ProxyNamed, FilesAgree
    <1>5. QED
        BY <1>2, <1>3, <1>4 DEF IInv

(* Nobody stages settings while no operation holds the lock. *)
LEMMA AtRest ==
    ASSUME IInv, op = Free, phase # "down"
    PROVE  /\ clash.draft = None /\ Latest(clash) = clash.data
           /\ verge.draft = None /\ Latest(verge) = verge.data
           /\ ~IsPatch /\ ~IsPorts /\ ~IsDns
    <1>1. ~IsPatch /\ ~IsPorts /\ ~IsDns
        BY PatchesAssumption DEF Free
    <1>2. QED
        BY <1>1 DEF IInv, Inner, Drafts, Latest

(* The mode the core took is saved with whatever the clash layer holds. *)
LEMMA SaveModeKeeps ==
    ASSUME IInv, SaveMode
    PROVE  IInv'
    <1> DEFINE c == Patched(Latest(clash), Single("mode", mode))
    <1>1. c \in Clashes /\ Fixed(c) = Fixed(Latest(clash)) /\ c["mixed-port"] = Latest(clash)["mixed-port"]
        BY TypeFacts, ModeApart, ClashesAssumption DEF IInv, SaveMode, Types, TypeOK
    <1>2. /\ clash' \in [data : Clashes, draft : Clashes \cup {None}]
          /\ clash'.data = c /\ clash'.draft = None /\ Latest(clash') = c
        BY <1>1, ClashLaws DEF LayerLaws, IInv, SaveMode
    <1>3. /\ files' \in Files /\ faults' \in Nat
          /\ files'.verge = files.verge /\ (files'.clash = c \/ "unsaved" \in drift')
        BY <1>1, <1>2, TypeFacts DEF SaveMode, Files, Fails, IInv, Types, TypeOK
    <1>4. drift' \subseteq {"ahead", "stayed", "astray", "crossed", "unsaved", "unsynced", "overtaken"}
        BY TypeFacts DEF SaveMode, IInv
    <1>5. /\ drift \subseteq drift' /\ drift' \ {"crossed", "unsaved"} = drift \ {"crossed", "unsaved"}
          /\ IsPatch \/ IsPorts => "crossed" \in drift'
          /\ ~IsPatch /\ ~IsPorts => (Crossed <=> Crossed')
        BY DEF SaveMode
    <1>6. phase = "up" /\ ~(~IsPatch /\ ~IsPorts /\ clash.draft # None)
        BY DEF SaveMode, IInv, Control, Inner, Drafts
    <1>7. Types'
        BY <1>2, <1>3, <1>4 DEF SaveMode, IInv, Types, TypeOK, Files
    <1>8. Control'
        BY <1>5 DEF SaveMode, IInv, Control
    <1>9. Drafts' /\ Borrowed' /\ CoreRuns'
        BY <1>2, <1>5, <1>6 DEF SaveMode, IInv, Inner, Drafts, Borrowed, CoreRuns
    <1>10. Staged'
        BY <1>1, <1>2, <1>5, <1>6 DEF SaveMode, IInv, Inner, Staged
    <1>11. CASE IsPatch \/ IsPorts
        BY <1>5, <1>7, <1>8, <1>9, <1>10, <1>11 DEF IInv, Inner, Agreement
    <1>12. CASE ~IsPatch /\ ~IsPorts
        <2>1. clash.draft = None /\ Latest(clash) = clash.data /\ Fixed(c) = Fixed(clash.data)
              /\ c["mixed-port"] = clash.data["mixed-port"]
            BY <1>1, <1>6, <1>12 DEF Latest
        <2>2. ASSUME ~Crossed' PROVE RuntimeMade' /\ DnsAgreed'
            BY <1>2, <1>5, <1>6, <1>12, <2>1, <2>2 DEF SaveMode, IInv, Inner, Agreement, RuntimeMade, DnsAgreed, Made, Fresh
        <2>3. ASSUME ~Crossed' PROVE PortsKept' /\ ProxyNamed'
            BY <1>2, <1>5, <1>6, <1>12, <2>1, <2>3 DEF SaveMode, IInv, Inner, Agreement, PortsKept, ProxyNamed, PortOf
        <2>4. ASSUME ~Crossed', "unsaved" \notin drift' PROVE FilesAgree'
            BY <1>2, <1>3, <1>5, <1>6, <1>12, <2>1, <2>4 DEF SaveMode, IInv, Inner, Agreement, FilesAgree
        <2>5. QED
            BY <1>7, <1>8, <1>9, <1>10, <2>2, <2>3, <2>4 DEF IInv, Inner, Agreement
    <1>13. QED
        BY <1>11, <1>12

-----------------------------------------------------------------------------
(* The start *)

LEMMA LaunchKeeps ==
    ASSUME IInv, Launch
    PROVE  IInv'
    <1> USE DEF Launch, LoadClash, LoadVerge
    <1>1. Types
        BY DEF IInv
    <1>2. /\ clash'.data = files.clash /\ clash'.draft = None /\ verge'.data = files.verge /\ verge'.draft = None
          /\ clash' \in [data : Clashes, draft : Clashes \cup {None}]
          /\ verge' \in [data : Verges, draft : Verges \cup {None}]
        BY <1>1, TypeFacts, ClashLaws, VergeLaws DEF LayerLaws
    <1>3. /\ runtime'.data = None /\ runtime'.draft = None
          /\ runtime' \in [data : Runs \cup {None}, draft : Runs \cup {None}]
        BY DEF Layer
    <1>4. op = Free /\ op' = Free /\ core' = None /\ reload' = "no" /\ phase' = "tun"
        BY DEF IInv, Control
    <1>5. ~IsPatch' /\ ~IsPorts' /\ ~IsDns'
        BY <1>4, PatchesAssumption DEF Free
    <1>6. Types'
        BY <1>1, <1>2, <1>3 DEF Types, TypeOK
    <1>7. Control'
        BY <1>3, <1>4, <1>5 DEF IInv, Control
    <1>8. Drafts' /\ Staged' /\ Borrowed' /\ CoreRuns'
        BY <1>2, <1>3, <1>4, <1>5 DEF Drafts, Staged, Borrowed, CoreRuns
    <1>9. Agreement'
        BY <1>2, <1>3, <1>4, <1>5 DEF Agreement, RuntimeMade, DnsAgreed, PortsKept, ProxyNamed, FilesAgree, Made, Served, DnsOf
    <1>10. QED
        BY <1>6, <1>7, <1>8, <1>9 DEF IInv, Inner

(* Only the preference changes. *)
LEMMA ReconcileTunKeeps ==
    ASSUME IInv, ReconcileTun
    PROVE  IInv'
    <1>1. Types /\ op = Free /\ op' = Free /\ core = None /\ runtime.data = None /\ reload = "no" /\ fallback = 0
        BY DEF ReconcileTun, IInv, Control, Inner, Drafts
    <1>2. phase = "tun" /\ phase' = "resolve" /\ ~IsPatch' /\ ~IsPorts' /\ ~IsDns'
        BY <1>1, PatchesAssumption DEF Free, ReconcileTun
    <1> DEFINE v == [verge.data EXCEPT !.tun = FALSE]
    <1>3. v \in Verges
        BY <1>1, TypeFacts DEF Verges
    <1>4. CASE verge' = Layer(v) /\ SaveVerge
        <2>1. /\ verge' \in [data : Verges, draft : Verges \cup {None}]
              /\ verge'.data = v /\ verge'.draft = None
            BY <1>1, <1>3, <1>4, VergeLaws DEF LayerLaws
        <2>2. /\ files' \in Files /\ faults' \in Nat /\ files'.clash = files.clash
              /\ files'.verge = verge'.data \/ "unsaved" \in drift'
              /\ drift' \subseteq {"ahead", "stayed", "astray", "crossed", "unsaved", "unsynced", "overtaken"}
              /\ (Crossed' <=> Crossed) /\ (Ahead' <=> Ahead) /\ ("unsaved" \in drift => "unsaved" \in drift')
              /\ ("stayed" \in drift' <=> "stayed" \in drift) /\ ("astray" \in drift' <=> "astray" \in drift)
            BY <1>1, <1>3, <1>4, <2>1, SaveVergeFacts DEF Overtaken
        <2>3. Types'
            BY <1>1, <1>4, <2>1, <2>2 DEF Types, TypeOK, ReconcileTun, Files
        <2>4. Control'
            BY <1>1, <1>2, <2>2 DEF IInv, Control, ReconcileTun
        <2>5. Inner'
            BY <1>1, <1>2, <2>1, <2>2 DEF IInv, Inner, Drafts, Staged, Borrowed, CoreRuns, Agreement, RuntimeMade, DnsAgreed, PortsKept, ProxyNamed, FilesAgree, Made, Served, DnsOf, ReconcileTun
        <2>6. QED
            BY <2>3, <2>4, <2>5 DEF IInv
    <1>5. CASE UNCHANGED <<verge, files, faults, drift>>
        <2>1. Types'
            BY <1>1, <1>5 DEF Types, TypeOK, ReconcileTun
        <2>2. Control'
            BY <1>1, <1>2, <1>5 DEF IInv, Control, ReconcileTun
        <2>3. Inner'
            BY <1>1, <1>2, <1>5 DEF IInv, Inner, Drafts, Staged, Borrowed, CoreRuns, Agreement, RuntimeMade, DnsAgreed, PortsKept, ProxyNamed, FilesAgree, Made, Served, DnsOf, ReconcileTun
        <2>4. QED
            BY <2>1, <2>2, <2>3 DEF IInv
    <1>6. QED
        BY <1>4, <1>5 DEF ReconcileTun

(* The search for a port stays within what may be borrowed.
   (find_next_available_port) *)
LEMMA CandidatesArePorts ==
    ASSUME NEW from \in Ports, NEW port \in Candidates(from)
    PROVE  port \in Ports /\ port # 0
    <1> DEFINE span == MaxPort - MinPort + 1
               base == IF from < MinPort THEN MaxPort ELSE from
    <1>1. PICK k \in 1 .. span : port = MinPort + ((base - MinPort + k) % span)
        BY DEF Candidates
    <1>2. MinPort \in Nat /\ MaxPort \in Nat /\ 1 <= MinPort /\ MinPort <= MaxPort /\ span \in Nat /\ span > 0
        BY PatchesAssumption DEF Ports
    <1>3. base - MinPort + k \in Nat
        BY <1>2 DEF Ports
    <1>4. (base - MinPort + k) % span \in 0 .. span - 1
        BY <1>2, <1>3
    <1>5. QED
        BY <1>1, <1>2, <1>4 DEF Ports

(* A start stands alone: nothing is staged and no operation runs. *)
LEMMA AtStart ==
    ASSUME IInv, phase \notin {"down", "up"}
    PROVE  /\ Types /\ op = Free /\ ~IsPatch /\ ~IsPorts /\ ~IsDns /\ core = None /\ reload = "no" /\ ~syncs
           /\ clash.draft = None /\ Latest(clash) = clash.data /\ verge.draft = None /\ Latest(verge) = verge.data
           /\ runtime.draft = None /\ Latest(runtime) = runtime.data
           /\ mode = None /\ ~updating
    <1>1. op = Free /\ core = None /\ reload = "no" /\ ~syncs /\ mode = None
        BY DEF IInv, Control
    <1>2. QED
        BY <1>1, AtRest DEF IInv, Control, Inner, Drafts, Latest

(* A runtime a start makes is made from the settings, so it keeps what the
   settings decide. *)
LEMMA StartRuntime ==
    ASSUME IInv, phase \notin {"down", "up"}, NEW run \in Runs,
           runtime' = Layer(run), fallback' = run.fallback,
           Fresh(run, clash.data, verge.data), MixedOf(run) = clash.data["mixed-port"], run.mode = None,
           files' = [files EXCEPT !.runtime = run],
           UNCHANGED <<clash, verge, serving, world, updating, op, reload, mode, syncs>>,
           drift' \subseteq drift \cup {"unsynced"}, drift \subseteq drift',
           phase' \in {"sync"} \/ (phase' = "core" /\ "unsynced" \in drift'),
           faults' \in Nat, retries' \in 0 .. MaxRetries
    PROVE  IInv'
    <1>1. /\ Types /\ op = Free /\ ~IsPatch /\ ~IsPorts /\ ~IsDns /\ core = None /\ reload = "no"
          /\ clash.draft = None /\ Latest(clash) = clash.data /\ verge.draft = None /\ Latest(verge) = verge.data
        BY AtStart
    <1>2. /\ runtime' \in [data : Runs \cup {None}, draft : Runs \cup {None}]
          /\ runtime'.data = run /\ runtime'.draft = None /\ run # None
        BY <1>1, RuntimeLaws, PatchesAssumption DEF LayerLaws
    <1>3. /\ files' \in Files /\ files'.clash = files.clash /\ files'.verge = files.verge
          /\ fallback' \in {0} \cup Ports
          /\ drift' \subseteq {"ahead", "stayed", "astray", "crossed", "unsaved", "unsynced", "overtaken"}
        BY <1>1, TypeFacts DEF Files, Runs
    <1>4. Types'
        BY <1>1, <1>2, <1>3 DEF Types, TypeOK, Files
    <1>5. Control'
        BY <1>1, <1>2 DEF IInv, Control
    <1>6. Made(run, clash.data, verge.data) /\ Asks(run, verge.data)
        BY FreshIsMade
    <1>7. Drafts' /\ Staged' /\ Borrowed' /\ CoreRuns'
        BY <1>1, <1>2 DEF IInv, Inner, Drafts, Staged, Borrowed, CoreRuns
    <1>8. RuntimeMade' /\ DnsAgreed'
        BY <1>1, <1>2, <1>6 DEF RuntimeMade, DnsAgreed
    <1>9. PortsKept' /\ ProxyNamed' /\ (~Crossed /\ "unsaved" \notin drift => FilesAgree')
        BY <1>1, <1>2, <1>3 DEF IInv, Inner, Agreement, PortsKept, ProxyNamed, FilesAgree
    <1>10. QED
        BY <1>4, <1>5, <1>7, <1>8, <1>9 DEF IInv, Inner, Agreement

(* Nothing is made, and the start goes on. *)
LEMMA StartGoesOn ==
    ASSUME IInv, phase \notin {"down", "up"},
           phase' \in {"up"} \/ (phase = "resolve" /\ phase' = "generate"),
           UNCHANGED <<layers, files, fallback, serving, world, updating, op, reload, mode, syncs, drift>>,
           phase = "sync" => Served(runtime.data, verge.data),
           faults' \in Nat, retries' \in 0 .. MaxRetries
    PROVE  IInv'
    <1>1. /\ Types /\ op = Free /\ ~IsPatch /\ ~IsPorts /\ ~IsDns /\ core = None /\ reload = "no" /\ ~syncs /\ ~updating
          /\ runtime.draft = None
        BY AtStart
    <1>2. Types'
        BY <1>1 DEF Types, TypeOK
    <1>3. Control'
        BY <1>1 DEF IInv, Control
    <1>4. Inner'
        BY <1>1 DEF IInv, Inner, Drafts, Staged, Borrowed, CoreRuns, Agreement, RuntimeMade, DnsAgreed, PortsKept,
                    ProxyNamed, FilesAgree
    <1>5. QED
        BY <1>2, <1>3, <1>4 DEF IInv

LEMMA BorrowFacts ==
    ASSUME Types, NEW port \in Ports, Borrow(port), clash.draft = None, verge.draft = None
    PROVE  \E run \in Runs :
             /\ runtime' = Layer(run) /\ fallback' = run.fallback /\ files' = [files EXCEPT !.runtime = run]
             /\ Fresh(run, clash.data, verge.data) /\ MixedOf(run) = clash.data["mixed-port"] /\ run.mode = None
    <1> DEFINE run == Candidate(Latest(clash), Latest(verge), port, FALSE)
    <1>1. Latest(clash) = clash.data /\ Latest(verge) = verge.data
        BY DEF Latest
    <1>2. run \in Runs
        BY TypeFacts DEF Candidate, Runs, Types, TypeOK
    <1>3. run.fallback = port /\ run.mode = None /\ Fresh(run, clash.data, verge.data) /\ MixedOf(run) = clash.data["mixed-port"]
        BY <1>1 DEF Candidate, Fresh, MixedOf
    <1>4. QED
        BY <1>2, <1>3 DEF Borrow

LEMMA SelectedIsPort ==
    ASSUME Types
    PROVE  Selected \in Ports
    BY TypeFacts, ClashesAssumption DEF Selected, Types, TypeOK

LEMMA ResolvePortKeeps ==
    ASSUME IInv, ResolvePort
    PROVE  IInv'
    <1>1. Types /\ phase = "resolve" /\ clash.draft = None /\ verge.draft = None
        BY AtStart DEF ResolvePort
    <1>2. UNCHANGED <<clash, verge, serving, world, updating, op, reload, mode, syncs, retries, drift>>
        BY DEF ResolvePort
    <1>3. faults' \in Nat /\ retries' \in 0 .. MaxRetries
        BY <1>1, <1>2 DEF ResolvePort, Fails, Types, TypeOK
    <1>4. CASE \E port \in Candidates(Selected) : Borrow(port) /\ phase' = "sync"
        <2>1. PICK port \in Ports : Borrow(port) /\ phase' = "sync"
            BY <1>1, <1>4, CandidatesArePorts, SelectedIsPort
        <2>2. QED
            BY <1>1, <1>2, <1>3, <2>1, BorrowFacts, StartRuntime
    <1>5. CASE UNCHANGED <<runtime, files, fallback>> /\ phase' \in {"generate", "up"}
        BY <1>1, <1>2, <1>3, <1>5, StartGoesOn
    <1>6. QED
        BY <1>4, <1>5 DEF ResolvePort

LEMMA GenerateAtStartKeeps ==
    ASSUME IInv, GenerateAtStart
    PROVE  IInv'
    <1>1. /\ Types /\ phase = "generate" /\ fallback = 0
          /\ Latest(clash) = clash.data /\ Latest(verge) = verge.data
        BY AtStart DEF GenerateAtStart, IInv, Inner, Drafts
    <1>2. PICK fails \in BOOLEAN, valid \in BOOLEAN :
            /\ IF valid THEN UNCHANGED faults ELSE Fails(1)
            /\ LET next == IF valid THEN Now(fails) ELSE Minimal IN
               runtime' = Layer(next) /\ files' = [files EXCEPT !.runtime = next]
        BY DEF GenerateAtStart
    <1> DEFINE next == IF valid THEN Now(fails) ELSE Minimal
    <1>3. /\ next \in Runs /\ next.fallback = 0 /\ next.mode = None
          /\ Fresh(next, clash.data, verge.data) /\ MixedOf(next) = clash.data["mixed-port"]
        <2>1. CASE valid
            BY <1>1, <2>1, NowFacts
        <2>2. CASE ~valid
            BY <1>1, <2>2, NowFacts DEF Minimal, Runs, Fresh, MixedOf
        <2>3. QED
            BY <2>1, <2>2
    <1>4. faults' \in Nat /\ retries' \in 0 .. MaxRetries
        BY <1>1, <1>2 DEF GenerateAtStart, Fails, Types, TypeOK
    <1>5. QED
        BY <1>1, <1>2, <1>3, <1>4, StartRuntime DEF GenerateAtStart

(* What a synchronisation does: afterwards the settings say of the override
   what the runtime has of it, if they had not moved on before.
   (sync_dns_override, apply_to) *)
LEMMA SynchroniseFacts ==
    ASSUME Types, verge.draft = None, Synchronise
    PROVE  /\ verge' \in [data : Verges, draft : Verges \cup {None}] /\ verge'.draft = None
           /\ Plain(verge'.data) = Plain(verge.data) /\ verge'.data.mixed = verge.data.mixed
           /\ Served(runtime.data, verge.data) \/ Asks(runtime.data, verge.data) => Served(runtime.data, verge'.data)
           /\ verge' = verge \/ reload # "staged" \/ "overtaken" \in drift'
           /\ files' \in Files /\ faults' \in Nat /\ files'.clash = files.clash
           /\ files.verge = verge.data => files'.verge = verge'.data \/ "unsaved" \in drift'
           /\ drift' \subseteq {"ahead", "stayed", "astray", "crossed", "unsaved", "unsynced", "overtaken"}
           /\ drift' \ {"unsynced", "unsaved", "overtaken"} = drift \ {"unsynced", "unsaved", "overtaken"}
           /\ drift \ {"unsynced"} \subseteq drift'
    <1> DEFINE state == DnsOf(runtime.data)
               v == SyncedVerge(state, verge.data)
    <1>1. verge.data \in Verges /\ runtime.data \in Runs \cup {None}
        BY TypeFacts
    <1>2. state # None =>
            /\ runtime.data \in Runs
            /\ state.requested = runtime.data.verge.dns /\ state.confirmation = runtime.data.verge.confirmed
            /\ state.enabled \in BOOLEAN
        <2>1. SUFFICES ASSUME state # None
                       PROVE  /\ runtime.data \in Runs
                              /\ state.requested = runtime.data.verge.dns
                              /\ state.confirmation = runtime.data.verge.confirmed
                              /\ state.enabled \in BOOLEAN
            OBVIOUS
        <2>2. runtime.data \in Runs /\ state = DnsOverrideState(Text[runtime.data.profile], runtime.data.verge)
            BY <1>1, <2>1 DEF DnsOf
        <2>3. /\ state.requested = runtime.data.verge.dns /\ state.confirmation = runtime.data.verge.confirmed
            BY <2>2 DEF DnsOverrideState
        <2>4. state.enabled \in BOOLEAN
            BY <2>2 DEF DnsOverrideState
        <2>5. QED
            BY <2>2, <2>3, <2>4
    <1>3. CASE state # None /\ Applies(state, verge.data)
        <2>1. v \in Verges /\ v.dns = state.enabled /\ v.mixed = verge.data.mixed
            <3>1. Absent \in Confirmations
                BY DEF Confirmations
            <3>2. QED
                BY <1>1, <1>2, <1>3, <3>1 DEF SyncedVerge, Verges
        <2>2. Plain(v) = Plain(verge.data)
            BY <1>1 DEF SyncedVerge, Verges, Plain
        <2>3. verge' = Layer(v) /\ SaveVerge
            BY <1>3 DEF Synchronise
        <2>4. /\ verge' \in [data : Verges, draft : Verges \cup {None}]
              /\ verge'.data = v /\ verge'.draft = None
            BY <2>1, <2>3, VergeLaws DEF LayerLaws
        <2>5. Served(runtime.data, v)
            BY <2>1 DEF Served
        <2>6. QED
            BY <1>3, <2>1, <2>2, <2>3, <2>4, <2>5, SaveVergeFacts DEF Overtaken
    <1>4. CASE ~(state # None /\ Applies(state, verge.data))
        <2>1. drift' = drift \ {"unsynced"} /\ UNCHANGED <<verge, files, faults>>
            BY <1>4 DEF Synchronise
        <2>2. Asks(runtime.data, verge.data) => Served(runtime.data, verge.data)
            <3>1. SUFFICES ASSUME Asks(runtime.data, verge.data), state # None PROVE state.enabled = verge.data.dns
                BY DEF Served
            <3>2. ~Applies(state, verge.data)
                BY <1>4, <3>1
            <3>3. verge.data.dns = state.requested /\ verge.data.confirmed = state.confirmation
                BY <1>2, <3>1, PatchesAssumption DEF Asks
            <3>4. QED
                BY <3>2, <3>3 DEF Applies
        <2>3. QED
            BY <2>1, <2>2, TypeFacts DEF Types, TypeOK
    <1>5. QED
        BY <1>3, <1>4

LEMMA SyncAtStartKeeps ==
    ASSUME IInv, SyncAtStart
    PROVE  IInv'
    <1>1. /\ Types /\ op = Free /\ ~IsPatch /\ ~IsPorts /\ ~IsDns /\ core = None /\ reload = "no" /\ ~syncs /\ ~updating
          /\ runtime.draft = None /\ verge.draft = None /\ clash.draft = None
        BY AtStart DEF SyncAtStart
    <1>2. Synchronise /\ phase = "sync" /\ phase' = "core"
          /\ UNCHANGED <<clash, runtime, fallback, serving, world, updating, op, reload, mode, syncs, retries>>
        BY DEF SyncAtStart
    <1>3. /\ verge' \in [data : Verges, draft : Verges \cup {None}] /\ verge'.draft = None
          /\ Plain(verge'.data) = Plain(verge.data)
          /\ Served(runtime.data, verge.data) \/ Asks(runtime.data, verge.data) => Served(runtime.data, verge'.data)
          /\ files' \in Files /\ faults' \in Nat /\ files'.clash = files.clash
          /\ files.verge = verge.data => files'.verge = verge'.data \/ "unsaved" \in drift'
          /\ drift' \subseteq {"ahead", "stayed", "astray", "crossed", "unsaved", "unsynced", "overtaken"}
          /\ drift' \ {"unsynced", "unsaved", "overtaken"} = drift \ {"unsynced", "unsaved", "overtaken"}
          /\ drift \ {"unsynced"} \subseteq drift'
        BY <1>1, <1>2, SynchroniseFacts
    <1>4. Types'
        BY <1>1, <1>2, <1>3 DEF Types, TypeOK, Files
    <1>5. Control'
        BY <1>1, <1>2, <1>3 DEF IInv, Control
    <1>6. Drafts' /\ Staged' /\ Borrowed' /\ CoreRuns'
        BY <1>1, <1>2, <1>3 DEF IInv, Inner, Drafts, Staged, Borrowed, CoreRuns
    <1>7. ASSUME ~Crossed' PROVE RuntimeMade' /\ DnsAgreed' /\ PortsKept' /\ ProxyNamed'
        BY <1>1, <1>2, <1>3, <1>7 DEF IInv, Inner, Agreement, RuntimeMade, DnsAgreed, PortsKept, ProxyNamed, Made
    <1>8. ASSUME ~Crossed', "unsaved" \notin drift' PROVE FilesAgree'
        BY <1>1, <1>2, <1>3, <1>8 DEF IInv, Inner, Agreement, FilesAgree
    <1>9. QED
        BY <1>4, <1>5, <1>6, <1>7, <1>8 DEF IInv, Inner, Agreement

LEMMA BareIsSame ==
    ASSUME NEW run \in Runs, run.mode = None
    PROVE  Bare(run) = run
    BY DEF Bare, Runs

(* The port desired is the one a runtime made from the settings names. *)
LEMMA DesiredIsServed ==
    ASSUME Types, NEW run \in Runs, run.fallback = fallback, MixedOf(run) = Latest(verge).mixed
    PROVE  Desired = PortOf(run)
    BY DEF Desired, PortOf, MixedOf

LEMMA StartCoreKeeps ==
    ASSUME IInv, StartCore
    PROVE  IInv'
    <1>1. /\ Types /\ op = Free /\ ~IsPatch /\ ~IsPorts /\ ~IsDns /\ core = None /\ reload = "no" /\ ~syncs /\ ~updating
          /\ runtime.draft = None /\ verge.draft = None /\ clash.draft = None /\ Latest(verge) = verge.data
          /\ runtime.data \in Runs /\ runtime.data # None /\ runtime.data.mode = None
        <2>1. phase = "core"
            BY DEF StartCore
        <2>2. Types /\ runtime.data # None /\ runtime.data.mode = None
            BY <2>1 DEF IInv, Inner, Drafts
        <2>3. QED
            BY <2>1, <2>2, AtStart, TypeFacts
    <1>2. PICK o \in {"ok", "late", "dead"} :
            /\ Restarts(runtime.data, o)
            /\ phase' = IF o = "dead" /\ retries < MaxRetries THEN "retry" ELSE "up"
        BY DEF StartCore
    <1>3. /\ phase = "core"
          /\ UNCHANGED <<layers, files, fallback, world, updating, op, reload, mode, syncs, retries, drift>>
        BY DEF StartCore
    <1>4. /\ o \in Taken => core' = runtime.data /\ proxy' \in {0, ProxyAfterStart}
          /\ o = "dead" => core' = None /\ proxy' = 0
          /\ core' \in Runs \cup {None} /\ left' \in Runs \cup {None} /\ pac' \in BOOLEAN
          /\ proxy' \in {0} \cup Ports /\ faults' \in Nat
        BY <1>1, <1>2, RestartFacts
    <1>5. phase' \in {"retry", "up"} /\ (core' # None => phase' = "up" /\ core' = runtime.data /\ Bare(core') = runtime.data)
        BY <1>1, <1>2, <1>4, BareIsSame DEF Taken
    <1>6. Types'
        BY <1>1, <1>3, <1>4, <1>5 DEF Types, TypeOK
    <1>7. Control'
        BY <1>1, <1>2, <1>3, <1>5 DEF IInv, Control
    <1>8. Drafts' /\ Staged' /\ Borrowed' /\ CoreRuns'
        BY <1>1, <1>3, <1>5 DEF IInv, Inner, Drafts, Staged, Borrowed, CoreRuns
    <1>10. ASSUME ~Crossed, "astray" \notin drift, core' # None, proxy' # 0, clash.data["mixed-port"] = verge.data.mixed
           PROVE  proxy' = PortOf(core')
        <2>1. MixedOf(runtime.data) = clash.data["mixed-port"] /\ runtime.data.fallback = fallback
            BY <1>1, <1>3, <1>10 DEF IInv, Inner, Agreement, PortsKept, Borrowed
        <2>2. Desired = PortOf(runtime.data)
            BY <1>1, <1>10, <2>1, DesiredIsServed
        <2>3. QED
            BY <1>2, <1>4, <1>5, <1>10, <2>2, <1>1, ProxyFacts DEF Taken
    <1>11. ASSUME ~Crossed' PROVE RuntimeMade' /\ DnsAgreed' /\ PortsKept' /\ ProxyNamed'
        BY <1>1, <1>3, <1>10, <1>11 DEF IInv, Inner, Agreement, RuntimeMade, DnsAgreed, PortsKept, ProxyNamed
    <1>12. ASSUME ~Crossed', "unsaved" \notin drift' PROVE FilesAgree'
        BY <1>1, <1>3, <1>12 DEF IInv, Inner, Agreement, FilesAgree
    <1>13. QED
        BY <1>6, <1>7, <1>8, <1>11, <1>12 DEF IInv, Inner, Agreement

LEMMA RetryPortKeeps ==
    ASSUME IInv, RetryPort
    PROVE  IInv'
    <1>1. Types /\ phase = "retry" /\ clash.draft = None /\ verge.draft = None
        BY AtStart DEF RetryPort
    <1>2. UNCHANGED <<clash, verge, serving, world, updating, op, reload, mode, syncs>>
        BY DEF RetryPort
    <1>3. CASE /\ Conflict
               /\ \E port \in Candidates(Selected) : Borrow(port)
               /\ phase' = "core" /\ retries' = retries + 1
               /\ drift' = drift \cup {"unsynced"}
               /\ UNCHANGED faults
        <2>1. PICK port \in Ports : Borrow(port)
            BY <1>1, <1>3, CandidatesArePorts, SelectedIsPort
        <2>2. faults' \in Nat /\ retries' \in 0 .. MaxRetries
            BY <1>1, <1>3 DEF IInv, Control, Types, TypeOK, MaxRetries
        <2>3. QED
            BY <1>1, <1>2, <1>3, <2>1, <2>2, BorrowFacts, StartRuntime
    <1>4. CASE /\ IF Conflict /\ Candidates(Selected) # {} THEN Fails(1) ELSE UNCHANGED faults
               /\ phase' = "up"
               /\ UNCHANGED <<runtime, files, fallback, retries, drift>>
        <2>1. faults' \in Nat /\ retries' \in 0 .. MaxRetries
            BY <1>1, <1>4 DEF Types, TypeOK, Fails
        <2>2. QED
            BY <1>1, <1>2, <1>4, <2>1, StartGoesOn
    <1>5. QED
        BY <1>3, <1>4 DEF RetryPort

-----------------------------------------------------------------------------
(* Patches: feat/executor.rs *)

LEMMA PatchFacts ==
    ASSUME NEW patch \in PatchSet \cup {TunOff}
    PROVE  \/ /\ patch.layer = "verge" /\ DOMAIN patch.set \subseteq {"socks", "tun", "controller", "sysproxy"}
              /\ \A field \in DOMAIN patch.set : patch.set[field] \in BOOLEAN
           \/ /\ patch.layer = "clash" /\ patch.layer # "verge" /\ patch \in PatchSet
              /\ DOMAIN patch.set \cap {"mixed-port", "socks-port"} = {}
    <1>1. CASE patch \in PatchSet
        BY <1>1, PatchesAssumption
    <1>2. CASE patch = TunOff
        <2>1. patch.layer = "verge" /\ patch.set = [tun |-> FALSE]
            BY <1>2 DEF TunOff
        <2>2. DOMAIN patch.set = {"tun"} /\ patch.set["tun"] = FALSE
            BY <2>1
        <2>3. \A field \in DOMAIN patch.set : patch.set[field] \in BOOLEAN
            BY <2>2
        <2>4. QED
            BY <2>1, <2>2, <2>3
    <1>3. QED
        BY <1>1, <1>2

(* What a patch leaves to the core is one of the effects that bring it there.
   (determine_update_flags) *)
LEMMA EffectsFacts ==
    ASSUME NEW patch \in PatchSet \cup {TunOff}
    PROVE  /\ Effects(patch) \in SUBSET Kinds
           /\ Effects(patch) \cap Config = {} => patch.layer = "verge" /\ DOMAIN patch.set \subseteq {"sysproxy"}
    <1>1. CASE patch.layer = "verge"
        BY <1>1, PatchFacts DEF Effects, VergeEffects, Kinds, Config
    <1>2. CASE patch.layer # "verge"
        BY <1>2 DEF Effects, ClashEffects, Kinds, Config
    <1>3. QED
        BY <1>1, <1>2

(* The effects run in their order, and "none" is said when none is left. *)
LEMMA EffectFacts ==
    ASSUME Types, IsPatch
    PROVE  IF op.todo = {} THEN Effect = "none" ELSE Effect \in op.todo
    <1>1. op.todo \subseteq Kinds
        BY OpFacts DEF PatchOps
    <1>2. SUFFICES ASSUME op.todo # {} PROVE Effect \in op.todo
        BY DEF Effect
    <1>3. \E e \in op.todo : \A f \in op.todo : Order[e] <= Order[f]
        <2>1. /\ Order["RestartCore"] = 1 /\ Order["ClashConfig"] = 2 /\ Order["SystemProxy"] = 3 /\ Order["Tray"] = 4
            BY DEF Order
        <2>2. CASE "RestartCore" \in op.todo
            BY <1>1, <2>1, <2>2 DEF Kinds, Config
        <2>3. CASE "RestartCore" \notin op.todo /\ "ClashConfig" \in op.todo
            BY <1>1, <2>1, <2>3 DEF Kinds, Config
        <2>4. CASE op.todo \cap Config = {} /\ "SystemProxy" \in op.todo
            BY <1>1, <2>1, <2>4 DEF Kinds, Config
        <2>5. CASE op.todo = {"Tray"}
            BY <2>1, <2>5
        <2>6. QED
            BY <1>1, <1>2, <2>2, <2>3, <2>4, <2>5 DEF Kinds, Config
    <1>4. QED
        BY <1>2, <1>3 DEF Effect

(* No update runs, so nothing is staged but by the operation that holds the lock. *)
LEMMA AtLeisure ==
    ASSUME IInv, ~updating, phase = "up"
    PROVE  /\ Types /\ Inner /\ ~IsPatch /\ ~IsPorts /\ ~At("dns", "apply") /\ reload = "no"
           /\ runtime.draft = None /\ Latest(runtime) = runtime.data
           /\ clash.draft = None /\ Latest(clash) = clash.data
    BY DEF IInv, Control, Inner, Drafts, Latest

LEMMA BeginKeeps ==
    ASSUME IInv, NEW patch \in PatchSet \cup {TunOff}, Begin(patch), faults' \in Nat
    PROVE  IInv'
    <1> USE DEF Begin
    <1>1. /\ Types /\ Inner /\ phase = "up" /\ phase' = "up" /\ ~IsPatch /\ ~IsPorts /\ ~IsDns /\ op = Free /\ reload = "no"
          /\ ~updating /\ updating' = TRUE
          /\ runtime.draft = None /\ clash.draft = None /\ verge.draft = None
          /\ Latest(clash) = clash.data /\ Latest(verge) = verge.data
        BY AtLeisure, AtRest
    <1>2. /\ op' \in PatchOps /\ op'.kind = "patch" /\ op'.at = "effect" /\ op'.patch = patch /\ op'.todo = Effects(patch)
          /\ op'.files = files /\ op'.ran = runtime.data
        BY <1>1, TypeFacts, EffectsFacts DEF PatchOps, PatchPlaces
    <1>3. IsPatch' /\ ~IsPorts' /\ ~IsDns'
        BY <1>2
    <1>4. /\ clash' \in [data : Clashes, draft : Clashes \cup {None}] /\ clash'.data = clash.data
          /\ verge' \in [data : Verges, draft : Verges \cup {None}] /\ verge'.data = verge.data
          /\ IF patch.layer = "verge" THEN clash'.draft = None ELSE verge'.draft = None
          /\ Latest(clash')["mixed-port"] = clash.data["mixed-port"]
          /\ LET v == Latest(verge') IN
             v.mixed = verge.data.mixed /\ v.dns = verge.data.dns /\ v.confirmed = verge.data.confirmed
          /\ Effects(patch) \cap Config = {} => Latest(clash') = clash.data /\ Plain(Latest(verge')) = Plain(verge.data)
        <2>1. CASE patch.layer = "verge"
            <3> DEFINE v == Patched(verge.data, patch.set)
            <3>1. v \in Verges /\ v.mixed = verge.data.mixed /\ v.dns = verge.data.dns /\ v.confirmed = verge.data.confirmed
                BY <1>1, <2>1, PatchFacts, TypeFacts, VergePatched
            <3>2. /\ verge' \in [data : Verges, draft : Verges \cup {None}]
                  /\ verge'.data = verge.data /\ Latest(verge') = v /\ UNCHANGED clash
                BY <1>1, <2>1, <3>1, VergeLaws DEF LayerLaws
            <3>3. ASSUME DOMAIN patch.set \subseteq {"sysproxy"} PROVE Plain(v) = Plain(verge.data)
                <4>1. verge.data \in Verges
                    BY <1>1, TypeFacts
                <4>2. /\ v.socks = verge.data.socks /\ v.tun = verge.data.tun /\ v.controller = verge.data.controller
                    BY <3>3, <4>1 DEF Patched, Over, Verges
                <4>3. QED
                    BY <3>1, <4>1, <4>2 DEF Plain, Verges
            <3>4. QED
                BY <1>1, <2>1, <3>1, <3>2, <3>3, EffectsFacts DEF Types, TypeOK
        <2>2. CASE patch.layer # "verge"
            <3> DEFINE c == Patched(clash.data, patch.set)
            <3>1. patch \in PatchSet /\ patch.layer = "clash" /\ "mixed-port" \notin DOMAIN patch.set
                BY <2>2, PatchFacts
            <3>2. clash.data \in Clashes /\ "mixed-port" \in DOMAIN clash.data
                BY <1>1, TypeFacts, ClashesAssumption DEF ControlKeys
            <3>3. c \in Clashes /\ c["mixed-port"] = clash.data["mixed-port"]
                <4>1. c["mixed-port"] = clash.data["mixed-port"]
                    BY <3>1, <3>2 DEF Patched, Over
                <4>2. c \in Clashes
                    BY <3>1, <3>2, ClashesAssumption
                <4>3. QED
                    BY <4>1, <4>2
            <3>4. /\ clash' \in [data : Clashes, draft : Clashes \cup {None}]
                  /\ clash'.data = clash.data /\ Latest(clash') = c /\ UNCHANGED verge
                BY <1>1, <2>2, <3>3, ClashLaws DEF LayerLaws
            <3>5. QED
                BY <1>1, <2>2, <3>3, <3>4, EffectsFacts DEF Types, TypeOK
        <2>3. QED
            BY <2>1, <2>2
    <1>5. Types'
        BY <1>1, <1>2, <1>4 DEF Types, TypeOK
    <1>6. Control'
        BY <1>1, <1>2, <1>3 DEF IInv, Control
    <1>7. Drafts' /\ Staged' /\ Borrowed' /\ CoreRuns'
        BY <1>1, <1>2, <1>3, <1>4 DEF Inner, Drafts, Staged, Borrowed, CoreRuns
    <1>8. ASSUME ~Crossed' PROVE RuntimeMade' /\ DnsAgreed'
        BY <1>1, <1>2, <1>3, <1>4, <1>8 DEF Inner, Agreement, RuntimeMade, DnsAgreed, Made
    <1>9. ASSUME ~Crossed' PROVE PortsKept' /\ ProxyNamed'
        BY <1>1, <1>2, <1>3, <1>4, <1>9 DEF Inner, Agreement, PortsKept, ProxyNamed
    <1>10. ASSUME ~Crossed', "unsaved" \notin drift' PROVE FilesAgree'
        BY <1>1, <1>2, <1>3, <1>4, <1>10 DEF Inner, Agreement, FilesAgree
    <1>11. QED
        BY <1>5, <1>6, <1>7, <1>8, <1>9, <1>10, <1>1 DEF IInv, Inner, Agreement

LEMMA StartPatchKeeps ==
    ASSUME IInv, (\E patch \in PatchSet : StartPatch(patch)) \/ DisableTun
    PROVE  IInv'
    <1>1. faults' \in Nat
        BY DEF IInv, Types, TypeOK, StartPatch, DisableTun, Fails
    <1>2. \E patch \in PatchSet \cup {TunOff} : Begin(patch)
        BY DEF StartPatch, DisableTun, TunOff
    <1>3. QED
        BY <1>1, <1>2, BeginKeeps

(* What holds wherever a patch is. *)
LEMMA InPatch ==
    ASSUME IInv, IsPatch
    PROVE  /\ Types /\ Inner /\ phase = "up" /\ ~IsPorts /\ ~IsDns /\ op \in PatchOps /\ op # Free /\ updating
           /\ reload = "no" /\ op.files \in Files
    <1>1. Types /\ op \in PatchOps /\ op # Free /\ ~IsPorts /\ ~IsDns
        BY OpFacts DEF IInv
    <1>2. QED
        BY <1>1 DEF IInv, Control, PatchOps

(* Mode apart, the core serves the port its runtime names. *)
LEMMA BarePort ==
    ASSUME NEW run \in Runs
    PROVE  PortOf(Bare(run)) = PortOf(run)
    BY DEF Bare, PortOf, Runs

(* The port a runtime names that keeps the settings' port and the borrowed one. *)
LEMMA PortIsDesired ==
    ASSUME IInv, ~IsPorts, phase # "down", ~Crossed, Latest(verge).mixed = verge.data.mixed,
           clash.data["mixed-port"] = verge.data.mixed,
           NEW run \in Runs, MixedOf(run) = clash.data["mixed-port"], run.fallback = fallback
    PROVE  /\ Desired = PortOf(run)
           /\ core # None /\ "astray" \notin drift => PortOf(core) = PortOf(run)
    <1>1. Types /\ Inner
        BY DEF IInv
    <1>2. Desired = PortOf(run)
        BY <1>1, DesiredIsServed
    <1>3. ASSUME core # None, "astray" \notin drift PROVE PortOf(core) = PortOf(run)
        <2>1. core \in Runs /\ runtime.data # None /\ Bare(core) = runtime.data
            BY <1>1, <1>3 DEF IInv, Control, Inner, CoreRuns, Types, TypeOK
        <2>2. PortOf(core) = PortOf(runtime.data)
            BY <2>1, BarePort
        <2>3. MixedOf(runtime.data) = clash.data["mixed-port"] /\ runtime.data.fallback = fallback
            BY <1>1, <2>1 DEF Inner, Agreement, PortsKept, Borrowed
        <2>4. QED
            BY <2>2, <2>3 DEF PortOf, MixedOf
    <1>4. QED
        BY <1>2, <1>3

(* However the core came to serve such a runtime, the system proxy names its port. *)
LEMMA NamedAfter ==
    ASSUME IInv, ~IsPorts, phase # "down", ~Crossed, "astray" \notin drift, Latest(verge).mixed = verge.data.mixed,
           clash.data["mixed-port"] = verge.data.mixed,
           NEW run \in Runs, MixedOf(run) = clash.data["mixed-port"], run.fallback = fallback,
           NEW o \in Taken, Reloads(run, o) \/ Restarts(run, o), proxy' # 0
    PROVE  proxy' = PortOf(run)
    <1>1. Types /\ Inner
        BY DEF IInv
    <1>2. proxy' \in {0, Desired} \/ (proxy' = proxy /\ core # None)
        BY <1>1, RestartFacts, ReloadFacts, ProxyFacts
    <1>3. CASE proxy' = Desired
        BY <1>3, PortIsDesired
    <1>4. CASE proxy' = proxy /\ core # None
        <2>1. proxy = PortOf(core)
            BY <1>1, <1>4 DEF Inner, Agreement, ProxyNamed
        <2>2. QED
            BY <1>4, <2>1, PortIsDesired
    <1>5. QED
        BY <1>2, <1>3, <1>4

LEMMA GenerateForPatchKeeps ==
    ASSUME IInv, GenerateForPatch
    PROVE  IInv'
    <1> USE DEF GenerateForPatch
    <1>1. /\ Types /\ Inner /\ phase = "up" /\ IsPatch /\ ~IsPorts /\ ~IsDns /\ op \in PatchOps /\ op # Free /\ updating
          /\ reload = "no"
        BY InPatch
    <1>2. /\ op' \in PatchOps /\ op'.kind = "patch" /\ op'.at = "apply" /\ op'.patch = op.patch
          /\ op'.todo = op.todo /\ op'.files = op.files /\ op'.ran = op.ran
        BY <1>1, GotoFacts DEF PatchPlaces
    <1>3. IsPatch' /\ ~IsPorts' /\ ~IsDns'
        BY <1>2
    <1>4. /\ runtime'.data = runtime.data /\ runtime'.draft # None
          /\ runtime' \in [data : Runs \cup {None}, draft : Runs \cup {None}]
          /\ runtime'.draft.mode = None /\ runtime'.draft.fallback = fallback
          /\ Fresh(runtime'.draft, Latest(clash), Latest(verge))
          /\ MixedOf(runtime'.draft) = Latest(clash)["mixed-port"]
        BY <1>1, StageFacts
    <1>5. Types'
        BY <1>1, <1>2, <1>4 DEF Types, TypeOK
    <1>6. Control'
        BY <1>1, <1>2, <1>3 DEF IInv, Control
    <1>7. Drafts' /\ Staged' /\ Borrowed' /\ CoreRuns'
        BY <1>1, <1>2, <1>3, <1>4 DEF Inner, Drafts, Staged, Borrowed, CoreRuns
    <1>8. ASSUME ~Crossed' PROVE RuntimeMade' /\ DnsAgreed'
        BY <1>1, <1>2, <1>3, <1>4, <1>8 DEF Inner, Agreement, RuntimeMade, DnsAgreed
    <1>9. ASSUME ~Crossed' PROVE PortsKept' /\ ProxyNamed'
        BY <1>1, <1>2, <1>3, <1>4, <1>9 DEF Inner, Agreement, PortsKept, ProxyNamed, Staged
    <1>10. ASSUME ~Crossed', "unsaved" \notin drift' PROVE FilesAgree'
        BY <1>1, <1>2, <1>3, <1>4, <1>10 DEF Inner, Agreement, FilesAgree
    <1>11. QED
        BY <1>5, <1>6, <1>7, <1>8, <1>9, <1>10, <1>1 DEF IInv, Inner, Agreement

LEMMA ApplyForPatchKeeps ==
    ASSUME IInv, ApplyForPatch
    PROVE  IInv'
    <1>1. /\ Types /\ Inner /\ phase = "up" /\ IsPatch /\ ~IsPorts /\ ~IsDns /\ op \in PatchOps /\ op # Free /\ updating
          /\ reload = "no" /\ op.at = "apply"
        BY InPatch DEF ApplyForPatch
    <1> DEFINE next == Latest(runtime)
    <1>2. /\ next \in Runs /\ next # None /\ next = runtime.draft /\ next.mode = None /\ Bare(next) = next
          /\ runtime.draft # None
        BY <1>1, TypeFacts, BareIsSame DEF Inner, Drafts, Latest
    <1>3. PICK o \in Outcomes :
            /\ IF Effect = "RestartCore" THEN Restarts(next, o) ELSE Reloads(next, o)
            /\ runtime' = Retained(o) /\ files' = RunFile(o)
            /\ Proceed(o = "ok")
        BY DEF ApplyForPatch
    <1>4. /\ phase' = "up" /\ updating' = updating
          /\ UNCHANGED <<clash, verge, fallback, world, reload, mode, syncs, start, work, drift>>
        BY <1>1 DEF ApplyForPatch
    <1>5. /\ o \in Taken => core' = next
          /\ o = "dead" => core' = None
          /\ o \in {"kept", "refused"} => core' = core /\ proxy' = proxy
          /\ core' \in Runs \cup {None} /\ left' \in Runs \cup {None} /\ pac' \in BOOLEAN
          /\ proxy' \in {0} \cup Ports /\ faults' \in Nat
        BY <1>1, <1>2, <1>3, RestartFacts, ReloadFacts
    <1>6. /\ op' \in PatchOps /\ op'.kind = "patch" /\ op'.patch = op.patch /\ op'.files = op.files /\ op'.ran = op.ran
          /\ op'.at = (IF o = "ok" THEN "effect" ELSE "fail")
          /\ o # "ok" => op'.todo = op.todo
        BY <1>1, <1>3, ProceedFacts
    <1>7. IsPatch' /\ ~IsPorts' /\ ~IsDns' /\ op'.at \in {"effect", "fail"} /\ (op'.at = "effect" => o \in Taken)
        BY <1>6 DEF Taken
    <1>8. /\ runtime' \in [data : Runs \cup {None}, draft : Runs \cup {None}]
          /\ o \in Taken => runtime'.data = next /\ runtime'.draft = None
          /\ o \notin Taken => runtime' = runtime
        BY <1>1, <1>2, <1>3, RuntimeLaws DEF LayerLaws, Retained, Types, TypeOK
    <1>9. files' \in Files /\ files'.clash = files.clash /\ files'.verge = files.verge
        BY <1>1, <1>2, <1>3, TypeFacts DEF RunFile, Files
    <1>10. Types'
        BY <1>1, <1>4, <1>5, <1>6, <1>8, <1>9 DEF Types, TypeOK, Files
    <1>11. Control'
        BY <1>1, <1>4, <1>7, <1>8 DEF IInv, Control
    <1>12. Drafts' /\ Staged'
        BY <1>1, <1>2, <1>4, <1>6, <1>7, <1>8 DEF Inner, Drafts, Staged
    <1>13. Borrowed'
        <2>1. CASE o \in Taken
            <3>1. next.fallback = fallback
                BY <1>1, <1>2 DEF Inner, Borrowed
            <3>2. QED
                BY <1>1, <1>4, <1>7, <1>8, <2>1, <3>1 DEF Borrowed
        <2>2. CASE o \notin Taken
            BY <1>1, <1>4, <1>7, <1>8, <2>2 DEF Inner, Borrowed
        <2>3. QED
            BY <2>1, <2>2
    <1>14. CoreRuns'
        BY <1>1, <1>2, <1>3, <1>4, <1>5, <1>7, <1>8 DEF Inner, CoreRuns, Outcomes
    <1>15. ASSUME ~Crossed' PROVE RuntimeMade' /\ DnsAgreed'
        <2>1. Fresh(next, Latest(clash), Latest(verge)) /\ Made(next, Latest(clash), Latest(verge))
            BY <1>1, <1>2, <1>4, <1>15, FreshIsMade DEF Inner, Agreement, RuntimeMade
        <2>2. RuntimeMade'
            BY <1>1, <1>4, <1>6, <1>7, <1>8, <1>15, <2>1 DEF Inner, Agreement, RuntimeMade
        <2>3. DnsAgreed'
            BY <1>1, <1>4, <1>6, <1>7, <1>8, <1>15 DEF Inner, Agreement, DnsAgreed
        <2>4. QED
            BY <2>2, <2>3
    <1>16. ASSUME ~Crossed' PROVE PortsKept' /\ ProxyNamed'
        <2>1. /\ MixedOf(next) = clash.data["mixed-port"] /\ next.fallback = fallback
              /\ Latest(verge).mixed = verge.data.mixed
            BY <1>1, <1>2, <1>4, <1>16 DEF Inner, Agreement, PortsKept, Staged, Borrowed
        <2>2. PortsKept'
            BY <1>1, <1>4, <1>7, <1>8, <1>16, <2>1 DEF Inner, Agreement, PortsKept
        <2>3. ProxyNamed'
            BY <1>1, <1>2, <1>3, <1>4, <1>5, <1>7, <1>16, <2>1, NamedAfter DEF Inner, Agreement, ProxyNamed, Outcomes
        <2>4. QED
            BY <2>2, <2>3
    <1>17. ASSUME ~Crossed', "unsaved" \notin drift' PROVE FilesAgree'
        BY <1>1, <1>4, <1>6, <1>7, <1>9, <1>17 DEF Inner, Agreement, FilesAgree
    <1>18. QED
        BY <1>4, <1>10, <1>11, <1>12, <1>13, <1>14, <1>15, <1>16, <1>17 DEF IInv, Inner, Agreement

(* A step of a patch that touches neither layers nor core: its place, its effects
   and the proxy or the files may change. *)
LEMMA PatchGoesOn ==
    ASSUME IInv, IsPatch, op.at = "effect",
           UNCHANGED <<layers, fallback, core, left, pac, world, updating, reload, mode, syncs, start, drift>>,
           op' \in PatchOps, op'.patch = op.patch, op'.files = op.files, op'.ran = op.ran,
           op'.at \in {"effect", "commit", "fail"},
           op'.at \in {"effect", "commit"} => op.todo \cap Config = op'.todo \cap Config,
           op'.at = "commit" => op.todo = {},
           files' \in Files, faults' \in Nat, proxy' \in {0, Desired} \/ proxy' = proxy,
           op'.at # "commit" => files' = files,
           op'.at = "commit" =>
              files' = IF op.patch.layer = "verge" THEN [files EXCEPT !.verge = Latest(verge)]
                       ELSE [files EXCEPT !.clash = Latest(clash)]
    PROVE  IInv'
    <1>1. /\ Types /\ Inner /\ phase = "up" /\ phase' = "up" /\ ~IsPorts /\ ~IsDns /\ op \in PatchOps /\ op # Free
          /\ updating /\ reload = "no" /\ op.files \in Files
        BY InPatch
    <1>2. op'.kind = "patch" /\ IsPatch' /\ ~IsPorts' /\ ~IsDns'
        BY DEF PatchOps
    <1>3. Types'
        BY <1>1, ProxyFacts DEF Types, TypeOK, Files
    <1>4. Control'
        BY <1>1, <1>2 DEF IInv, Control
    <1>5. Drafts' /\ Staged' /\ Borrowed' /\ CoreRuns'
        BY <1>1, <1>2 DEF Inner, Drafts, Staged, Borrowed, CoreRuns
    <1>6. ASSUME ~Crossed' PROVE RuntimeMade' /\ DnsAgreed'
        BY <1>1, <1>2, <1>6 DEF Inner, Agreement, RuntimeMade, DnsAgreed
    <1>7. ASSUME ~Crossed' PROVE PortsKept' /\ ProxyNamed'
        <2>1. PortsKept'
            BY <1>1, <1>2, <1>7 DEF Inner, Agreement, PortsKept
        <2>2. ASSUME core # None, "astray" \notin drift, clash.data["mixed-port"] = verge.data.mixed
              PROVE  Desired = PortOf(core)
            <3>1. core \in Runs /\ runtime.data \in Runs /\ Bare(core) = runtime.data
                BY <1>1, <2>2, TypeFacts, PatchesAssumption DEF IInv, Control, Inner, CoreRuns, Types, TypeOK
            <3>2. /\ MixedOf(runtime.data) = clash.data["mixed-port"] /\ runtime.data.fallback = fallback
                  /\ Latest(verge).mixed = verge.data.mixed
                BY <1>1, <1>7, <3>1, PatchesAssumption DEF Inner, Agreement, PortsKept, Borrowed, Staged
            <3>3. QED
                BY <1>1, <1>7, <2>2, <3>1, <3>2, PortIsDesired
        <2>3. ProxyNamed'
            BY <1>1, <1>2, <1>7, <2>2 DEF Inner, Agreement, ProxyNamed
        <2>4. QED
            BY <2>1, <2>3
    <1>8. ASSUME ~Crossed', "unsaved" \notin drift' PROVE FilesAgree'
        <2>1. files.clash = clash.data /\ files.verge = verge.data
            BY <1>1, <1>8 DEF Inner, Agreement, FilesAgree
        <2>2. CASE op'.at # "commit"
            BY <1>1, <1>2, <1>8, <2>1, <2>2 DEF Inner, Agreement, FilesAgree
        <2>3. CASE op'.at = "commit"
            <3>1. files'.clash = Latest(clash) /\ files'.verge = Latest(verge)
                BY <1>1, <2>1, <2>3, TypeFacts DEF Inner, Staged, Latest, Files
            <3>2. QED
                BY <1>1, <1>2, <1>8, <2>3, <3>1 DEF Inner, Agreement, FilesAgree
        <2>4. QED
            BY <2>2, <2>3
    <1>9. QED
        BY <1>1, <1>3, <1>4, <1>5, <1>6, <1>7, <1>8 DEF IInv, Inner, Agreement

LEMMA ProxyForPatchKeeps ==
    ASSUME IInv, ProxyForPatch
    PROVE  IInv'
    <1>1. IsPatch /\ op.at = "effect" /\ Effect = "SystemProxy" /\ Types /\ op \in PatchOps
        BY InPatch DEF ProxyForPatch
    <1>2. PICK ok \in BOOLEAN : Proceed(ok)
        BY DEF ProxyForPatch
    <1>3. /\ op' \in PatchOps /\ op'.patch = op.patch /\ op'.files = op.files /\ op'.ran = op.ran
          /\ op'.at \in {"effect", "fail"} /\ op.todo \cap Config = op'.todo \cap Config
        BY <1>1, <1>2, ProceedFacts DEF Config
    <1>4. proxy' \in {0, Desired} \/ proxy' = proxy
        BY <1>1, ProxyFacts DEF ProxyForPatch
    <1>5. faults' \in Nat /\ files' = files /\ files' \in Files
        <2>1. files' = files
            BY DEF ProxyForPatch
        <2>2. faults' = faults \/ Fails(1)
            BY DEF ProxyForPatch
        <2>3. faults' \in Nat
            BY <1>1, <2>2 DEF Fails, Types, TypeOK
        <2>4. QED
            BY <1>1, <2>1, <2>3, TypeFacts
    <1>6. QED
        BY <1>1, <1>3, <1>4, <1>5, PatchGoesOn DEF ProxyForPatch

LEMMA TrayForPatchKeeps ==
    ASSUME IInv, TrayForPatch
    PROVE  IInv'
    <1>1. IsPatch /\ op.at = "effect" /\ Effect = "Tray" /\ Types /\ op \in PatchOps
        BY InPatch DEF TrayForPatch
    <1>2. PICK ok \in BOOLEAN : Proceed(ok)
        BY DEF TrayForPatch
    <1>3. /\ op' \in PatchOps /\ op'.patch = op.patch /\ op'.files = op.files /\ op'.ran = op.ran
          /\ op'.at \in {"effect", "fail"} /\ op.todo \cap Config = op'.todo \cap Config
        BY <1>1, <1>2, ProceedFacts DEF Config
    <1>4. faults' \in Nat /\ files' = files /\ files' \in Files /\ proxy' = proxy
        <2>1. files' = files /\ proxy' = proxy
            BY DEF TrayForPatch
        <2>2. faults' = faults \/ Fails(1)
            BY DEF TrayForPatch
        <2>3. faults' \in Nat
            BY <1>1, <2>2 DEF Fails, Types, TypeOK
        <2>4. QED
            BY <1>1, <2>1, <2>3, TypeFacts
    <1>5. QED
        BY <1>1, <1>3, <1>4, PatchGoesOn DEF TrayForPatch

LEMMA SavePatchKeeps ==
    ASSUME IInv, SavePatch
    PROVE  IInv'
    <1>1. IsPatch /\ op.at = "effect" /\ Effect = "none" /\ Types /\ op \in PatchOps /\ op # Free
        BY InPatch DEF SavePatch
    <1>2. op.todo = {}
        <2>1. op.todo \subseteq Kinds
            BY <1>1 DEF PatchOps
        <2>2. QED
            BY <1>1, <2>1, EffectFacts DEF Kinds, Config
    <1>3. PICK at \in {"commit", "fail"} : Goto(at)
        BY DEF SavePatch
    <1>4. /\ op' \in PatchOps /\ op'.patch = op.patch /\ op'.files = op.files /\ op'.ran = op.ran
          /\ op'.at = at /\ op'.todo = op.todo
        BY <1>1, <1>3, GotoFacts DEF PatchPlaces
    <1>5. /\ op'.at # "commit" => files' = files
          /\ op'.at = "commit" =>
                files' = IF op.patch.layer = "verge" THEN [files EXCEPT !.verge = Latest(verge)]
                         ELSE [files EXCEPT !.clash = Latest(clash)]
        BY <1>1, <1>4, GotoFacts DEF SavePatch
    <1>6. faults' \in Nat /\ files' \in Files /\ proxy' = proxy
        BY <1>1, <1>5, TypeFacts DEF SavePatch, Fails, Types, TypeOK, Files
    <1>7. QED
        BY <1>1, <1>2, <1>3, <1>4, <1>5, <1>6, PatchGoesOn DEF SavePatch

LEMMA CommitPatchKeeps ==
    ASSUME IInv, CommitPatch
    PROVE  IInv'
    <1>1. /\ Types /\ Inner /\ phase = "up" /\ IsPatch /\ ~IsPorts /\ ~IsDns /\ op \in PatchOps /\ updating
          /\ reload = "no" /\ op.at = "commit"
        BY InPatch DEF CommitPatch
    <1>2. /\ op' = Free /\ ~updating' /\ syncs' = TRUE /\ phase' = "up"
          /\ updating' = FALSE
          /\ UNCHANGED <<files, fallback, serving, world, reload, mode, start, work, faults>>
        BY <1>1 DEF CommitPatch, Release
    <1>3. ~IsPatch' /\ ~IsPorts' /\ ~IsDns'
        BY <1>2, PatchesAssumption DEF Free
    <1>4. /\ clash' \in [data : Clashes, draft : Clashes \cup {None}]
          /\ clash'.data = Latest(clash) /\ clash'.draft = None
          /\ verge' \in [data : Verges, draft : Verges \cup {None}]
          /\ verge'.data = Latest(verge) /\ verge'.draft = None
        BY <1>1, ClashLaws, VergeLaws, TypeFacts DEF LayerLaws, CommitPatch, CommitAll
    <1>5. /\ runtime' \in [data : Runs \cup {None}, draft : Runs \cup {None}]
          /\ runtime'.data = runtime.data /\ runtime'.draft = None
        BY <1>1, TypeFacts DEF Inner, Drafts, Commit, Layer, Latest, CommitPatch, CommitAll
    <1>6. /\ drift' \subseteq drift /\ drift \subseteq drift' \cup {"ahead"}
          /\ Ahead' => runtime.data = op.ran
          /\ Ahead \/ runtime.data # op.ran \/ ~Ahead'
        BY DEF CommitPatch
    <1>7. Types'
        BY <1>1, <1>2, <1>4, <1>5, <1>6 DEF Types, TypeOK
    <1>8. Control'
        BY <1>1, <1>2, <1>3, <1>5, <1>6 DEF IInv, Control
    <1>9. Drafts' /\ Staged' /\ Borrowed' /\ CoreRuns'
        BY <1>1, <1>2, <1>3, <1>4, <1>5, <1>6 DEF Inner, Drafts, Staged, Borrowed, CoreRuns
    <1>10. ASSUME ~Crossed', ~Ahead' PROVE Made(runtime.data, Latest(clash), Latest(verge))
        BY <1>1, <1>6, <1>10, FreshIsMade DEF Inner, Agreement, RuntimeMade, CommitPatch
    <1>11. ASSUME ~Crossed' PROVE RuntimeMade'
        BY <1>1, <1>2, <1>3, <1>4, <1>5, <1>10, <1>11 DEF RuntimeMade
    <1>12. ASSUME ~Crossed' PROVE DnsAgreed'
        <2>1. SUFFICES ASSUME ~Ahead', "overtaken" \notin drift'
                       PROVE  Served(runtime.data, Latest(verge)) \/ Asks(runtime.data, Latest(verge))
            BY <1>1, <1>2, <1>3, <1>4, <1>5 DEF DnsAgreed
        <2>2. CASE runtime.data = op.ran
            <3>1. ~Ahead /\ "overtaken" \notin drift
                BY <1>6, <2>1, <2>2 DEF CommitPatch
            <3>2. Served(op.ran, verge.data) \/ Asks(op.ran, verge.data)
                BY <1>1, <1>6, <1>12, <3>1 DEF Inner, Agreement, DnsAgreed
            <3>3. Latest(verge).dns = verge.data.dns /\ Latest(verge).confirmed = verge.data.confirmed
                BY <1>1 DEF Inner, Staged
            <3>4. QED
                BY <2>2, <3>2, <3>3 DEF Served, Asks
        <2>3. CASE runtime.data # op.ran
            BY <1>1, <1>6, <1>12, <2>3, FreshIsMade DEF Inner, Agreement, RuntimeMade
        <2>4. QED
            BY <2>2, <2>3
    <1>13. ASSUME ~Crossed' PROVE PortsKept' /\ ProxyNamed'
        BY <1>1, <1>2, <1>3, <1>4, <1>5, <1>6, <1>13 DEF Inner, Agreement, PortsKept, ProxyNamed, Staged
    <1>14. ASSUME ~Crossed', "unsaved" \notin drift' PROVE FilesAgree'
        BY <1>1, <1>2, <1>3, <1>4, <1>6, <1>14 DEF Inner, Agreement, FilesAgree
    <1>15. QED
        BY <1>2, <1>7, <1>8, <1>9, <1>11, <1>12, <1>13, <1>14 DEF IInv, Inner, Agreement

LEMMA RollbackPatchKeeps ==
    ASSUME IInv, RollbackPatch
    PROVE  IInv'
    <1>1. /\ Types /\ Inner /\ phase = "up" /\ IsPatch /\ ~IsPorts /\ ~IsDns /\ op \in PatchOps /\ updating
          /\ reload = "no" /\ op.at = "fail" /\ op.files \in Files
        BY InPatch DEF RollbackPatch
    <1>2. /\ op' = Free /\ ~updating' /\ syncs' = TRUE /\ phase' = "up" /\ updating' = FALSE
          /\ UNCHANGED <<fallback, serving, world, reload, mode, start, work>>
        BY <1>1 DEF RollbackPatch, Release
    <1>3. ~IsPatch' /\ ~IsPorts' /\ ~IsDns'
        BY <1>2, PatchesAssumption DEF Free
    <1>4. /\ clash' \in [data : Clashes, draft : Clashes \cup {None}]
          /\ clash'.data = clash.data /\ clash'.draft = None
          /\ verge' \in [data : Verges, draft : Verges \cup {None}]
          /\ verge'.data = verge.data /\ verge'.draft = None
        BY <1>1, ClashLaws, VergeLaws, TypeFacts DEF LayerLaws, RollbackPatch, DiscardAll
    <1>5. /\ runtime' \in [data : Runs \cup {None}, draft : Runs \cup {None}]
          /\ runtime'.data = runtime.data /\ runtime'.draft = None
        BY <1>1, TypeFacts DEF Discard, Layer, RollbackPatch, DiscardAll
    <1>6. /\ drift \subseteq drift' /\ drift' \subseteq drift \cup {"ahead", "unsaved"}
          /\ "unsaved" \notin drift' => faults' = faults
          /\ ~Ahead' => runtime.data = op.ran
        BY DEF RollbackPatch
    <1>7. /\ files' \in Files /\ faults' \in Nat
          /\ faults' = faults => files'.clash = op.files.clash /\ files'.verge = op.files.verge
        BY <1>1, RestoreFacts DEF RollbackPatch
    <1>8. Types'
        BY <1>1, <1>2, <1>4, <1>5, <1>6, <1>7 DEF Types, TypeOK, Files
    <1>9. Control'
        BY <1>1, <1>2, <1>3, <1>5, <1>6 DEF IInv, Control
    <1>10. Drafts' /\ Staged' /\ Borrowed' /\ CoreRuns'
        BY <1>1, <1>2, <1>3, <1>4, <1>5, <1>6 DEF Inner, Drafts, Staged, Borrowed, CoreRuns
    <1>11. ASSUME ~Crossed' PROVE RuntimeMade' /\ DnsAgreed'
        BY <1>1, <1>2, <1>3, <1>4, <1>5, <1>6, <1>11 DEF Inner, Agreement, RuntimeMade, DnsAgreed
    <1>12. ASSUME ~Crossed' PROVE PortsKept' /\ ProxyNamed'
        BY <1>1, <1>2, <1>3, <1>4, <1>5, <1>6, <1>12 DEF Inner, Agreement, PortsKept, ProxyNamed
    <1>13. ASSUME ~Crossed', "unsaved" \notin drift' PROVE FilesAgree'
        BY <1>1, <1>2, <1>3, <1>4, <1>6, <1>7, <1>13 DEF Inner, Agreement, FilesAgree
    <1>14. QED
        BY <1>2, <1>8, <1>9, <1>10, <1>11, <1>12, <1>13 DEF IInv, Inner, Agreement

-----------------------------------------------------------------------------
(* Proxy ports: feat/listener.rs *)

(* What holds wherever the saving of ports is. *)
LEMMA InPorts ==
    ASSUME IInv, IsPorts
    PROVE  /\ Types /\ Inner /\ phase = "up" /\ ~IsPatch /\ ~IsDns /\ op \in PortOps /\ op # Free /\ updating
           /\ reload = "no" /\ op.files \in Files /\ op.borrowed \in {0} \cup Ports /\ op.running \in BOOLEAN
           /\ runtime.data \in Runs
    <1>1. Types /\ op \in PortOps /\ op # Free /\ ~IsPatch /\ ~IsDns
        BY OpFacts DEF IInv
    <1>2. Inner /\ phase = "up" /\ updating /\ reload = "no"
        BY <1>1 DEF IInv, Control
    <1>3. op.files \in Files /\ op.borrowed \in {0} \cup Ports /\ op.running \in BOOLEAN
        BY <1>1 DEF PortOps
    <1>4. runtime.data \in Runs
        BY <1>1, <1>2, TypeFacts DEF Inner, Borrowed
    <1>5. QED
        BY <1>1, <1>2, <1>3, <1>4

LEMMA StartPortsKeeps ==
    ASSUME IInv, NEW choice \in PortChoices, StartPorts(choice.port, choice.socks)
    PROVE  IInv'
    <1> USE DEF StartPorts
    <1> DEFINE c == Patched(clash.data, Single("mixed-port", choice.port))
               v == [verge.data EXCEPT !.mixed = choice.port, !.socks = choice.socks]
    <1>1. /\ Types /\ Inner /\ phase = "up" /\ phase' = "up" /\ ~IsPatch /\ ~IsPorts /\ ~IsDns /\ op = Free /\ reload = "no"
          /\ ~updating /\ updating' = TRUE /\ runtime.data # None
          /\ runtime.draft = None /\ clash.draft = None /\ verge.draft = None
        BY AtLeisure, AtRest
    <1>2. choice.port \in Ports /\ choice.socks \in BOOLEAN
        BY PatchesAssumption
    <1>3. clash.data \in Clashes /\ verge.data \in Verges /\ runtime.data \in Runs /\ files \in Files
        BY <1>1, TypeFacts
    <1>4. c \in Clashes /\ c["mixed-port"] = choice.port
        <2>1. c \in Clashes
            BY <1>3, ClashesAssumption
        <2>2. c["mixed-port"] = choice.port
            BY DEF Patched, Over, Single
        <2>3. QED
            BY <2>1, <2>2
    <1>5. v \in Verges /\ v.mixed = choice.port
        BY <1>2, <1>3 DEF Verges
    <1>6. /\ clash' \in [data : Clashes, draft : Clashes \cup {None}] /\ clash'.data = clash.data /\ Latest(clash') = c
          /\ verge' \in [data : Verges, draft : Verges \cup {None}] /\ verge'.data = verge.data /\ Latest(verge') = v
        BY <1>1, <1>4, <1>5, ClashLaws, VergeLaws DEF LayerLaws
    <1>7. /\ op' \in PortOps /\ op'.kind = "ports" /\ op'.at = "probe" /\ op'.files = files
          /\ op'.borrowed = fallback /\ op'.running = (core # None)
        BY <1>1, <1>3 DEF PortOps, PortPlaces, Types, TypeOK
    <1>8. ~IsPatch' /\ IsPorts' /\ ~IsDns'
        BY <1>7
    <1>9. Types'
        BY <1>1, <1>6, <1>7 DEF Types, TypeOK
    <1>10. Control'
        BY <1>1, <1>7, <1>8 DEF IInv, Control
    <1>11. Drafts' /\ Staged' /\ Borrowed' /\ CoreRuns'
        BY <1>1, <1>4, <1>5, <1>6, <1>7, <1>8 DEF Inner, Drafts, Staged, Borrowed, CoreRuns
    <1>12. ASSUME ~Crossed' PROVE RuntimeMade' /\ DnsAgreed'
        BY <1>1, <1>6, <1>7, <1>8, <1>12 DEF Inner, Agreement, RuntimeMade, DnsAgreed
    <1>13. ASSUME ~Crossed' PROVE PortsKept' /\ ProxyNamed'
        BY <1>1, <1>6, <1>7, <1>8, <1>13 DEF Inner, Agreement, PortsKept, ProxyNamed
    <1>14. ASSUME ~Crossed', "unsaved" \notin drift' PROVE FilesAgree'
        BY <1>1, <1>6, <1>7, <1>8, <1>14 DEF Inner, Agreement, FilesAgree
    <1>15. QED
        BY <1>1, <1>9, <1>10, <1>11, <1>12, <1>13, <1>14 DEF IInv, Inner, Agreement

(* Where the saving of ports goes on, its memory stays. *)
LEMMA PortsGoto ==
    ASSUME Types, IsPorts, NEW at \in PortPlaces, Goto(at)
    PROVE  /\ op' \in PortOps /\ op'.kind = "ports" /\ op'.at = at /\ IsPorts' /\ ~IsPatch' /\ ~IsDns'
           /\ op'.files = op.files /\ op'.ran = op.ran /\ op'.borrowed = op.borrowed /\ op'.running = op.running
    BY OpFacts, GotoFacts

LEMMA ProbePortsKeeps ==
    ASSUME IInv, ProbePorts
    PROVE  IInv'
    <1>1. /\ Types /\ Inner /\ phase = "up" /\ IsPorts /\ ~IsPatch /\ ~IsDns /\ op \in PortOps /\ updating
          /\ reload = "no" /\ op.at = "probe"
        BY InPorts DEF ProbePorts
    <1>2. /\ StageNow
          /\ UNCHANGED <<clash, verge, fallback, serving, world, updating, reload, mode, syncs, start, work, drift>>
        BY DEF ProbePorts, StageNow
    <1>3. \/ Goto("return") /\ files' = files /\ (faults' = faults \/ Fails(1))
          \/ /\ Goto("restart") /\ faults' = faults
             /\ \E fails \in BOOLEAN : files' = [files EXCEPT !.runtime = Now(fails)]
        BY DEF ProbePorts
    <1>4. PICK at \in {"return", "restart"} : Goto(at)
        BY <1>3
    <1>5. /\ op' \in PortOps /\ op'.kind = "ports" /\ op'.at = at /\ IsPorts' /\ ~IsPatch' /\ ~IsDns'
          /\ op'.files = op.files /\ op'.borrowed = op.borrowed /\ op'.running = op.running
        BY <1>1, <1>4, PortsGoto DEF PortPlaces
    <1>6. files' \in Files /\ files'.clash = files.clash /\ files'.verge = files.verge /\ faults' \in Nat
        <2>1. faults' \in Nat
            BY <1>1, <1>3 DEF Fails, Types, TypeOK
        <2>2. files' = files \/ \E run \in Runs : files' = [files EXCEPT !.runtime = run]
            BY <1>1, <1>3, NowFacts
        <2>3. QED
            BY <1>1, <2>1, <2>2, TypeFacts DEF Files
    <1>7. /\ runtime'.data = runtime.data /\ runtime'.draft # None
          /\ runtime' \in [data : Runs \cup {None}, draft : Runs \cup {None}]
          /\ runtime'.draft.mode = None /\ runtime'.draft.fallback = fallback
          /\ Fresh(runtime'.draft, Latest(clash), Latest(verge))
          /\ MixedOf(runtime'.draft) = Latest(clash)["mixed-port"]
        BY <1>1, <1>2, StageFacts
    <1>8. Types'
        BY <1>1, <1>2, <1>5, <1>6, <1>7 DEF Types, TypeOK, Files
    <1>9. Control'
        BY <1>1, <1>2, <1>5 DEF IInv, Control
    <1>10. Drafts' /\ Staged' /\ Borrowed' /\ CoreRuns'
        BY <1>1, <1>2, <1>5, <1>7 DEF Inner, Drafts, Staged, Borrowed, CoreRuns
    <1>11. ASSUME ~Crossed' PROVE RuntimeMade' /\ DnsAgreed'
        BY <1>1, <1>2, <1>5, <1>7, <1>11 DEF Inner, Agreement, RuntimeMade, DnsAgreed
    <1>12. ASSUME ~Crossed' PROVE PortsKept' /\ ProxyNamed'
        BY <1>1, <1>2, <1>5, <1>7, <1>12 DEF Inner, Agreement, PortsKept, ProxyNamed
    <1>13. ASSUME ~Crossed', "unsaved" \notin drift' PROVE FilesAgree'
        BY <1>1, <1>2, <1>5, <1>6, <1>13 DEF Inner, Agreement, FilesAgree
    <1>14. QED
        BY <1>1, <1>2, <1>8, <1>9, <1>10, <1>11, <1>12, <1>13 DEF IInv, Inner, Agreement

LEMMA RestartForPortsKeeps ==
    ASSUME IInv, RestartForPorts
    PROVE  IInv'
    <1>1. /\ Types /\ Inner /\ phase = "up" /\ IsPorts /\ ~IsPatch /\ ~IsDns /\ op \in PortOps /\ updating
          /\ reload = "no" /\ op.at = "restart" /\ fallback = 0 /\ op.running \in BOOLEAN
        BY InPorts DEF RestartForPorts, Inner, Borrowed
    <1>2. UNCHANGED <<layers, files, fallback, world, updating, reload, mode, syncs, start, work, drift>>
        BY DEF RestartForPorts
    <1> DEFINE next == Latest(runtime)
    <1>3. /\ next \in Runs /\ next # None /\ next = runtime.draft /\ next.mode = None /\ Bare(next) = next
          /\ next.fallback = 0
        BY <1>1, TypeFacts, BareIsSame DEF Inner, Drafts, Latest, Borrowed
    <1>4. PICK at \in {"persist", "undo"} :
            /\ Goto(at)
            /\ \/ op.running /\ \E o \in Outcomes : Restarts(next, o) /\ (at = "persist" => o = "ok")
               \/ ~op.running /\ UNCHANGED <<serving, faults>>
        BY DEF RestartForPorts
    <1>5. /\ op' \in PortOps /\ op'.kind = "ports" /\ op'.at = at /\ IsPorts' /\ ~IsPatch' /\ ~IsDns'
          /\ op'.files = op.files /\ op'.borrowed = op.borrowed /\ op'.running = op.running
        BY <1>1, <1>4, PortsGoto DEF PortPlaces
    <1>6. /\ core' \in Runs \cup {None} /\ left' \in Runs \cup {None} /\ pac' \in BOOLEAN
          /\ proxy' \in {0} \cup Ports /\ faults' \in Nat
          /\ at = "persist" => core' = None \/ (core' = next /\ proxy' \in {0, Desired})
          /\ ~op.running => core' = core
        <2>1. CASE op.running
            <3>1. PICK o \in Outcomes : Restarts(next, o) /\ (at = "persist" => o = "ok")
                BY <1>4, <2>1
            <3>2. QED
                BY <1>1, <1>3, <2>1, <3>1, RestartFacts, ProxyFacts DEF Taken
        <2>2. CASE ~op.running
            <3>1. UNCHANGED <<serving, faults>> /\ core = None
                BY <1>1, <1>4, <2>2 DEF Inner, Drafts
            <3>2. QED
                BY <1>1, <2>2, <3>1 DEF Types, TypeOK
        <2>3. QED
            BY <2>1, <2>2
    <1>7. Types'
        BY <1>1, <1>2, <1>5, <1>6 DEF Types, TypeOK
    <1>8. Control'
        BY <1>1, <1>2, <1>5 DEF IInv, Control
    <1>9. Drafts' /\ Staged' /\ Borrowed'
        BY <1>1, <1>2, <1>5, <1>6 DEF Inner, Drafts, Staged, Borrowed
    <1>10. CoreRuns'
        BY <1>2, <1>3, <1>5, <1>6 DEF CoreRuns
    <1>11. ASSUME ~Crossed' PROVE RuntimeMade' /\ DnsAgreed'
        BY <1>1, <1>2, <1>5, <1>11 DEF Inner, Agreement, RuntimeMade, DnsAgreed
    <1>12. ASSUME ~Crossed' PROVE PortsKept' /\ ProxyNamed'
        <2>1. PortsKept'
            BY <1>1, <1>2, <1>5, <1>12 DEF Inner, Agreement, PortsKept
        <2>2. Desired = PortOf(next)
            BY <1>1, <1>2, <1>3, <1>12, DesiredIsServed DEF Inner, Agreement, PortsKept, Staged
        <2>3. ProxyNamed'
            BY <1>2, <1>5, <1>6, <2>2 DEF ProxyNamed
        <2>4. QED
            BY <2>1, <2>3
    <1>13. ASSUME ~Crossed', "unsaved" \notin drift' PROVE FilesAgree'
        BY <1>1, <1>2, <1>5, <1>13 DEF Inner, Agreement, FilesAgree
    <1>14. QED
        BY <1>1, <1>2, <1>7, <1>8, <1>9, <1>10, <1>11, <1>12, <1>13 DEF IInv, Inner, Agreement

LEMMA PersistKeeps ==
    ASSUME IInv, PersistClash \/ PersistVerge
    PROVE  IInv'
    <1>1. /\ Types /\ Inner /\ phase = "up" /\ IsPorts /\ ~IsPatch /\ ~IsDns /\ op \in PortOps /\ updating
          /\ reload = "no" /\ op.at \in {"persist", "persistVerge"}
        BY InPorts DEF PersistClash, PersistVerge
    <1>2. UNCHANGED <<layers, fallback, serving, world, updating, reload, mode, syncs, start, work, drift>>
        BY DEF PersistClash, PersistVerge
    <1>3. PICK at \in {"persistVerge", "commit", "undo"} : Goto(at)
        BY DEF PersistClash, PersistVerge
    <1>4. /\ op' \in PortOps /\ op'.kind = "ports" /\ op'.at = at /\ IsPorts' /\ ~IsPatch' /\ ~IsDns'
          /\ op'.files = op.files /\ op'.borrowed = op.borrowed /\ op'.running = op.running
        BY <1>1, <1>3, PortsGoto DEF PortPlaces
    <1>5. \/ op.at = "persist" /\ files' = [files EXCEPT !.clash = Latest(clash)] /\ at = "persistVerge" /\ faults' = faults
          \/ op.at = "persistVerge" /\ files' = [files EXCEPT !.verge = Latest(verge)] /\ at = "commit" /\ faults' = faults
          \/ files' = files /\ at = "undo" /\ Fails(1)
        <2>1. op # Free
            BY <1>1, OpFacts
        <2>2. \A a : Goto(a) => op'.at = a
            BY <1>1, <2>1, GotoFacts
        <2>3. QED
            BY <1>4, <2>2 DEF PersistClash, PersistVerge
    <1>6. files' \in Files /\ faults' \in Nat
        <2>1. faults' \in Nat
            BY <1>1, <1>5 DEF Fails, Types, TypeOK
        <2>2. QED
            BY <1>1, <1>5, <2>1, TypeFacts DEF Files
    <1>7. Types'
        BY <1>1, <1>2, <1>4, <1>6 DEF Types, TypeOK, Files
    <1>8. Control'
        BY <1>1, <1>2, <1>4 DEF IInv, Control
    <1>9. Drafts' /\ Staged' /\ Borrowed' /\ CoreRuns'
        BY <1>1, <1>2, <1>4 DEF Inner, Drafts, Staged, Borrowed, CoreRuns
    <1>10. ASSUME ~Crossed' PROVE RuntimeMade' /\ DnsAgreed'
        BY <1>1, <1>2, <1>4, <1>10 DEF Inner, Agreement, RuntimeMade, DnsAgreed
    <1>11. ASSUME ~Crossed' PROVE PortsKept' /\ ProxyNamed'
        BY <1>1, <1>2, <1>4, <1>11 DEF Inner, Agreement, PortsKept, ProxyNamed
    <1>12. ASSUME ~Crossed', "unsaved" \notin drift' PROVE FilesAgree'
        BY <1>1, <1>2, <1>4, <1>5, <1>12, TypeFacts DEF Inner, Agreement, FilesAgree, Files
    <1>13. QED
        BY <1>1, <1>2, <1>7, <1>8, <1>9, <1>10, <1>11, <1>12 DEF IInv, Inner, Agreement

LEMMA CommitPortsKeeps ==
    ASSUME IInv, CommitPorts
    PROVE  IInv'
    <1>1. /\ Types /\ Inner /\ phase = "up" /\ IsPorts /\ ~IsPatch /\ ~IsDns /\ op \in PortOps /\ updating
          /\ reload = "no" /\ op.at = "commit" /\ fallback = 0
        BY InPorts DEF CommitPorts, Inner, Borrowed
    <1>2. /\ op' = Free /\ ~updating' /\ syncs' = TRUE /\ phase' = "up" /\ updating' = FALSE
          /\ UNCHANGED <<files, fallback, core, left, proxy, world, reload, mode, start, work, faults>>
          /\ drift' = drift \ {"ahead", "overtaken"}
        BY <1>1 DEF CommitPorts, Release
    <1>3. ~IsPatch' /\ ~IsPorts' /\ ~IsDns'
        BY <1>2, PatchesAssumption DEF Free
    <1>4. /\ clash' \in [data : Clashes, draft : Clashes \cup {None}]
          /\ clash'.data = Latest(clash) /\ clash'.draft = None
          /\ verge' \in [data : Verges, draft : Verges \cup {None}]
          /\ verge'.data = Latest(verge) /\ verge'.draft = None
        BY <1>1, ClashLaws, VergeLaws, TypeFacts DEF LayerLaws, CommitPorts, CommitAll
    <1>5. /\ runtime.draft \in Runs /\ runtime.draft # None /\ runtime.draft.mode = None /\ runtime.draft.fallback = 0
          /\ runtime' \in [data : Runs \cup {None}, draft : Runs \cup {None}]
          /\ runtime'.data = runtime.draft /\ runtime'.draft = None
        <2>1. runtime.draft # None /\ runtime.draft.mode = None /\ runtime.draft.fallback = 0
            BY <1>1 DEF Inner, Drafts, Borrowed
        <2>2. Latest(runtime) = runtime.draft /\ runtime.draft \in Runs
            BY <1>1, <2>1 DEF Latest, Types, TypeOK
        <2>3. QED
            BY <1>1, <2>1, <2>2, RuntimeLaws DEF LayerLaws, CommitPorts, CommitAll
    <1>6. pac' \in BOOLEAN
        BY DEF CommitPorts
    <1>7. Types'
        BY <1>1, <1>2, <1>4, <1>5, <1>6 DEF Types, TypeOK
    <1>8. Control'
        BY <1>1, <1>2, <1>3, <1>5 DEF IInv, Control
    <1>9. Drafts' /\ Staged' /\ Borrowed' /\ CoreRuns'
        BY <1>1, <1>2, <1>3, <1>4, <1>5 DEF Inner, Drafts, Staged, Borrowed, CoreRuns
    <1>10. ASSUME ~Crossed' PROVE RuntimeMade' /\ DnsAgreed'
        <2>1. Fresh(runtime.draft, Latest(clash), Latest(verge))
            BY <1>1, <1>2, <1>10 DEF Inner, Agreement, RuntimeMade
        <2>2. Made(runtime.draft, Latest(clash), Latest(verge)) /\ Asks(runtime.draft, Latest(verge))
            BY <2>1, FreshIsMade
        <2>3. QED
            BY <1>1, <1>2, <1>3, <1>4, <1>5, <2>2 DEF RuntimeMade, DnsAgreed
    <1>11. ASSUME ~Crossed' PROVE PortsKept' /\ ProxyNamed'
        BY <1>1, <1>2, <1>3, <1>4, <1>5, <1>11 DEF Inner, Agreement, PortsKept, ProxyNamed
    <1>12. ASSUME ~Crossed', "unsaved" \notin drift' PROVE FilesAgree'
        BY <1>1, <1>2, <1>3, <1>4, <1>12 DEF Inner, Agreement, FilesAgree
    <1>13. QED
        BY <1>2, <1>7, <1>8, <1>9, <1>10, <1>11, <1>12 DEF IInv, Inner, Agreement

LEMMA UndoPortsKeeps ==
    ASSUME IInv, UndoPorts
    PROVE  IInv'
    <1>1. /\ Types /\ Inner /\ phase = "up" /\ IsPorts /\ ~IsPatch /\ ~IsDns /\ op \in PortOps /\ updating
          /\ reload = "no" /\ op.at = "undo" /\ op.files \in Files /\ op.borrowed \in {0} \cup Ports
        BY InPorts DEF UndoPorts
    <1>2. /\ UNCHANGED <<serving, world, updating, reload, mode, syncs, start, work>>
          /\ fallback' = op.borrowed
          /\ drift \subseteq drift' /\ drift' \subseteq drift \cup {"unsaved"}
          /\ "unsaved" \notin drift' => faults' = faults
        BY DEF UndoPorts, RestoreBorrowedPort
    <1>3. /\ op' \in PortOps /\ op'.kind = "ports" /\ op'.at = "restore" /\ IsPorts' /\ ~IsPatch' /\ ~IsDns'
          /\ op'.files = op.files /\ op'.borrowed = op.borrowed /\ op'.running = op.running
        BY <1>1, PortsGoto DEF PortPlaces, UndoPorts
    <1>4. /\ clash' \in [data : Clashes, draft : Clashes \cup {None}]
          /\ clash'.data = clash.data /\ clash'.draft = None
          /\ verge' \in [data : Verges, draft : Verges \cup {None}]
          /\ verge'.data = verge.data /\ verge'.draft = None
        BY <1>1, ClashLaws, VergeLaws, TypeFacts DEF LayerLaws, UndoPorts, DiscardAll
    <1>5. /\ runtime' \in [data : Runs \cup {None}, draft : Runs \cup {None}]
          /\ runtime'.data = runtime.data /\ runtime'.draft = None
        BY <1>1, TypeFacts DEF Discard, Layer, UndoPorts, DiscardAll
    <1>6. /\ files' \in Files /\ faults' \in Nat
          /\ faults' = faults => files'.clash = op.files.clash /\ files'.verge = op.files.verge
        BY <1>1, RestoreFacts DEF UndoPorts
    <1>7. Types'
        BY <1>1, <1>2, <1>3, <1>4, <1>5, <1>6 DEF Types, TypeOK, Files
    <1>8. Control'
        BY <1>1, <1>2, <1>3 DEF IInv, Control
    <1>9. Drafts' /\ Staged' /\ Borrowed' /\ CoreRuns'
        BY <1>1, <1>2, <1>3, <1>4, <1>5 DEF Inner, Drafts, Staged, Borrowed, CoreRuns
    <1>10. ASSUME ~Crossed' PROVE RuntimeMade' /\ DnsAgreed'
        BY <1>1, <1>2, <1>3, <1>4, <1>5, <1>10 DEF Inner, Agreement, RuntimeMade, DnsAgreed
    <1>11. ASSUME ~Crossed' PROVE PortsKept' /\ ProxyNamed'
        BY <1>1, <1>2, <1>3, <1>4, <1>5, <1>11 DEF Inner, Agreement, PortsKept, ProxyNamed
    <1>12. ASSUME ~Crossed', "unsaved" \notin drift' PROVE FilesAgree'
        BY <1>1, <1>2, <1>3, <1>4, <1>6, <1>12 DEF Inner, Agreement, FilesAgree
    <1>13. QED
        BY <1>1, <1>2, <1>7, <1>8, <1>9, <1>10, <1>11, <1>12 DEF IInv, Inner, Agreement

LEMMA RestoreCoreKeeps ==
    ASSUME IInv, RestoreCore
    PROVE  IInv'
    <1>1. /\ Types /\ Inner /\ phase = "up" /\ IsPorts /\ ~IsPatch /\ ~IsDns /\ op \in PortOps /\ updating
          /\ reload = "no" /\ op.at = "restore" /\ op.running \in BOOLEAN
          /\ runtime.data \in Runs /\ runtime.data.mode = None /\ Bare(runtime.data) = runtime.data
          /\ clash.draft = None /\ verge.draft = None /\ Latest(verge) = verge.data
          /\ fallback = op.borrowed /\ runtime.data.fallback = op.borrowed
        BY InPorts, BareIsSame DEF RestoreCore, Inner, Drafts, Borrowed, Latest
    <1>2. UNCHANGED <<layers, files, fallback, world, updating, reload, mode, syncs, start, work>>
        BY DEF RestoreCore
    <1>3. /\ op' \in PortOps /\ op'.kind = "ports" /\ op'.at = "return" /\ IsPorts' /\ ~IsPatch' /\ ~IsDns'
          /\ op'.files = op.files /\ op'.borrowed = op.borrowed /\ op'.running = op.running
        BY <1>1, PortsGoto DEF PortPlaces, RestoreCore
    <1>4. /\ core' \in Runs \cup {None} /\ left' \in Runs \cup {None} /\ pac' \in BOOLEAN
          /\ proxy' \in {0} \cup Ports /\ faults' \in Nat
          /\ drift \subseteq drift' /\ drift' \subseteq drift \cup {"stayed", "astray"}
          /\ "stayed" \in drift' => "astray" \in drift'
          /\ "stayed" \notin drift' \/ "astray" \notin drift' =>
                core' = None \/ (core' = runtime.data /\ proxy' \in {0, Desired})
          /\ ~op.running => core' = None
        <2>1. CASE op.running
            <3>1. PICK o \in Outcomes :
                    /\ Restarts(runtime.data, o)
                    /\ drift' = IF o = "kept" THEN drift \cup {"stayed", "astray"} ELSE drift
                BY <2>1 DEF RestoreCore
            <3>2. "stayed" \in drift => "astray" \in drift
                BY DEF IInv, Control
            <3>3. QED
                BY <1>1, <2>1, <3>1, <3>2, RestartFacts, ProxyFacts DEF Taken
        <2>2. CASE ~op.running
            <3>1. UNCHANGED <<serving, faults, drift>> /\ core = None
                BY <1>1, <2>2 DEF RestoreCore, Inner, Drafts
            <3>2. "stayed" \in drift => "astray" \in drift
                BY DEF IInv, Control
            <3>3. QED
                BY <1>1, <2>2, <3>1, <3>2 DEF Types, TypeOK
        <2>3. QED
            BY <2>1, <2>2
    <1>5. Types'
        BY <1>1, <1>2, <1>3, <1>4 DEF Types, TypeOK
    <1>6. Control'
        BY <1>1, <1>2, <1>3, <1>4 DEF IInv, Control
    <1>7. Drafts' /\ Staged' /\ Borrowed'
        BY <1>1, <1>2, <1>3, <1>4 DEF Inner, Drafts, Staged, Borrowed
    <1>8. CoreRuns'
        BY <1>1, <1>2, <1>3, <1>4, PatchesAssumption DEF CoreRuns
    <1>9. ASSUME ~Crossed' PROVE RuntimeMade' /\ DnsAgreed'
        BY <1>1, <1>2, <1>3, <1>4, <1>9 DEF Inner, Agreement, RuntimeMade, DnsAgreed
    <1>10. ASSUME ~Crossed' PROVE PortsKept' /\ ProxyNamed'
        <2>1. PortsKept'
            BY <1>1, <1>2, <1>3, <1>4, <1>10 DEF Inner, Agreement, PortsKept
        <2>2. ASSUME clash.data["mixed-port"] = verge.data.mixed PROVE Desired = PortOf(runtime.data)
            <3>1. MixedOf(runtime.data) = clash.data["mixed-port"]
                BY <1>1, <1>4, <1>10, PatchesAssumption DEF Inner, Agreement, PortsKept
            <3>2. QED
                BY <1>1, <2>2, <3>1, DesiredIsServed
        <2>3. ProxyNamed'
            BY <1>1, <1>2, <1>3, <1>4, <2>2 DEF ProxyNamed
        <2>4. QED
            BY <2>1, <2>3
    <1>11. ASSUME ~Crossed', "unsaved" \notin drift' PROVE FilesAgree'
        BY <1>1, <1>2, <1>3, <1>4, <1>11 DEF Inner, Agreement, FilesAgree
    <1>12. QED
        BY <1>1, <1>2, <1>5, <1>6, <1>7, <1>8, <1>9, <1>10, <1>11 DEF IInv, Inner, Agreement

LEMMA ReturnPortsKeeps ==
    ASSUME IInv, ReturnPorts
    PROVE  IInv'
    <1>1. /\ Types /\ Inner /\ phase = "up" /\ IsPorts /\ ~IsPatch /\ ~IsDns /\ op \in PortOps /\ updating
          /\ reload = "no" /\ op.at = "return" /\ op.borrowed \in {0} \cup Ports
        BY InPorts DEF ReturnPorts
    <1>2. /\ UNCHANGED <<layers, files, core, left, proxy, world, updating, reload, mode, syncs, start, work, faults, drift>>
          /\ fallback' = op.borrowed
        BY DEF ReturnPorts, RestoreBorrowedPort
    <1>3. pac' \in BOOLEAN
        BY DEF ReturnPorts
    <1>4. /\ op' \in PortOps /\ op'.kind = "ports" /\ op'.at = "drop" /\ IsPorts' /\ ~IsPatch' /\ ~IsDns'
          /\ op'.files = op.files /\ op'.borrowed = op.borrowed /\ op'.running = op.running
        BY <1>1, PortsGoto DEF PortPlaces, ReturnPorts
    <1>5. Types'
        BY <1>1, <1>2, <1>3, <1>4 DEF Types, TypeOK
    <1>6. Control'
        BY <1>1, <1>2, <1>4 DEF IInv, Control
    <1>7. Drafts' /\ Staged' /\ Borrowed' /\ CoreRuns'
        BY <1>1, <1>2, <1>4 DEF Inner, Drafts, Staged, Borrowed, CoreRuns
    <1>8. ASSUME ~Crossed' PROVE RuntimeMade' /\ DnsAgreed'
        BY <1>1, <1>2, <1>4, <1>8 DEF Inner, Agreement, RuntimeMade, DnsAgreed
    <1>9. ASSUME ~Crossed' PROVE PortsKept' /\ ProxyNamed'
        BY <1>1, <1>2, <1>4, <1>9 DEF Inner, Agreement, PortsKept, ProxyNamed
    <1>10. ASSUME ~Crossed', "unsaved" \notin drift' PROVE FilesAgree'
        BY <1>1, <1>2, <1>4, <1>10 DEF Inner, Agreement, FilesAgree
    <1>11. QED
        BY <1>1, <1>2, <1>5, <1>6, <1>7, <1>8, <1>9, <1>10 DEF IInv, Inner, Agreement

LEMMA DropPortsKeeps ==
    ASSUME IInv, DropPorts
    PROVE  IInv'
    <1>1. /\ Types /\ Inner /\ phase = "up" /\ IsPorts /\ ~IsPatch /\ ~IsDns /\ op \in PortOps /\ updating
          /\ reload = "no" /\ op.at = "drop"
        BY InPorts DEF DropPorts
    <1>2. /\ op' = Free /\ ~updating' /\ syncs' = TRUE /\ phase' = "up" /\ updating' = FALSE
          /\ UNCHANGED <<files, fallback, serving, world, reload, mode, start, work, faults, drift>>
        BY <1>1 DEF DropPorts, Release
    <1>3. ~IsPatch' /\ ~IsPorts' /\ ~IsDns'
        BY <1>2, PatchesAssumption DEF Free
    <1>4. /\ clash' \in [data : Clashes, draft : Clashes \cup {None}]
          /\ clash'.data = clash.data /\ clash'.draft = None
          /\ verge' \in [data : Verges, draft : Verges \cup {None}]
          /\ verge'.data = verge.data /\ verge'.draft = None
        BY <1>1, ClashLaws, VergeLaws, TypeFacts DEF LayerLaws, DropPorts, DiscardAll
    <1>5. /\ runtime' \in [data : Runs \cup {None}, draft : Runs \cup {None}]
          /\ runtime'.data = runtime.data /\ runtime'.draft = None
        BY <1>1, TypeFacts DEF Discard, Layer, DropPorts, DiscardAll
    <1>6. Types'
        BY <1>1, <1>2, <1>4, <1>5 DEF Types, TypeOK
    <1>7. Control'
        BY <1>1, <1>2, <1>3, <1>5 DEF IInv, Control
    <1>8. Drafts' /\ Staged' /\ Borrowed' /\ CoreRuns'
        BY <1>1, <1>2, <1>3, <1>4, <1>5 DEF Inner, Drafts, Staged, Borrowed, CoreRuns
    <1>9. ASSUME ~Crossed' PROVE RuntimeMade' /\ DnsAgreed'
        BY <1>1, <1>2, <1>3, <1>4, <1>5, <1>9 DEF Inner, Agreement, RuntimeMade, DnsAgreed
    <1>10. ASSUME ~Crossed' PROVE PortsKept' /\ ProxyNamed'
        BY <1>1, <1>2, <1>3, <1>4, <1>5, <1>10 DEF Inner, Agreement, PortsKept, ProxyNamed
    <1>11. ASSUME ~Crossed', "unsaved" \notin drift' PROVE FilesAgree'
        BY <1>1, <1>2, <1>3, <1>4, <1>11 DEF Inner, Agreement, FilesAgree
    <1>12. QED
        BY <1>2, <1>6, <1>7, <1>8, <1>9, <1>10, <1>11 DEF IInv, Inner, Agreement

-----------------------------------------------------------------------------
(* The DNS override: feat/dns.rs, config/dns.rs *)

(* What holds wherever the setting of the DNS override is. *)
LEMMA InDns ==
    ASSUME IInv, IsDns
    PROVE  /\ Types /\ Inner /\ phase = "up" /\ ~IsPatch /\ ~IsPorts /\ op \in DnsOps /\ op # Free
           /\ clash.draft = None /\ Latest(clash) = clash.data
           /\ Latest(verge).mixed = verge.data.mixed
    <1>1. Types /\ op \in DnsOps /\ op # Free /\ ~IsPatch /\ ~IsPorts
        BY OpFacts DEF IInv
    <1>2. Inner /\ phase = "up"
        BY <1>1 DEF IInv, Control
    <1>3. QED
        BY <1>1, <1>2 DEF Inner, Drafts, Staged, Latest

LEMMA DnsGoto ==
    ASSUME Types, IsDns, NEW at \in DnsPlaces, Goto(at)
    PROVE  /\ op' \in DnsOps /\ op'.kind = "dns" /\ op'.at = at /\ IsDns' /\ ~IsPatch' /\ ~IsPorts'
           /\ op'.enabled = op.enabled
    BY OpFacts, GotoFacts

LEMMA StartDnsKeeps ==
    ASSUME IInv, NEW enabled \in BOOLEAN, NEW c, StartDns(enabled, c)
    PROVE  IInv'
    <1> USE DEF StartDns
    <1> DEFINE source == DnsOverrideSource(Text[profile])
               v == [verge.data EXCEPT !.dns = enabled, !.confirmed = IF enabled THEN source ELSE Absent]
    <1>1. /\ Types /\ Inner /\ phase = "up" /\ phase' = "up" /\ op = Free /\ ~IsPatch /\ ~IsPorts /\ ~IsDns
          /\ clash.draft = None /\ verge.draft = None /\ Latest(clash) = clash.data
        BY AtRest DEF IInv
    <1>2. v \in Verges /\ v.dns = enabled /\ v.mixed = verge.data.mixed /\ Plain(v) = Plain(verge.data)
        <2>1. verge.data \in Verges
            BY <1>1, TypeFacts
        <2>2. Absent \in Confirmations /\ source \in Confirmations
            BY <1>1 DEF Confirmations, Types, TypeOK
        <2>3. QED
            BY <2>1, <2>2 DEF Verges, Plain
    <1>3. /\ verge' \in [data : Verges, draft : Verges \cup {None}]
          /\ verge'.data = verge.data /\ verge'.draft = v /\ Latest(verge') = v
        BY <1>1, <1>2, VergeLaws DEF LayerLaws
    <1>4. /\ op' \in DnsOps /\ op'.kind = "dns" /\ op'.at = "claim" /\ op'.enabled = enabled
          /\ IsDns' /\ ~IsPatch' /\ ~IsPorts'
        BY DEF DnsOps, DnsPlaces
    <1>5. UNCHANGED <<clash, runtime, files, fallback, serving, world, updating, reload, mode, syncs, start, faults, drift>>
        OBVIOUS
    <1> HIDE DEF v, StartDns
    <1>6. Types'
        BY <1>1, <1>3, <1>4, <1>5 DEF Types, TypeOK
    <1>7. Control'
        BY <1>1, <1>4, <1>5 DEF IInv, Control
    <1>8. Drafts' /\ Staged' /\ Borrowed' /\ CoreRuns'
        BY <1>1, <1>2, <1>3, <1>4, <1>5, PatchesAssumption DEF Inner, Drafts, Staged, Borrowed, CoreRuns
    <1>9. ASSUME ~Crossed' PROVE RuntimeMade' /\ DnsAgreed'
        BY <1>1, <1>3, <1>4, <1>5, <1>9 DEF Inner, Agreement, RuntimeMade, DnsAgreed
    <1>10. ASSUME ~Crossed' PROVE PortsKept' /\ ProxyNamed'
        BY <1>1, <1>3, <1>4, <1>5, <1>10 DEF Inner, Agreement, PortsKept, ProxyNamed
    <1>11. ASSUME ~Crossed', "unsaved" \notin drift' PROVE FilesAgree'
        BY <1>1, <1>3, <1>4, <1>5, <1>11 DEF Inner, Agreement, FilesAgree
    <1>12. QED
        BY <1>1, <1>5, <1>6, <1>7, <1>8, <1>9, <1>10, <1>11 DEF IInv, Inner, Agreement

LEMMA ClaimDnsKeeps ==
    ASSUME IInv, ClaimDns
    PROVE  IInv'
    <1>1. /\ Types /\ Inner /\ phase = "up" /\ IsDns /\ ~IsPatch /\ ~IsPorts /\ op \in DnsOps /\ op # Free
          /\ clash.draft = None /\ Latest(clash) = clash.data /\ op.at = "claim"
        BY InDns DEF ClaimDns
    <1>2. UNCHANGED <<clash, verge, files, fallback, serving, world, reload, mode, syncs, start, work, faults, drift>>
        BY DEF ClaimDns
    <1>3. CASE updating /\ Goto("drop") /\ UNCHANGED <<updating, runtime>>
        <2>1. /\ op' \in DnsOps /\ op'.kind = "dns" /\ op'.at = "drop" /\ IsDns' /\ ~IsPatch' /\ ~IsPorts'
            BY <1>1, <1>3, DnsGoto DEF DnsPlaces
        <2>2. Types'
            BY <1>1, <1>2, <1>3, <2>1 DEF Types, TypeOK
        <2>3. Control'
            BY <1>1, <1>2, <1>3, <2>1 DEF IInv, Control
        <2>4. Inner'
            BY <1>1, <1>2, <1>3, <2>1 DEF Inner, Drafts, Staged, Borrowed, CoreRuns, Agreement, RuntimeMade, DnsAgreed,
                    PortsKept, ProxyNamed, FilesAgree
        <2>5. QED
            BY <2>2, <2>3, <2>4 DEF IInv
    <1>4. CASE ~updating /\ updating' = TRUE /\ StageNow /\ Goto("apply")
        <2>1. /\ op' \in DnsOps /\ op'.kind = "dns" /\ op'.at = "apply" /\ op'.enabled = op.enabled
              /\ IsDns' /\ ~IsPatch' /\ ~IsPorts'
            BY <1>1, <1>4, DnsGoto DEF DnsPlaces
        <2>2. reload = "no"
            BY <1>4 DEF IInv, Control
        <2>3. /\ runtime'.data = runtime.data /\ runtime'.draft # None
              /\ runtime' \in [data : Runs \cup {None}, draft : Runs \cup {None}]
              /\ runtime'.draft.mode = None /\ runtime'.draft.fallback = fallback
              /\ Fresh(runtime'.draft, Latest(clash), Latest(verge))
              /\ MixedOf(runtime'.draft) = Latest(clash)["mixed-port"]
            BY <1>1, <1>4, StageFacts
        <2>4. Types'
            BY <1>1, <1>2, <1>4, <2>1, <2>3 DEF Types, TypeOK
        <2>5. Control'
            BY <1>1, <1>2, <1>4, <2>1, <2>2 DEF IInv, Control
        <2>6. Drafts' /\ Staged' /\ Borrowed' /\ CoreRuns'
            BY <1>1, <1>2, <2>1, <2>2, <2>3 DEF Inner, Drafts, Staged, Borrowed, CoreRuns
        <2>7. ASSUME ~Crossed' PROVE RuntimeMade' /\ DnsAgreed'
            BY <1>1, <1>2, <2>1, <2>2, <2>3, <2>7 DEF Inner, Agreement, RuntimeMade, DnsAgreed
        <2>8. ASSUME ~Crossed' PROVE PortsKept' /\ ProxyNamed'
            BY <1>1, <1>2, <2>1, <2>2, <2>3, <2>8 DEF Inner, Agreement, PortsKept, ProxyNamed
        <2>9. ASSUME ~Crossed', "unsaved" \notin drift' PROVE FilesAgree'
            BY <1>1, <1>2, <2>1, <2>9 DEF Inner, Agreement, FilesAgree
        <2>10. QED
            BY <1>1, <1>2, <2>4, <2>5, <2>6, <2>7, <2>8, <2>9 DEF IInv, Inner, Agreement
    <1>5. QED
        BY <1>3, <1>4 DEF ClaimDns

LEMMA ApplyDnsKeeps ==
    ASSUME IInv, ApplyDns
    PROVE  IInv'
    <1>1. /\ Types /\ Inner /\ phase = "up" /\ IsDns /\ ~IsPatch /\ ~IsPorts /\ op \in DnsOps /\ op # Free
          /\ clash.draft = None /\ Latest(clash) = clash.data /\ op.at = "apply"
          /\ Latest(verge).mixed = verge.data.mixed
        BY InDns DEF ApplyDns
    <1>2. reload = "no"
        BY <1>1 DEF IInv, Control
    <1> DEFINE next == Latest(runtime)
    <1>3. /\ next \in Runs /\ next # None /\ next = runtime.draft /\ next.mode = None /\ Bare(next) = next
          /\ next.fallback = fallback /\ runtime.draft # None
        BY <1>1, TypeFacts, BareIsSame DEF Inner, Drafts, Latest, Borrowed
    <1>4. PICK o \in Outcomes :
            /\ Reloads(next, o)
            /\ runtime' = Discard(Retained(o)) /\ files' = RunFile(o)
            /\ Goto(IF o = "ok" THEN "settle" ELSE "drop")
            /\ drift' = CASE o = "ok" -> drift \ {"ahead", "overtaken"} [] o = "late" -> drift \cup {"ahead"} [] OTHER -> drift
        BY DEF ApplyDns
    <1>5. /\ updating' = FALSE /\ syncs' = TRUE /\ phase' = "up"
          /\ UNCHANGED <<clash, verge, fallback, world, reload, mode, start, work>>
        BY <1>1 DEF ApplyDns
    <1>6. /\ op' \in DnsOps /\ op'.kind = "dns" /\ IsDns' /\ ~IsPatch' /\ ~IsPorts' /\ op'.enabled = op.enabled
          /\ op'.at = IF o = "ok" THEN "settle" ELSE "drop"
        BY <1>1, <1>4, DnsGoto DEF DnsPlaces
    <1>7. /\ o = "ok" => o \in Taken /\ drift' = drift \ {"ahead", "overtaken"}
          /\ o = "late" => o \in Taken /\ drift' = drift \cup {"ahead"}
          /\ o \notin Taken => drift' = drift /\ o \notin {"ok", "late"}
          /\ o \in Taken => o = "ok" \/ o = "late"
        BY <1>4 DEF Taken
    <1>8. /\ o \in Taken => core' = next
          /\ o = "dead" => core' = None
          /\ o \in {"kept", "refused"} => core' = core /\ proxy' = proxy
          /\ core' \in Runs \cup {None} /\ left' \in Runs \cup {None} /\ pac' \in BOOLEAN
          /\ proxy' \in {0} \cup Ports /\ faults' \in Nat
        BY <1>1, <1>3, <1>4, ReloadFacts
    <1>9. /\ runtime' \in [data : Runs \cup {None}, draft : Runs \cup {None}] /\ runtime'.draft = None
          /\ o \in Taken => runtime'.data = next
          /\ o \notin Taken => runtime'.data = runtime.data
        BY <1>1, <1>3, <1>4, TypeFacts DEF Retained, Discard, Commit, Layer
    <1>10. files' \in Files /\ files'.clash = files.clash /\ files'.verge = files.verge
        BY <1>1, <1>3, <1>4, TypeFacts DEF RunFile, Files
    <1>11. drift' \subseteq {"ahead", "stayed", "astray", "crossed", "unsaved", "unsynced", "overtaken"}
        BY <1>1, <1>7, TypeFacts
    <1>12. Types'
        BY <1>1, <1>5, <1>6, <1>8, <1>9, <1>10, <1>11 DEF Types, TypeOK, Files
    <1>13. Control'
        BY <1>1, <1>2, <1>5, <1>6, <1>7 DEF IInv, Control
    <1>14. Drafts' /\ Staged' /\ Borrowed'
        BY <1>1, <1>2, <1>3, <1>5, <1>6, <1>7, <1>9 DEF Inner, Drafts, Staged, Borrowed
    <1>15. CoreRuns'
        BY <1>1, <1>2, <1>3, <1>4, <1>5, <1>6, <1>7, <1>8, <1>9 DEF Inner, CoreRuns, Outcomes
    <1>16. ASSUME ~Crossed' PROVE RuntimeMade' /\ DnsAgreed'
        <2>1. Fresh(next, Latest(clash), Latest(verge)) /\ Plain(Latest(verge)) = Plain(verge.data) /\ ~Crossed
            BY <1>1, <1>3, <1>7, <1>16 DEF Inner, Agreement, RuntimeMade, Staged, Latest
        <2>2. Made(next, clash.data, verge.data)
            BY <1>1, <2>1 DEF Fresh, Made
        <2>3. RuntimeMade'
            BY <1>1, <1>2, <1>5, <1>6, <1>7, <1>9, <1>16, <2>2 DEF Inner, Agreement, RuntimeMade
        <2>4. DnsAgreed'
            BY <1>1, <1>2, <1>5, <1>6, <1>7, <1>9, <1>16, <2>1 DEF Inner, Agreement, DnsAgreed
        <2>5. QED
            BY <2>3, <2>4
    <1>17. ASSUME ~Crossed' PROVE PortsKept' /\ ProxyNamed'
        <2>1. MixedOf(next) = clash.data["mixed-port"] /\ ~Crossed
            BY <1>1, <1>3, <1>7, <1>17 DEF Inner, Agreement, PortsKept
        <2>2. PortsKept'
            BY <1>1, <1>2, <1>5, <1>6, <1>7, <1>9, <1>17, <2>1 DEF Inner, Agreement, PortsKept
        <2>3. ProxyNamed'
            BY <1>1, <1>2, <1>3, <1>4, <1>5, <1>6, <1>7, <1>8, <1>9, <1>17, <2>1, NamedAfter DEF Inner, Agreement, ProxyNamed, Outcomes
        <2>4. QED
            BY <2>2, <2>3
    <1>18. ASSUME ~Crossed', "unsaved" \notin drift' PROVE FilesAgree'
        BY <1>1, <1>2, <1>5, <1>6, <1>7, <1>10, <1>18 DEF Inner, Agreement, FilesAgree
    <1>19. QED
        BY <1>5, <1>12, <1>13, <1>14, <1>15, <1>16, <1>17, <1>18 DEF IInv, Inner, Agreement

(* Settled, the settings say of the override what the runtime has of it: what was
   asked for, or that it is off when the runtime could not have it. *)
LEMMA SettleDnsKeeps ==
    ASSUME IInv, SettleDns
    PROVE  IInv'
    <1>1. /\ Types /\ Inner /\ phase = "up" /\ IsDns /\ ~IsPatch /\ ~IsPorts /\ op \in DnsOps /\ op # Free
          /\ clash.draft = None /\ Latest(clash) = clash.data /\ op.at = "settle"
          /\ Latest(verge).mixed = verge.data.mixed
        BY InDns DEF SettleDns
    <1>2. UNCHANGED <<clash, runtime, files, fallback, serving, world, updating, reload, mode, syncs, start, work,
                      faults, drift>>
        BY DEF SettleDns
    <1>3. /\ op' \in DnsOps /\ op'.kind = "dns" /\ op'.at = "save" /\ IsDns' /\ ~IsPatch' /\ ~IsPorts'
        BY <1>1, DnsGoto DEF DnsPlaces, SettleDns
    <1> DEFINE state == DnsOf(runtime.data)
               off == op.enabled /\ state # None /\ ~state.enabled
               v == IF off THEN [Latest(verge) EXCEPT !.dns = FALSE, !.confirmed = Absent] ELSE Latest(verge)
    <1>4. /\ Latest(verge) \in Verges /\ verge.draft # None /\ Latest(verge) = verge.draft
          /\ Plain(Latest(verge)) = Plain(verge.data) /\ Latest(verge).dns = op.enabled
        BY <1>1, TypeFacts DEF Inner, Staged, Latest
    <1>5. v \in Verges /\ v.mixed = verge.data.mixed /\ Plain(v) = Plain(verge.data)
          /\ v.dns = IF off THEN FALSE ELSE op.enabled
        <2>1. Absent \in Confirmations
            BY DEF Confirmations
        <2>2. CASE off
            BY <1>1, <1>4, <2>1, <2>2 DEF Verges, Plain
        <2>3. CASE ~off
            BY <1>1, <1>4, <2>3
        <2>4. QED
            BY <2>2, <2>3
    <1>6. verge' = Layer(v)
        BY DEF SettleDns, Commit
    <1>7. /\ verge' \in [data : Verges, draft : Verges \cup {None}]
          /\ verge'.data = v /\ verge'.draft = None /\ Latest(verge') = v
        BY <1>1, <1>5, <1>6, VergeLaws DEF LayerLaws
    <1>8. reload = "staged" => Crossed
        BY <1>1 DEF IInv, Control
    <1>9. ASSUME ~Crossed PROVE Served(runtime.data, v)
        <2>1. SUFFICES ASSUME state # None PROVE state.enabled = v.dns
            BY DEF Served
        <2>2. /\ runtime.data # None /\ runtime.data.verge = Latest(verge)
              /\ state = DnsOverrideState(Text[runtime.data.profile], runtime.data.verge)
            BY <1>1, <1>9, <2>1 DEF Inner, Agreement, DnsAgreed, Fresh, DnsOf
        <2>3. state.enabled = (op.enabled /\ state.source \in {Absent, Latest(verge).confirmed})
            BY <1>4, <2>2 DEF DnsOverrideState
        <2>4. op.enabled \in BOOLEAN /\ state.enabled \in BOOLEAN
            BY <1>1, <2>3 DEF DnsOps
        <2>5. CASE off
            BY <1>5, <2>4, <2>5
        <2>6. CASE ~off
            BY <1>5, <2>1, <2>3, <2>4, <2>6
        <2>7. QED
            BY <2>5, <2>6
    <1> HIDE DEF v, off, state
    <1>10. Types'
        BY <1>1, <1>2, <1>3, <1>7 DEF Types, TypeOK
    <1>11. Control'
        BY <1>1, <1>2, <1>3, <1>8 DEF IInv, Control
    <1>12. Drafts' /\ Staged' /\ Borrowed' /\ CoreRuns'
        BY <1>1, <1>2, <1>3, <1>7 DEF Inner, Drafts, Staged, Borrowed, CoreRuns
    <1>13. ASSUME ~Crossed' PROVE RuntimeMade' /\ DnsAgreed'
        BY <1>1, <1>2, <1>3, <1>5, <1>7, <1>8, <1>9, <1>13 DEF Inner, Agreement, RuntimeMade, DnsAgreed, Made
    <1>14. ASSUME ~Crossed' PROVE PortsKept' /\ ProxyNamed'
        BY <1>1, <1>2, <1>3, <1>5, <1>7, <1>14 DEF Inner, Agreement, PortsKept, ProxyNamed
    <1>15. ASSUME ~Crossed', "unsaved" \notin drift' PROVE FilesAgree'
        BY <1>1, <1>2, <1>3, <1>7, <1>15 DEF Inner, Agreement, FilesAgree
    <1>16. QED
        BY <1>1, <1>2, <1>10, <1>11, <1>12, <1>13, <1>14, <1>15 DEF IInv, Inner, Agreement

LEMMA SaveDnsKeeps ==
    ASSUME IInv, SaveDns
    PROVE  IInv'
    <1>1. /\ Types /\ Inner /\ phase = "up" /\ IsDns /\ ~IsPatch /\ ~IsPorts /\ op \in DnsOps /\ op # Free
          /\ clash.draft = None /\ verge.draft = None /\ op.at = "save"
        BY InDns DEF SaveDns, Inner, Drafts
    <1>2. UNCHANGED <<clash, verge, runtime, fallback, serving, world, updating, reload, mode, syncs, start, work>>
        BY DEF SaveDns
    <1>3. op' = Free /\ ~IsPatch' /\ ~IsPorts' /\ ~IsDns'
        BY PatchesAssumption DEF SaveDns, Free
    <1>4. /\ files' \in Files /\ faults' \in Nat /\ files'.clash = files.clash
          /\ files'.verge = verge.data \/ "unsaved" \in drift'
          /\ drift' \subseteq {"ahead", "stayed", "astray", "crossed", "unsaved", "unsynced", "overtaken"}
          /\ drift' \ {"unsaved"} = ((drift \ {"unsynced"}) \cup Overtaken) \ {"unsaved"}
          /\ drift \ {"unsynced"} \subseteq drift'
        <2>1. verge'.data \in Verges /\ verge' = verge
            BY <1>1, <1>2, TypeFacts
        <2>2. QED
            BY <1>1, <2>1, SaveVergeFacts DEF SaveDns
    <1>5. /\ Crossed' <=> Crossed
          /\ Ahead' <=> Ahead
          /\ "stayed" \in drift' <=> "stayed" \in drift
          /\ "astray" \in drift' <=> "astray" \in drift
          /\ "unsaved" \notin drift' => "unsaved" \notin drift
          /\ "overtaken" \notin drift' => "overtaken" \notin drift
        BY <1>4 DEF Overtaken
    <1>6. reload = "staged" => Crossed
        BY <1>1 DEF IInv, Control
    <1>7. Types'
        BY <1>1, <1>2, <1>3, <1>4 DEF Types, TypeOK, Files
    <1>8. Control'
        BY <1>1, <1>2, <1>3, <1>5 DEF IInv, Control
    <1>9. Drafts' /\ Staged' /\ Borrowed' /\ CoreRuns'
        BY <1>1, <1>2, <1>3, <1>5 DEF Inner, Drafts, Staged, Borrowed, CoreRuns
    <1>10. ASSUME ~Crossed' PROVE RuntimeMade' /\ DnsAgreed'
        BY <1>1, <1>2, <1>3, <1>5, <1>6, <1>10 DEF Inner, Agreement, RuntimeMade, DnsAgreed
    <1>11. ASSUME ~Crossed' PROVE PortsKept' /\ ProxyNamed'
        BY <1>1, <1>2, <1>3, <1>5, <1>11 DEF Inner, Agreement, PortsKept, ProxyNamed
    <1>12. ASSUME ~Crossed', "unsaved" \notin drift' PROVE FilesAgree'
        BY <1>1, <1>2, <1>3, <1>4, <1>5, <1>12 DEF Inner, Agreement, FilesAgree
    <1>13. QED
        BY <1>1, <1>2, <1>7, <1>8, <1>9, <1>10, <1>11, <1>12 DEF IInv, Inner, Agreement

LEMMA DropDnsKeeps ==
    ASSUME IInv, DropDns
    PROVE  IInv'
    <1>1. /\ Types /\ Inner /\ phase = "up" /\ IsDns /\ ~IsPatch /\ ~IsPorts /\ op \in DnsOps /\ op # Free
          /\ clash.draft = None /\ op.at = "drop"
        BY InDns DEF DropDns
    <1>2. UNCHANGED <<clash, runtime, files, fallback, serving, world, updating, reload, mode, syncs, start, work,
                      faults, drift>>
        BY DEF DropDns
    <1>3. op' = Free /\ ~IsPatch' /\ ~IsPorts' /\ ~IsDns'
        BY PatchesAssumption DEF DropDns, Free
    <1>4. /\ verge' \in [data : Verges, draft : Verges \cup {None}]
          /\ verge'.data = verge.data /\ verge'.draft = None
        BY <1>1, VergeLaws, TypeFacts DEF LayerLaws, DropDns
    <1>5. Types'
        BY <1>1, <1>2, <1>3, <1>4 DEF Types, TypeOK
    <1>6. Control'
        BY <1>1, <1>2, <1>3 DEF IInv, Control
    <1>7. Inner'
        BY <1>1, <1>2, <1>3, <1>4 DEF Inner, Drafts, Staged, Borrowed, CoreRuns, Agreement, RuntimeMade, DnsAgreed,
                    PortsKept, ProxyNamed, FilesAgree
    <1>8. QED
        BY <1>5, <1>6, <1>7 DEF IInv

LEMMA SyncDnsKeeps ==
    ASSUME IInv, SyncDns
    PROVE  IInv'
    <1>1. /\ Types /\ Inner /\ phase = "up" /\ op = Free /\ ~IsPatch /\ ~IsPorts /\ ~IsDns
          /\ clash.draft = None /\ verge.draft = None
        BY AtRest DEF SyncDns, IInv
    <1>2. /\ Synchronise /\ syncs' = FALSE
          /\ UNCHANGED <<clash, runtime, fallback, serving, world, updating, op, reload, mode, start, work>>
        BY DEF SyncDns
    <1>3. /\ verge' \in [data : Verges, draft : Verges \cup {None}] /\ verge'.draft = None
          /\ Plain(verge'.data) = Plain(verge.data) /\ verge'.data.mixed = verge.data.mixed
          /\ Served(runtime.data, verge.data) \/ Asks(runtime.data, verge.data) => Served(runtime.data, verge'.data)
          /\ verge' = verge \/ reload # "staged" \/ "overtaken" \in drift'
          /\ files' \in Files /\ faults' \in Nat /\ files'.clash = files.clash
          /\ files.verge = verge.data => files'.verge = verge'.data \/ "unsaved" \in drift'
          /\ drift' \subseteq {"ahead", "stayed", "astray", "crossed", "unsaved", "unsynced", "overtaken"}
          /\ drift' \ {"unsynced", "unsaved", "overtaken"} = drift \ {"unsynced", "unsaved", "overtaken"}
          /\ drift \ {"unsynced"} \subseteq drift'
        BY <1>1, <1>2, SynchroniseFacts
    <1>4. /\ Crossed' <=> Crossed
          /\ Ahead' <=> Ahead
          /\ "stayed" \in drift' <=> "stayed" \in drift
          /\ "astray" \in drift' <=> "astray" \in drift
          /\ "unsaved" \notin drift' => "unsaved" \notin drift
          /\ "overtaken" \notin drift' => "overtaken" \notin drift
        BY <1>3
    <1>5. Types'
        <2>1. files' \in [clash : Clashes, verge : Verges, runtime : Runs \cup {None}] /\ syncs' \in BOOLEAN
            BY <1>2, <1>3 DEF Files
        <2>2. UNCHANGED <<clash, runtime, core, left, fallback, proxy, taken, profile, mode, pac, updating, reload, phase,
                          retries, op>>
            BY <1>2
        <2>3. QED
            BY <1>1, <1>3, <2>1, <2>2 DEF Types, TypeOK
    <1>6. Control'
        BY <1>1, <1>2, <1>4 DEF IInv, Control
    <1>7. Drafts' /\ Staged' /\ Borrowed' /\ CoreRuns'
        BY <1>1, <1>2, <1>3, <1>4 DEF Inner, Drafts, Staged, Borrowed, CoreRuns
    <1>8. ASSUME ~Crossed' PROVE RuntimeMade' /\ DnsAgreed'
        BY <1>1, <1>2, <1>3, <1>4, <1>8 DEF Inner, Agreement, RuntimeMade, DnsAgreed, Made
    <1>9. ASSUME ~Crossed' PROVE PortsKept' /\ ProxyNamed'
        BY <1>1, <1>2, <1>3, <1>4, <1>9 DEF Inner, Agreement, PortsKept, ProxyNamed
    <1>10. ASSUME ~Crossed', "unsaved" \notin drift' PROVE FilesAgree'
        BY <1>1, <1>2, <1>3, <1>4, <1>10 DEF Inner, Agreement, FilesAgree
    <1>11. QED
        BY <1>1, <1>2, <1>5, <1>6, <1>7, <1>8, <1>9, <1>10 DEF IInv, Inner, Agreement

-----------------------------------------------------------------------------
(* Updates and restarts without the lock *)

LEMMA StartReloadKeeps ==
    ASSUME IInv, StartReload
    PROVE  IInv'
    <1> USE DEF StartReload
    <1>1. /\ Types /\ Inner /\ phase = "up" /\ ~IsPatch /\ ~IsPorts /\ ~At("dns", "apply") /\ reload = "no"
          /\ runtime.draft = None /\ clash.draft = None
        BY AtLeisure
    <1>2. Types'
        BY <1>1 DEF Types, TypeOK
    <1>3. Control'
        BY <1>1 DEF IInv, Control
    <1>4. Inner'
        BY <1>1 DEF Inner, Drafts, Staged, Borrowed, CoreRuns, Agreement, RuntimeMade, DnsAgreed, PortsKept, ProxyNamed,
                    FilesAgree
    <1>5. QED
        BY <1>2, <1>3, <1>4 DEF IInv

(* What holds while such an update goes on. *)
LEMMA InReload ==
    ASSUME IInv, reload # "no"
    PROVE  /\ Types /\ Inner /\ phase = "up" /\ ~IsPatch /\ ~IsPorts /\ ~At("dns", "apply") /\ updating
           /\ clash.draft = None /\ Latest(clash) = clash.data
           /\ Latest(verge).mixed = verge.data.mixed
    <1>1. Types /\ Inner /\ phase = "up" /\ ~IsPatch /\ ~IsPorts /\ ~At("dns", "apply") /\ updating
        BY DEF IInv, Control
    <1>2. QED
        BY <1>1 DEF Inner, Drafts, Staged, Latest

LEMMA GenerateForReloadKeeps ==
    ASSUME IInv, GenerateForReload
    PROVE  IInv'
    <1>1. /\ Types /\ Inner /\ phase = "up" /\ ~IsPatch /\ ~IsPorts /\ ~At("dns", "apply") /\ updating
          /\ clash.draft = None /\ Latest(clash) = clash.data /\ reload = "claimed"
        BY InReload DEF GenerateForReload
    <1>2. /\ reload' = "staged" /\ phase' = "up"
          /\ drift \subseteq drift' /\ drift' \subseteq drift \cup {"crossed"}
          /\ ~Crossed' => op = Free
          /\ UNCHANGED <<clash, verge, files, fallback, serving, world, updating, op, mode, syncs, start, work, faults>>
        BY <1>1 DEF GenerateForReload
    <1>3. /\ runtime'.data = runtime.data /\ runtime'.draft # None
          /\ runtime' \in [data : Runs \cup {None}, draft : Runs \cup {None}]
          /\ runtime'.draft.mode = None /\ runtime'.draft.fallback = fallback
          /\ Fresh(runtime'.draft, Latest(clash), Latest(verge))
          /\ MixedOf(runtime'.draft) = Latest(clash)["mixed-port"]
        BY <1>1, StageFacts DEF GenerateForReload
    <1>4. Types'
        BY <1>1, <1>2, <1>3 DEF Types, TypeOK
    <1>5. Control'
        BY <1>1, <1>2, OpFacts DEF IInv, Control
    <1>6. Drafts' /\ Staged' /\ Borrowed' /\ CoreRuns'
        BY <1>1, <1>2, <1>3 DEF Inner, Drafts, Staged, Borrowed, CoreRuns
    <1>7. ASSUME ~Crossed' PROVE RuntimeMade' /\ DnsAgreed'
        <2>1. op = Free /\ ~IsDns /\ Latest(verge) = verge.data
            BY <1>1, <1>2, <1>7, AtRest
        <2>2. Made(runtime'.draft, clash.data, verge.data) /\ Asks(runtime'.draft, verge.data)
            BY <1>1, <1>3, <2>1, FreshIsMade
        <2>3. QED
            BY <1>1, <1>2, <1>3, <1>7, <2>1, <2>2 DEF Inner, Agreement, RuntimeMade, DnsAgreed
    <1>8. ASSUME ~Crossed' PROVE PortsKept' /\ ProxyNamed'
        BY <1>1, <1>2, <1>3, <1>8 DEF Inner, Agreement, PortsKept, ProxyNamed
    <1>9. ASSUME ~Crossed', "unsaved" \notin drift' PROVE FilesAgree'
        BY <1>1, <1>2, <1>9 DEF Inner, Agreement, FilesAgree
    <1>10. QED
        BY <1>1, <1>2, <1>4, <1>5, <1>6, <1>7, <1>8, <1>9 DEF IInv, Inner, Agreement

LEMMA ApplyReloadKeeps ==
    ASSUME IInv, ApplyReload
    PROVE  IInv'
    <1>1. /\ Types /\ Inner /\ phase = "up" /\ ~IsPatch /\ ~IsPorts /\ ~At("dns", "apply") /\ updating
          /\ clash.draft = None /\ Latest(clash) = clash.data /\ reload = "staged"
          /\ Latest(verge).mixed = verge.data.mixed
        BY InReload DEF ApplyReload
    <1> DEFINE next == Latest(runtime)
    <1>2. /\ next \in Runs /\ next # None /\ next = runtime.draft /\ next.mode = None /\ Bare(next) = next
          /\ next.fallback = fallback /\ runtime.draft # None
        BY <1>1, TypeFacts, BareIsSame DEF Inner, Drafts, Latest, Borrowed
    <1>3. PICK o \in Outcomes :
            /\ Reloads(next, o)
            /\ runtime' = Discard(Retained(o)) /\ files' = RunFile(o)
            /\ drift' = IF o \in Taken THEN drift \ {"ahead", "stayed"} ELSE drift
        BY DEF ApplyReload
    <1>4. /\ reload' = "no" /\ updating' = FALSE /\ syncs' = TRUE /\ phase' = "up"
          /\ UNCHANGED <<clash, verge, fallback, world, op, mode, start, work>>
        BY <1>1 DEF ApplyReload
    <1>5. /\ o \in Taken => core' = next
          /\ o = "dead" => core' = None
          /\ o \in {"kept", "refused"} => core' = core /\ proxy' = proxy
          /\ core' \in Runs \cup {None} /\ left' \in Runs \cup {None} /\ pac' \in BOOLEAN
          /\ proxy' \in {0} \cup Ports /\ faults' \in Nat
        BY <1>1, <1>2, <1>3, ReloadFacts
    <1>6. /\ runtime' \in [data : Runs \cup {None}, draft : Runs \cup {None}] /\ runtime'.draft = None
          /\ o \in Taken => runtime'.data = next
          /\ o \notin Taken => runtime'.data = runtime.data
        BY <1>1, <1>2, <1>3, TypeFacts DEF Retained, Discard, Commit, Layer
    <1>7. files' \in Files /\ files'.clash = files.clash /\ files'.verge = files.verge
        BY <1>1, <1>2, <1>3, TypeFacts DEF RunFile, Files
    <1>8. /\ drift' \subseteq {"ahead", "stayed", "astray", "crossed", "unsaved", "unsynced", "overtaken"}
          /\ drift' \subseteq drift /\ drift \subseteq drift' \cup {"ahead", "stayed"}
          /\ o \notin Taken => drift' = drift
          /\ o \in Taken => ~Ahead' /\ "stayed" \notin drift'
        BY <1>1, <1>3, TypeFacts
    <1>9. Types'
        BY <1>1, <1>4, <1>5, <1>6, <1>7, <1>8 DEF Types, TypeOK, Files
    <1>10. Control'
        BY <1>1, <1>4, <1>8 DEF IInv, Control
    <1>11. Drafts' /\ Staged' /\ Borrowed'
        BY <1>1, <1>2, <1>4, <1>6, <1>8 DEF Inner, Drafts, Staged, Borrowed
    <1>12. CoreRuns'
        BY <1>1, <1>2, <1>3, <1>4, <1>5, <1>6, <1>8 DEF Inner, CoreRuns, Outcomes
    <1>13. ASSUME ~Crossed' PROVE RuntimeMade' /\ DnsAgreed'
        <2>1. ~Crossed /\ ~At("dns", "settle") /\ ~At("dns", "save")
            BY <1>1, <1>8, <1>13 DEF IInv, Control
        <2>2. /\ Made(next, clash.data, verge.data)
              /\ "overtaken" \notin drift => Asks(next, verge.data)
            BY <1>1, <1>2, <2>1 DEF Inner, Agreement, RuntimeMade
        <2>3. RuntimeMade'
            BY <1>1, <1>4, <1>6, <1>8, <2>1, <2>2 DEF Inner, Agreement, RuntimeMade
        <2>4. DnsAgreed'
            BY <1>1, <1>4, <1>6, <1>8, <2>1, <2>2 DEF Inner, Agreement, DnsAgreed
        <2>5. QED
            BY <2>3, <2>4
    <1>14. ASSUME ~Crossed' PROVE PortsKept' /\ ProxyNamed'
        <2>1. MixedOf(next) = clash.data["mixed-port"] /\ ~Crossed
            BY <1>1, <1>2, <1>8, <1>14 DEF Inner, Agreement, PortsKept
        <2>2. PortsKept'
            BY <1>1, <1>4, <1>6, <2>1 DEF Inner, Agreement, PortsKept
        <2>3. ProxyNamed'
            BY <1>1, <1>2, <1>3, <1>4, <1>5, <1>6, <1>8, <2>1, NamedAfter DEF Inner, Agreement, ProxyNamed, Outcomes
        <2>4. QED
            BY <2>2, <2>3
    <1>15. ASSUME ~Crossed', "unsaved" \notin drift' PROVE FilesAgree'
        BY <1>1, <1>4, <1>7, <1>8, <1>15 DEF Inner, Agreement, FilesAgree
    <1>16. QED
        BY <1>4, <1>9, <1>10, <1>11, <1>12, <1>13, <1>14, <1>15 DEF IInv, Inner, Agreement

LEMMA RestartCoreKeeps ==
    ASSUME IInv, RestartCore
    PROVE  IInv'
    <1>1. /\ Types /\ Inner /\ phase = "up" /\ ~updating /\ ~IsPatch /\ ~IsPorts /\ ~At("dns", "apply") /\ reload = "no"
          /\ runtime.draft = None /\ Latest(runtime) = runtime.data /\ clash.draft = None
          /\ runtime.data # None /\ runtime.data \in Runs /\ runtime.data.mode = None /\ Bare(runtime.data) = runtime.data
          /\ Latest(verge).mixed = verge.data.mixed /\ runtime.data.fallback = fallback
        <2>1. /\ Types /\ Inner /\ phase = "up" /\ ~updating /\ ~IsPatch /\ ~IsPorts /\ ~At("dns", "apply") /\ reload = "no"
              /\ runtime.draft = None /\ Latest(runtime) = runtime.data /\ clash.draft = None
              /\ runtime.data # None
            BY AtLeisure DEF RestartCore
        <2>2. runtime.data \in Runs /\ runtime.data.mode = None /\ Bare(runtime.data) = runtime.data
            BY <2>1, TypeFacts, BareIsSame DEF Inner, Drafts
        <2>3. Latest(verge).mixed = verge.data.mixed /\ runtime.data.fallback = fallback
            BY <2>1 DEF Inner, Drafts, Staged, Borrowed, Latest
        <2>4. QED
            BY <2>1, <2>2, <2>3
    <1>2. PICK o \in Outcomes :
            /\ Restarts(runtime.data, o)
            /\ files' = RunFile(o)
            /\ drift' = IF o \in Taken THEN drift \ {"stayed", "astray"} ELSE drift
        BY <1>1 DEF RestartCore
    <1>3. /\ syncs' = TRUE /\ phase' = "up"
          /\ UNCHANGED <<layers, fallback, world, updating, op, reload, mode, start>>
        BY <1>1 DEF RestartCore
    <1>4. /\ core' \in Runs \cup {None} /\ left' \in Runs \cup {None} /\ pac' \in BOOLEAN
          /\ proxy' \in {0} \cup Ports /\ faults' \in Nat
          /\ \/ o \in Taken /\ core' = runtime.data /\ proxy' \in {0, Desired} /\ drift' = drift \ {"stayed", "astray"}
             \/ core' = None /\ drift' = drift
             \/ core' = core /\ proxy' = proxy /\ drift' = drift
        BY <1>1, <1>2, RestartFacts, ProxyFacts DEF Taken
    <1>5. files' \in Files /\ files'.clash = files.clash /\ files'.verge = files.verge
        BY <1>1, <1>2, TypeFacts DEF RunFile, Files
    <1>6. /\ drift' \subseteq {"ahead", "stayed", "astray", "crossed", "unsaved", "unsynced", "overtaken"}
          /\ Crossed' <=> Crossed
          /\ Ahead' <=> Ahead
          /\ "unsaved" \in drift' <=> "unsaved" \in drift
          /\ "overtaken" \in drift' <=> "overtaken" \in drift
          /\ "unsynced" \in drift' <=> "unsynced" \in drift
          /\ "stayed" \in drift' => "astray" \in drift'
        BY <1>1, <1>4, TypeFacts DEF IInv, Control
    <1>7. Types'
        BY <1>1, <1>3, <1>4, <1>5, <1>6 DEF Types, TypeOK, Files
    <1>8. Control'
        BY <1>1, <1>3, <1>6 DEF IInv, Control
    <1>9. Drafts' /\ Staged' /\ Borrowed'
        BY <1>1, <1>3, <1>6 DEF Inner, Drafts, Staged, Borrowed
    <1>10. CoreRuns'
        BY <1>1, <1>3, <1>4 DEF Inner, CoreRuns
    <1>11. ASSUME ~Crossed' PROVE RuntimeMade' /\ DnsAgreed'
        BY <1>1, <1>3, <1>6, <1>11 DEF Inner, Agreement, RuntimeMade, DnsAgreed
    <1>12. ASSUME ~Crossed' PROVE PortsKept' /\ ProxyNamed'
        <2>1. MixedOf(runtime.data) = clash.data["mixed-port"] /\ ~Crossed
            BY <1>1, <1>6, <1>12 DEF Inner, Agreement, PortsKept
        <2>2. PortsKept'
            BY <1>1, <1>3, <1>6, <1>12 DEF Inner, Agreement, PortsKept
        <2>3. clash.data["mixed-port"] = verge.data.mixed => Desired = PortOf(runtime.data)
            BY <1>1, <2>1, DesiredIsServed
        <2>4. ProxyNamed'
            BY <1>1, <1>3, <1>4, <2>1, <2>3 DEF Inner, Agreement, ProxyNamed
        <2>5. QED
            BY <2>2, <2>4
    <1>13. ASSUME ~Crossed', "unsaved" \notin drift' PROVE FilesAgree'
        BY <1>1, <1>3, <1>5, <1>6, <1>13 DEF Inner, Agreement, FilesAgree
    <1>14. QED
        BY <1>3, <1>7, <1>8, <1>9, <1>10, <1>11, <1>12, <1>13 DEF IInv, Inner, Agreement

-----------------------------------------------------------------------------
(* The invariant *)

LEMMA InitHolds == Init => IInv
    <1> SUFFICES ASSUME Init PROVE IInv
        OBVIOUS
    <1>1. DefaultClash \in Clashes /\ DefaultVerge \in Verges /\ MaxFaults \in Nat
        BY ClashesAssumption, PatchesAssumption
    <1>2. TypeOK
        <2>1. clash = [data |-> DefaultClash, draft |-> None] /\ clash \in [data : Clashes, draft : Clashes \cup {None}]
            BY <1>1 DEF Init, Layer
        <2>2. verge = [data |-> DefaultVerge, draft |-> None] /\ verge \in [data : Verges, draft : Verges \cup {None}]
            BY <1>1 DEF Init, Layer
        <2>3. runtime \in [data : Runs \cup {None}, draft : Runs \cup {None}]
            BY DEF Init, Layer
        <2>4. files \in [clash : Clashes, verge : Verges, runtime : Runs \cup {None}]
            BY <1>1 DEF Init
        <2>5. faults \in Nat /\ retries \in 0 .. MaxRetries /\ profile \in Profiles
            BY <1>1 DEF Init, MaxRetries
        <2>6. QED
            BY <2>1, <2>2, <2>3, <2>4, <2>5 DEF Init, TypeOK
    <1>3. Types
        BY <1>2 DEF Init, Types
    <1>4. Control
        BY PatchesAssumption DEF Init, Control, Free
    <1>5. QED
        BY <1>3, <1>4 DEF IInv, Init

LEMMA NextKeeps == IInv /\ [Next]_vars => IInv'
    <1> SUFFICES ASSUME IInv, [Next]_vars PROVE IInv'
        OBVIOUS
    <1>1. CASE Commands
        BY <1>1, StartPatchKeeps, StartPortsKeeps, StartDnsKeeps, StartReloadKeeps, RestartCoreKeeps, PatchModeKeeps
           DEF Commands
    <1>2. CASE Environment
        BY <1>2, OthersKeep, StartPatchKeeps, CrashKeeps DEF Environment
    <1>3. CASE Steps
        <2>1. CASE \/ GenerateForPatch \/ ApplyForPatch \/ ProxyForPatch \/ TrayForPatch \/ SavePatch \/ CommitPatch
                   \/ RollbackPatch
            BY <2>1, GenerateForPatchKeeps, ApplyForPatchKeeps, ProxyForPatchKeeps, TrayForPatchKeeps, SavePatchKeeps,
               CommitPatchKeeps, RollbackPatchKeeps
        <2>2. CASE \/ ProbePorts \/ RestartForPorts \/ PersistClash \/ PersistVerge \/ CommitPorts \/ UndoPorts
                   \/ RestoreCore \/ ReturnPorts \/ DropPorts
            BY <2>2, ProbePortsKeeps, RestartForPortsKeeps, PersistKeeps, CommitPortsKeeps, UndoPortsKeeps,
               RestoreCoreKeeps, ReturnPortsKeeps, DropPortsKeeps
        <2>3. CASE ClaimDns \/ ApplyDns \/ SettleDns \/ SaveDns \/ DropDns \/ SyncDns
            BY <2>3, ClaimDnsKeeps, ApplyDnsKeeps, SettleDnsKeeps, SaveDnsKeeps, DropDnsKeeps, SyncDnsKeeps
        <2>4. CASE GenerateForReload \/ ApplyReload \/ SaveMode
            BY <2>4, GenerateForReloadKeeps, ApplyReloadKeeps, SaveModeKeeps
        <2>5. CASE \/ Launch \/ ReconcileTun \/ ResolvePort \/ GenerateAtStart \/ SyncAtStart \/ StartCore \/ RetryPort
            BY <2>5, LaunchKeeps, ReconcileTunKeeps, ResolvePortKeeps, GenerateAtStartKeeps, SyncAtStartKeeps,
               StartCoreKeeps, RetryPortKeeps
        <2>6. QED
            BY <1>3, <2>1, <2>2, <2>3, <2>4, <2>5 DEF Steps
    <1>4. CASE UNCHANGED vars
        <2>1. Types' /\ Control'
            BY <1>4 DEF vars, IInv, Types, TypeOK, Control
        <2>2. /\ Drafts => Drafts'
              /\ Borrowed => Borrowed'
              /\ CoreRuns => CoreRuns'
            BY <1>4 DEF vars, Drafts, Borrowed, CoreRuns
        <2>3. Staged => Staged'
            BY <1>4 DEF vars, Staged, Latest
        <2>4. RuntimeMade => RuntimeMade'
            BY <1>4 DEF vars, RuntimeMade, Latest
        <2>5. DnsAgreed => DnsAgreed'
            BY <1>4 DEF vars, DnsAgreed, Latest
        <2>6. /\ PortsKept => PortsKept'
              /\ ProxyNamed => ProxyNamed'
              /\ FilesAgree => FilesAgree'
            BY <1>4 DEF vars, PortsKept, ProxyNamed, FilesAgree, Latest
        <2>7. UNCHANGED <<phase, drift>>
            BY <1>4 DEF vars
        <2>8. QED
            BY <2>1, <2>2, <2>3, <2>4, <2>5, <2>6, <2>7 DEF IInv, Inner, Agreement
    <1>5. QED
        BY <1>1, <1>2, <1>3, <1>4 DEF Next

LEMMA Invariant == Spec => []IInv
    BY InitHolds, NextKeeps, PTL DEF Spec

-----------------------------------------------------------------------------
(* What it says once nothing is under way *)

LEMMA QuietFacts ==
    ASSUME IInv, Quiet
    PROVE  /\ Types /\ Inner /\ ~IsPatch /\ ~IsPorts /\ ~IsDns /\ reload = "no" /\ ~syncs /\ phase = "up"
           /\ clash.draft = None /\ verge.draft = None
           /\ Latest(clash) = clash.data /\ Latest(verge) = verge.data
    <1>1. Types /\ Inner /\ Control /\ Drafts
        BY DEF IInv, Quiet, Inner
    <1>2. ~IsPatch /\ ~IsPorts /\ ~IsDns
        BY PatchesAssumption DEF Quiet, Free
    <1>3. QED
        BY <1>1, <1>2 DEF Quiet, Control, Drafts, Latest

LEMMA InForce == IInv => SettingsInForce
    <1> SUFFICES ASSUME IInv, Quiet, core # None, Untouched({"ahead", "stayed", "crossed"})
                 PROVE  /\ Bare(core) = runtime.data
                        /\ runtime.data.profile # None =>
                             Fixed(runtime.data.clash) = Fixed(clash.data) /\ Plain(runtime.data.verge) = Plain(verge.data)
                        /\ DnsOf(runtime.data) # None /\ Untouched({"unsynced", "overtaken"}) =>
                             DnsOf(runtime.data).enabled = verge.data.dns
        BY DEF SettingsInForce, Bare, Fixed, Plain
    <1>1. Inner /\ ~IsPatch /\ ~IsPorts /\ ~IsDns /\ ~syncs /\ phase = "up"
        BY QuietFacts
    <1>2. "ahead" \notin drift /\ "stayed" \notin drift /\ "crossed" \notin drift
        BY DEF Untouched
    <1>3. runtime.data # None /\ Bare(core) = runtime.data
        BY <1>1, <1>2 DEF Inner, CoreRuns
    <1>4. RuntimeMade /\ DnsAgreed
        BY <1>1, <1>2 DEF Inner, Agreement
    <1>5. Fixed(runtime.data.clash) = Fixed(clash.data) /\ Plain(runtime.data.verge) = Plain(verge.data)
        BY <1>1, <1>2, <1>3, <1>4 DEF RuntimeMade, Made
    <1>6. ASSUME DnsOf(runtime.data) # None, Untouched({"unsynced", "overtaken"})
          PROVE  DnsOf(runtime.data).enabled = verge.data.dns
        <2>1. "unsynced" \notin drift /\ "overtaken" \notin drift
            BY <1>6 DEF Untouched
        <2>2. Served(runtime.data, verge.data)
            BY <1>1, <1>2, <1>4, <2>1 DEF DnsAgreed
        <2>3. QED
            BY <1>6, <2>2 DEF Served
    <1>7. QED
        BY <1>3, <1>5, <1>6

LEMMA FilesFollow == IInv => FilesFollowMemory
    <1> SUFFICES ASSUME IInv, Quiet, Untouched({"unsaved", "crossed"})
                 PROVE  files.clash = clash.data /\ files.verge = verge.data
        BY DEF FilesFollowMemory
    <1>1. Inner /\ ~IsPatch /\ ~IsPorts /\ ~IsDns
        BY QuietFacts
    <1>2. FilesAgree
        BY <1>1 DEF Inner, Agreement, Untouched
    <1>3. QED
        BY <1>1, <1>2 DEF FilesAgree

LEMMA PortNamed == IInv => NamedPortIsServed
    <1> SUFFICES ASSUME IInv, Quiet, core # None, Latest(clash)["mixed-port"] = Latest(verge).mixed,
                        Untouched({"astray", "crossed"})
                 PROVE  Desired = PortOf(core) /\ (proxy # 0 => proxy = PortOf(core))
        BY DEF NamedPortIsServed
    <1>1. /\ Types /\ Inner /\ ~IsPatch /\ ~IsPorts /\ ~IsDns /\ reload = "no"
          /\ Latest(clash) = clash.data /\ Latest(verge) = verge.data
        BY QuietFacts
    <1>2. "astray" \notin drift /\ "stayed" \notin drift /\ "crossed" \notin drift
        BY DEF Untouched, IInv, Control
    <1>3. Bare(core) = runtime.data /\ runtime.data # None /\ core \in Runs
        BY <1>1, <1>2 DEF Inner, CoreRuns, Types, TypeOK
    <1>4. PortsKept /\ ProxyNamed /\ Borrowed
        BY <1>1, <1>2 DEF Inner, Agreement
    <1>5. core.clash = runtime.data.clash /\ core.fallback = runtime.data.fallback
        BY <1>3 DEF Bare, Runs
    <1>6. runtime.data.fallback = fallback /\ MixedOf(runtime.data) = verge.data.mixed
        BY <1>1, <1>3, <1>4 DEF PortsKept, Borrowed
    <1>7. Desired = PortOf(core)
        BY <1>1, <1>5, <1>6 DEF Desired, PortOf, MixedOf
    <1>8. proxy # 0 => proxy = PortOf(core)
        BY <1>1, <1>2, <1>4 DEF ProxyNamed
    <1>9. QED
        BY <1>7, <1>8

-----------------------------------------------------------------------------
(* How a configuration is made, step by step: what each step of Enhance leaves
   of the fields, and of the rest *)

Parts == {"fields", "proxies", "groups", "providers", "tunnels"}
IsConfig(config) == Parts \subseteq DOMAIN config

Has(fields, path, value) == path \in DOMAIN fields /\ fields[path] = value
Carries(fields, set) == \A path \in DOMAIN set : Has(fields, path, set[path])
Spares(set, paths) == paths \cap DOMAIN set = {}

\* The same fields, as far as these paths go.
Alike(f, g, paths) ==
    \A p \in paths : (p \in DOMAIN f <=> p \in DOMAIN g) /\ (p \in DOMAIN f => f[p] = g[p])

LEMMA AlikeFacts ==
    ASSUME NEW f, NEW g, NEW paths, Alike(f, g, paths)
    PROVE  /\ \A path \in paths : \A value : Has(f, path, value) <=> Has(g, path, value)
           /\ \A path \in paths : path \in DOMAIN f <=> path \in DOMAIN g
           /\ \A path \in paths : Get(f, path) = Get(g, path)
           /\ \A some \in SUBSET paths : Alike(f, g, some)
           /\ \A h : Alike(g, h, paths) => Alike(f, h, paths)
    BY DEF Alike, Has, Get

LEMMA AlikeSelf == \A f, paths : Alike(f, f, paths)
    BY DEF Alike

(* What is laid over some fields is there, and leaves alone what it does not
   name. *)
LEMMA OverFacts ==
    ASSUME NEW f, NEW g
    PROVE  /\ DOMAIN Over(f, g) = DOMAIN f \cup DOMAIN g
           /\ Carries(Over(f, g), f)
           /\ \A paths : Spares(f, paths) => Alike(Over(f, g), g, paths)
    BY DEF Over, Alike, Carries, Has, Spares

LEMMA SingleFacts ==
    ASSUME NEW path, NEW value
    PROVE  /\ Has(Single(path, value), path, value)
           /\ \A paths : path \notin paths => Spares(Single(path, value), paths)
           /\ \A fields : Carries(fields, Single(path, value)) <=> Has(fields, path, value)
    BY DEF Single, Has, Spares, Carries

(* Laying fields over a configuration changes the fields only. *)
LEMMA OverlayFacts ==
    ASSUME NEW config, IsConfig(config), NEW set
    PROVE  LET d == Overlay(config, set) IN
           /\ IsConfig(d) /\ d.fields = Over(set, config.fields)
           /\ d.proxies = config.proxies /\ d.groups = config.groups
           /\ d.providers = config.providers /\ d.tunnels = config.tunnels
    BY DEF IsConfig, Parts, Overlay

LEMMA OverlayLeaves ==
    ASSUME NEW config, IsConfig(config), NEW set, NEW paths, Spares(set, paths)
    PROVE  LET d == Overlay(config, set) IN
           IsConfig(d) /\ Carries(d.fields, set) /\ Alike(d.fields, config.fields, paths)
    <1>1. PICK d, f, g : d = Overlay(config, set) /\ f = config.fields /\ g = Over(set, f)
        OBVIOUS
    <1>2. IsConfig(d) /\ d.fields = g
        BY <1>1, OverlayFacts
    <1>3. Carries(g, set) /\ Alike(g, f, paths)
        BY <1>1, OverFacts
    <1>4. QED
        BY <1>1, <1>2, <1>3

LEMMA OverlaySingle ==
    ASSUME NEW config, IsConfig(config), NEW path, NEW value, NEW paths, path \notin paths
    PROVE  LET d == Overlay(config, Single(path, value)) IN
           IsConfig(d) /\ Has(d.fields, path, value) /\ Alike(d.fields, config.fields, paths)
    BY OverlayLeaves, SingleFacts

LEMMA FieldsFacts ==
    ASSUME NEW config, IsConfig(config), NEW fields
    PROVE  LET d == [config EXCEPT !.fields = fields] IN IsConfig(d) /\ d.fields = fields
    BY DEF IsConfig, Parts

(* The items of the profile are about nodes and groups.  (use_seq) *)
LEMMA SeqItemsFacts ==
    ASSUME NEW text, IsConfig(text.config)
    PROVE  IsConfig(ProcessSeqItems(text))
    <1>1. PICK proxied : proxied = UseSeqProxies(text.proxyItems, text.config)
        OBVIOUS
    <1>2. IsConfig(proxied)
        BY <1>1 DEF UseSeqProxies, IsConfig, Parts
    <1>3. IsConfig(UseSeqGroups(text.groupItems, proxied))
        BY <1>2 DEF UseSeqGroups, IsConfig, Parts
    <1>4. QED
        BY <1>1, <1>3 DEF ProcessSeqItems

\* What comes of the settings in the fields of a configuration.
Settled(fields, c, v) ==
    /\ Has(fields, "mixed-port", c["mixed-port"]) /\ Has(fields, "allow-lan", c["allow-lan"])
    /\ Has(fields, "external-controller", IF v.controller THEN c["external-controller"] ELSE "")
    /\ IF v.socks THEN Has(fields, "socks-port", c["socks-port"]) ELSE "socks-port" \notin DOMAIN fields

SettledKeys == ControlKeys \ {"mode"}

LEMMA SettledStays ==
    ASSUME NEW f, NEW g, NEW c, NEW v, Alike(f, g, SettledKeys), Settled(g, c, v)
    PROVE  Settled(f, c, v)
    <1>1. {"mixed-port", "allow-lan", "external-controller", "socks-port"} \subseteq SettledKeys
        BY DEF SettledKeys, ControlKeys
    <1>2. QED
        BY <1>1, AlikeFacts DEF Settled

(* The settings of the application win over the profile's, and a listener that
   is off is gone.  (merge_default_config) *)
LEMMA MergeDefaultFacts ==
    ASSUME NEW config, IsConfig(config), NEW c \in Clashes, NEW v \in Verges
    PROVE  LET d == MergeDefaultConfig(config, c, v) IN IsConfig(d) /\ Settled(d.fields, c, v)
    <1>1. PICK off : off = IF v.socks THEN {} ELSE {"socks-port"}
        OBVIOUS
    <1>2. PICK bare : bare = [config EXCEPT !.fields = Without(@, off)]
        OBVIOUS
    <1>3. PICK kept : kept = Without(c, off)
        OBVIOUS
    <1>4. PICK laid : laid = IF v.controller THEN kept ELSE [kept EXCEPT !["external-controller"] = ""]
        OBVIOUS
    <1>5. PICK d : d = Overlay(bare, laid)
        OBVIOUS
    <1>6. d = MergeDefaultConfig(config, c, v)
        BY <1>1, <1>2, <1>3, <1>4, <1>5 DEF MergeDefaultConfig
    <1>7. ControlKeys \subseteq DOMAIN c /\ v.socks \in BOOLEAN /\ v.controller \in BOOLEAN
        BY ClashesAssumption DEF Verges
    <1>8. IsConfig(bare) /\ (~v.socks => "socks-port" \notin DOMAIN bare.fields)
        BY <1>1, <1>2 DEF IsConfig, Parts, Without, Restrict
    <1>9. DOMAIN kept = DOMAIN c \ off /\ \A p \in DOMAIN c \ off : kept[p] = c[p]
        BY <1>3 DEF Without, Restrict
    <1>10. DOMAIN laid = DOMAIN c \ off
           /\ \A p \in DOMAIN c \ off : laid[p] = IF p = "external-controller" /\ ~v.controller THEN "" ELSE c[p]
        BY <1>4, <1>7, <1>9
    <1>11. {"mixed-port", "allow-lan", "external-controller", "socks-port"} \subseteq DOMAIN c
        BY <1>7 DEF ControlKeys
    <1>12. Settled(laid, c, v)
        BY <1>1, <1>10, <1>11 DEF Settled, Has
    <1>13. IsConfig(d) /\ d.fields = Over(laid, bare.fields)
        BY <1>5, <1>8, OverlayFacts
    <1>14. Carries(d.fields, laid) /\ (~v.socks => "socks-port" \notin DOMAIN d.fields)
        <2>1. PICK f, over : f = bare.fields /\ over = Over(laid, f) /\ over = d.fields
            BY <1>13
        <2>2. Carries(over, laid) /\ DOMAIN over = DOMAIN laid \cup DOMAIN f
            BY <2>1, OverFacts
        <2>3. ~v.socks => "socks-port" \notin DOMAIN laid
            BY <1>12 DEF Settled
        <2>4. ~v.socks => "socks-port" \notin DOMAIN f
            BY <1>8, <2>1
        <2>5. QED
            BY <2>1, <2>2, <2>3, <2>4
    <1>15. \A p, value : Has(laid, p, value) => Has(d.fields, p, value)
        BY <1>14 DEF Carries, Has
    <1>16. QED
        BY <1>6, <1>12, <1>13, <1>14, <1>15 DEF Settled

(* Neither the built-in script nor TUN touches what comes of the settings.
   (use_script, use_tun) *)
LEMMA BuiltinFacts ==
    ASSUME NEW config, IsConfig(config)
    PROVE  LET d == ApplyBuiltinScripts(config) IN IsConfig(d) /\ Alike(d.fields, config.fields, SettledKeys)
    <1>1. CASE ApplyBuiltinScripts(config) = config
        BY <1>1, AlikeSelf
    <1>2. CASE ApplyBuiltinScripts(config) = Overlay(config, Single("mode", "rule"))
        <2>1. "mode" \notin SettledKeys
            BY DEF SettledKeys
        <2>2. QED
            BY <1>2, <2>1, OverlaySingle
    <1>3. QED
        BY <1>1, <1>2 DEF ApplyBuiltinScripts

LEMMA TunFacts ==
    ASSUME NEW config, IsConfig(config), NEW enable
    PROVE  LET d == UseTun(config, enable) IN
           IsConfig(d) /\ Has(d.fields, "tun.enable", enable) /\ Alike(d.fields, config.fields, SettledKeys)
    <1>1. PICK ipv6 : ipv6 = (Get(config.fields, "ipv6") = TRUE)
        OBVIOUS
    <1>2. PICK asked : asked = Over(Single("dns.enable", TRUE), Single("dns.ipv6", ipv6))
        OBVIOUS
    <1>3. PICK ranges : ranges = IF ipv6 THEN Over(Single("dns.enhanced-mode", "fake-ip"), Single("dns.range6", "default"))
                                 ELSE Single("dns.enhanced-mode", "fake-ip")
        OBVIOUS
    <1>4. PICK told : told = Over(asked, Over(config.fields, ranges))
        OBVIOUS
    <1>5. PICK dns : /\ UseTun(config, enable) = Overlay(dns, Single("tun.enable", enable))
                     /\ dns = config \/ dns = [config EXCEPT !.fields = told]
        BY <1>1, <1>2, <1>3, <1>4 DEF UseTun
    <1>6. DOMAIN asked \cap SettledKeys = {} /\ DOMAIN ranges \cap SettledKeys = {}
        <2>1. DOMAIN asked = {"dns.enable", "dns.ipv6"} /\ DOMAIN ranges \subseteq {"dns.enhanced-mode", "dns.range6"}
            BY <1>2, <1>3 DEF Over, Single
        <2>2. QED
            BY <2>1 DEF SettledKeys, ControlKeys
    <1>7. Alike(told, config.fields, SettledKeys)
        BY <1>4, <1>6 DEF Alike, Over
    <1>8. IsConfig(dns) /\ Alike(dns.fields, config.fields, SettledKeys)
        <2>1. CASE dns = config
            BY <2>1, AlikeSelf
        <2>2. CASE dns = [config EXCEPT !.fields = told]
            <3>1. IsConfig(dns) /\ dns.fields = told
                BY <2>2, FieldsFacts
            <3>2. QED
                BY <1>7, <3>1
        <2>3. QED
            BY <1>5, <2>1, <2>2
    <1>9. "tun.enable" \notin SettledKeys
        BY DEF SettledKeys, ControlKeys
    <1>10. QED
        BY <1>5, <1>8, <1>9, OverlaySingle, AlikeFacts

(* The DNS page replaces the DNS of the profile and nothing else.
   (apply_dns_settings) *)
LEMMA DnsPageFacts ==
    ASSUME NEW config, IsConfig(config), NEW enabled \in BOOLEAN
    PROVE  LET d == ApplyDnsSettings(config, Page, enabled) IN
           /\ IsConfig(d) /\ Alike(d.fields, config.fields, SettledKeys \cup {"tun.enable"})
           /\ enabled => Carries(d.fields, Page)
    <1>1. PICK asked : asked = SettledKeys \cup {"tun.enable"}
        OBVIOUS
    <1>2. PICK merged : merged = Overlay(config, Page)
        OBVIOUS
    <1>3. PICK more : more = Overlay(merged, Single("dns.range6", "default"))
        OBVIOUS
    <1>4. Spares(Page, asked)
        BY <1>1, TextAssumption DEF Spares, SettledKeys
    <1>5. IsConfig(merged) /\ Carries(merged.fields, Page) /\ Alike(merged.fields, config.fields, asked)
        BY <1>2, <1>4, OverlayLeaves
    <1>6. "dns.range6" \notin asked
        BY <1>1 DEF SettledKeys, ControlKeys
    <1>7. CASE ~enabled
        BY <1>7, AlikeSelf DEF ApplyDnsSettings
    <1>8. CASE enabled /\ ApplyDnsSettings(config, Page, enabled) = merged
        BY <1>1, <1>5, <1>8
    <1>9. CASE enabled /\ ApplyDnsSettings(config, Page, enabled) = more /\ Get(merged.fields, "dns.range6") = Absent
        <2>1. "dns.range6" \notin DOMAIN Page
            BY <1>5, <1>9, TextAssumption DEF Get, Carries, Has
        <2>2. IsConfig(more) /\ Alike(more.fields, merged.fields, asked \cup DOMAIN Page)
            BY <1>3, <1>5, <1>6, <2>1, OverlaySingle
        <2>3. Carries(more.fields, Page)
            BY <1>5, <2>2, AlikeFacts DEF Carries
        <2>4. Alike(more.fields, config.fields, asked)
            BY <1>5, <2>2 DEF Alike
        <2>5. QED
            BY <1>1, <1>9, <2>2, <2>3, <2>4
    <1>10. QED
        BY <1>2, <1>3, <1>7, <1>8, <1>9 DEF ApplyDnsSettings

(* The application's own configuration says what the settings say.
   (generate_with_profiles, before the merges and scripts) *)
LEMMA AppConfigFacts ==
    ASSUME NEW text, IsConfig(text.config), NEW c \in Clashes, NEW v \in Verges, NEW dns \in BOOLEAN
    PROVE  LET d == AppConfig(text, c, v, Page, dns) IN
           /\ IsConfig(d) /\ Settled(d.fields, c, v) /\ Has(d.fields, "tun.enable", v.tun)
           /\ dns => Carries(d.fields, Page)
    <1>1. PICK merged : merged = MergeDefaultConfig(ProcessSeqItems(text), c, v)
        OBVIOUS
    <1>2. PICK own : own = ApplyBuiltinScripts(merged)
        OBVIOUS
    <1>3. PICK tun : tun = UseTun(own, v.tun)
        OBVIOUS
    <1>4. PICK d : d = ApplyDnsSettings(tun, Page, dns)
        OBVIOUS
    <1>5. IsConfig(merged) /\ Settled(merged.fields, c, v)
        BY <1>1, SeqItemsFacts, MergeDefaultFacts
    <1>6. IsConfig(own) /\ Settled(own.fields, c, v)
        BY <1>2, <1>5, BuiltinFacts, SettledStays
    <1>7. IsConfig(tun) /\ Settled(tun.fields, c, v) /\ Has(tun.fields, "tun.enable", v.tun)
        BY <1>3, <1>6, TunFacts, SettledStays
    <1>8. /\ IsConfig(d) /\ Alike(d.fields, tun.fields, SettledKeys \cup {"tun.enable"})
          /\ dns => Carries(d.fields, Page)
        BY <1>4, <1>7, DnsPageFacts
    <1>9. Alike(d.fields, tun.fields, SettledKeys) /\ Has(d.fields, "tun.enable", v.tun)
        BY <1>7, <1>8, AlikeFacts
    <1>10. Settled(d.fields, c, v)
        BY <1>7, <1>9, SettledStays
    <1>11. QED
        BY <1>1, <1>2, <1>3, <1>4, <1>8, <1>9, <1>10 DEF AppConfig

(* The merges and scripts of the user write what they like, and leave a
   configuration.  (use_merge, use_script) *)
LEMMA WrittenFacts ==
    ASSUME NEW item, NEW config, IsConfig(config), NEW fails
    PROVE  IsConfig(UseScript(item.script, UseMerge(item.merge, config), fails))
    <1>1. PICK merged : merged = UseMerge(item.merge, config)
        OBVIOUS
    <1>2. IsConfig(merged)
        BY <1>1, OverlayFacts DEF UseMerge
    <1>3. PICK dropped : dropped = [merged EXCEPT !.fields = Without(@, item.script.drops)]
        OBVIOUS
    <1>4. IsConfig(dropped)
        BY <1>2, <1>3 DEF IsConfig, Parts
    <1>5. IsConfig(Overlay(dropped, item.script.writes))
        BY <1>4, OverlayFacts
    <1>6. QED
        BY <1>1, <1>2, <1>3, <1>5 DEF UseScript

(* ... and what the application owns is put back over it: a key it left out
   goes again.  (AuthoritativeFields::capture, enforce) *)
LEMMA EnforceFacts ==
    ASSUME NEW app, IsConfig(app), NEW written, IsConfig(written), NEW c \in Clashes, NEW v \in Verges,
           NEW dns \in BOOLEAN, Settled(app.fields, c, v), Has(app.fields, "tun.enable", v.tun),
           dns => Carries(app.fields, Page)
    PROVE  LET d == Enforce(written, Capture(app, c, Page, dns)) IN
           /\ IsConfig(d) /\ Settled(d.fields, c, v) /\ Has(d.fields, "tun.enable", v.tun)
           /\ dns => Carries(d.fields, Page)
    <1>1. PICK paths : paths = ControlKeys \cup GuiTunKeys(c) \cup (IF dns THEN DOMAIN Page ELSE {})
        OBVIOUS
    <1>2. PICK f : f = app.fields
        OBVIOUS
    <1>3. PICK owned : owned = Only(f, paths)
        OBVIOUS
    <1>4. owned = Capture(app, c, Page, dns)
        BY <1>1, <1>2, <1>3 DEF Capture
    <1>5. DOMAIN owned = DOMAIN f \cap paths /\ \A p \in DOMAIN owned : owned[p] = f[p]
        BY <1>3 DEF Only, Restrict
    <1>6. Alike(owned, f, paths)
        BY <1>5 DEF Alike
    <1>7. PICK bare : bare = [written EXCEPT !.fields = Without(@, ControlKeys)]
        OBVIOUS
    <1>8. IsConfig(bare) /\ DOMAIN bare.fields \cap ControlKeys = {}
        BY <1>7 DEF IsConfig, Parts, Without, Restrict
    <1>9. PICK d : d = Overlay(bare, owned)
        OBVIOUS
    <1>10. IsConfig(d) /\ d.fields = Over(owned, bare.fields)
        BY <1>8, <1>9, OverlayFacts
    <1>11. PICK g, h : g = d.fields /\ h = bare.fields /\ g = Over(owned, h)
        BY <1>10
    <1>12. DOMAIN g = DOMAIN owned \cup DOMAIN h /\ Carries(g, owned)
        BY <1>11, OverFacts
    <1>13. Alike(g, owned, ControlKeys)
        BY <1>8, <1>11, <1>12 DEF Alike, Carries, Has
    <1>14. SettledKeys \subseteq ControlKeys /\ ControlKeys \subseteq paths /\ "tun.enable" \in paths
        BY <1>1 DEF SettledKeys, GuiTunKeys
    <1>15. Alike(g, f, SettledKeys)
        BY <1>6, <1>13, <1>14 DEF Alike
    <1>16. Settled(g, c, v)
        BY <1>2, <1>15, SettledStays
    <1>17. \A p \in paths : \A value : Has(f, p, value) => Has(g, p, value)
        BY <1>5, <1>12 DEF Carries, Has
    <1>18. Has(g, "tun.enable", v.tun) /\ (dns => Carries(g, Page))
        BY <1>1, <1>2, <1>14, <1>17 DEF Carries
    <1>19. QED
        BY <1>4, <1>7, <1>9, <1>10, <1>11, <1>16, <1>18 DEF Enforce

(* A core that lets the LAN in does not listen on loopback only, and nothing
   else moves.  (ensure_lan_bind_address) *)
LEMMA BindFacts ==
    ASSUME NEW config, IsConfig(config), NEW paths, "bind-address" \notin paths, "allow-lan" \in paths
    PROVE  LET d == EnsureLanBindAddress(config) IN
           /\ IsConfig(d) /\ Alike(d.fields, config.fields, paths)
           /\ Get(d.fields, "allow-lan") = TRUE => Get(d.fields, "bind-address") # "loopback"
    <1>1. PICK bound : bound = Overlay(config, Single("bind-address", "*"))
        OBVIOUS
    <1>2. IsConfig(bound) /\ Has(bound.fields, "bind-address", "*") /\ Alike(bound.fields, config.fields, paths)
        BY <1>1, OverlaySingle
    <1>3. Get(bound.fields, "bind-address") # "loopback"
        BY <1>2 DEF Has, Get
    <1>4. QED
        BY <1>1, <1>2, <1>3, AlikeSelf DEF EnsureLanBindAddress


(* The groups and the tunnels are left with names the configuration knows, and
   its fields stay.  (cleanup_proxy_groups, sanitize_tunnels_proxy) *)
LEMMA SafeFacts ==
    ASSUME NEW config, IsConfig(config)
    PROVE  LET d == SanitizeTunnelsProxy(CleanupProxyGroups(config)) IN
           IsConfig(d) /\ d.fields = config.fields /\ NamesResolve(d)
    <1>1. PICK proxies, providers, groups :
            proxies = config.proxies /\ providers = config.providers /\ groups = config.groups
        OBVIOUS
    <1>2. PICK allowed : allowed = proxies \cup NamesOf(groups) \cup providers \cup Builtin
        OBVIOUS
    <1> DEFINE Clean(g) == [name |-> g.name, selects |-> g.selects, use |-> g.use \cap providers,
                            members |-> IF g.use \cap providers = {} THEN g.members \cap allowed ELSE g.members]
    <1>3. PICK cleaned : cleaned = [i \in DOMAIN groups |-> Clean(groups[i])]
        OBVIOUS
    <1>4. PICK e : e = [config EXCEPT !.groups = cleaned]
        OBVIOUS
    <1>5. CleanupProxyGroups(config) = e
        BY <1>1, <1>2, <1>3, <1>4 DEF CleanupProxyGroups
    <1>6. IsConfig(e) /\ e.groups = cleaned /\ e.fields = config.fields /\ e.proxies = proxies
          /\ e.providers = providers /\ e.tunnels = config.tunnels
        BY <1>1, <1>4 DEF IsConfig, Parts
    <1>7. DOMAIN cleaned = DOMAIN groups
          /\ \A i \in DOMAIN groups :
               /\ cleaned[i].name = groups[i].name /\ cleaned[i].use \subseteq providers
               /\ cleaned[i].use = {} => cleaned[i].members \subseteq allowed
        BY <1>3
    <1>8. NamesOf(cleaned) = NamesOf(groups)
        BY <1>7 DEF NamesOf
    <1>9. PICK d : d = [e EXCEPT !.tunnels = @ \cap (proxies \cup NamesOf(cleaned) \cup {"DIRECT", "REJECT"})]
        OBVIOUS
    <1>10. SanitizeTunnelsProxy(e) = d
        BY <1>6, <1>9 DEF SanitizeTunnelsProxy
    <1>11. /\ IsConfig(d) /\ d.fields = config.fields /\ d.groups = cleaned /\ d.proxies = proxies
           /\ d.providers = providers
           /\ d.tunnels \subseteq proxies \cup NamesOf(cleaned) \cup {"DIRECT", "REJECT"}
        BY <1>6, <1>9 DEF IsConfig, Parts
    <1>12. NamesResolve(d)
        <2>1. \A i \in DOMAIN cleaned :
                /\ cleaned[i].use \subseteq providers
                /\ cleaned[i].use = {} =>
                     cleaned[i].members \subseteq proxies \cup NamesOf(cleaned) \cup providers \cup Builtin
            BY <1>2, <1>7, <1>8
        <2>2. QED
            BY <1>11, <2>1 DEF NamesResolve
    <1>13. QED
        BY <1>5, <1>10, <1>11, <1>12

\* What the application owns in what a core is given.
Owns(fields, c, v, port) ==
    /\ Has(fields, "mixed-port", port) /\ Has(fields, "allow-lan", c["allow-lan"])
    /\ Has(fields, "external-controller", IF v.controller THEN c["external-controller"] ELSE "")
    /\ IF v.socks THEN Has(fields, "socks-port", c["socks-port"]) ELSE "socks-port" \notin DOMAIN fields
    /\ Has(fields, "tun.enable", v.tun)
    /\ c["allow-lan"] => Get(fields, "bind-address") # "loopback"

OwnedKeys == SettledKeys \cup {"tun.enable"}
ServedKeys == (OwnedKeys \ {"mixed-port"}) \cup {"bind-address"}

LEMMA OwnsStays ==
    ASSUME NEW f, NEW g, NEW c, NEW v, NEW port, NEW next, Owns(g, c, v, port),
           Alike(f, g, ServedKeys), Has(f, "mixed-port", next)
    PROVE  Owns(f, c, v, next)
    <1>1. {"allow-lan", "external-controller", "socks-port", "tun.enable", "bind-address"} \subseteq ServedKeys
        BY DEF ServedKeys, OwnedKeys, SettledKeys, ControlKeys
    <1>2. QED
        BY <1>1, AlikeFacts DEF Owns

LEMMA PageStays ==
    ASSUME NEW f, NEW g, Carries(g, Page), Alike(f, g, DOMAIN Page)
    PROVE  Carries(f, Page)
    BY AlikeFacts DEF Carries

(* What is generated keeps what the application owns, whatever the profile, the
   merges and the scripts wrote, and names only what it knows.
   (Config::generate_with_profiles) *)
LEMMA GeneratedFacts ==
    ASSUME NEW p \in Profiles, NEW c \in Clashes, NEW v \in Verges, NEW borrowed, NEW fails
    PROVE  LET made == Generated(Text[p], Global, c, v, Page, borrowed, fails).config IN
           /\ IsConfig(made) /\ NamesResolve(made)
           /\ Owns(made.fields, c, v, IF borrowed # 0 THEN borrowed ELSE c["mixed-port"])
           /\ DnsOverrideState(Text[p], v).enabled => Carries(made.fields, Page)
    <1>1. PICK text : text = Text[p]
        OBVIOUS
    <1>2. PICK dns : dns = DnsOverrideState(text, v).enabled
        OBVIOUS
    <1>3. PICK app : app = AppConfig(text, c, v, Page, dns)
        OBVIOUS
    <1>4. PICK written : written = ProcessProfileItems(text.item, ProcessGlobalItems(Global, app, fails), fails)
        OBVIOUS
    <1>5. PICK forced : forced = Enforce(written, Capture(app, c, Page, dns))
        OBVIOUS
    <1>6. PICK bound : bound = EnsureLanBindAddress(forced)
        OBVIOUS
    <1>7. PICK safe : safe = SanitizeTunnelsProxy(CleanupProxyGroups(bound))
        OBVIOUS
    <1>8. PICK made : made = IF borrowed = 0 THEN safe ELSE Overlay(safe, Single("mixed-port", borrowed))
        OBVIOUS
    <1>9. Generated(text, Global, c, v, Page, borrowed, fails).config = made
        <2>1. Enhanced(text, Global, c, v, Page, dns, fails).config = CleanupProxyGroups(bound)
            BY <1>3, <1>4, <1>5, <1>6 DEF Enhanced
        <2>2. QED
            BY <1>2, <1>7, <1>8, <2>1 DEF Generated
    <1>10. IsConfig(text.config) /\ dns \in BOOLEAN
        <2>1. v.dns \in BOOLEAN
            BY DEF Verges
        <2>2. QED
            BY <1>1, <1>2, <2>1, TextAssumption DEF IsConfig, Parts, DnsOverrideState
    <1>11. /\ IsConfig(app) /\ Settled(app.fields, c, v) /\ Has(app.fields, "tun.enable", v.tun)
           /\ dns => Carries(app.fields, Page)
        BY <1>3, <1>10, AppConfigFacts
    <1>12. IsConfig(written)
        BY <1>4, <1>11, WrittenFacts DEF ProcessProfileItems, ProcessGlobalItems
    <1>13. /\ IsConfig(forced) /\ Settled(forced.fields, c, v) /\ Has(forced.fields, "tun.enable", v.tun)
           /\ dns => Carries(forced.fields, Page)
        BY <1>5, <1>10, <1>11, <1>12, EnforceFacts
    <1>14. PICK paths : paths = OwnedKeys \cup DOMAIN Page
        OBVIOUS
    <1>15. /\ "bind-address" \notin paths /\ "allow-lan" \in paths /\ SettledKeys \subseteq paths
           /\ "tun.enable" \in paths /\ DOMAIN Page \subseteq paths
        BY <1>14, TextAssumption DEF OwnedKeys, SettledKeys, ControlKeys
    <1>16. /\ IsConfig(bound) /\ Alike(bound.fields, forced.fields, paths)
           /\ Get(bound.fields, "allow-lan") = TRUE => Get(bound.fields, "bind-address") # "loopback"
        BY <1>6, <1>13, <1>15, BindFacts
    <1>17. Settled(bound.fields, c, v) /\ Has(bound.fields, "tun.enable", v.tun) /\ (dns => Carries(bound.fields, Page))
        <2>1. Alike(bound.fields, forced.fields, SettledKeys) /\ Alike(bound.fields, forced.fields, DOMAIN Page)
            BY <1>15, <1>16, AlikeFacts
        <2>2. QED
            BY <1>13, <1>15, <1>16, <2>1, AlikeFacts, SettledStays, PageStays
    <1>18. Owns(bound.fields, c, v, c["mixed-port"])
        <2>1. c["allow-lan"] \in BOOLEAN
            BY ClashesAssumption
        <2>2. Get(bound.fields, "allow-lan") = c["allow-lan"]
            BY <1>17 DEF Settled, Has, Get
        <2>3. QED
            BY <1>16, <1>17, <2>1, <2>2 DEF Owns, Settled
    <1>19. IsConfig(safe) /\ safe.fields = bound.fields /\ NamesResolve(safe)
        BY <1>7, <1>16, SafeFacts
    <1>20. CASE borrowed = 0
        BY <1>1, <1>2, <1>8, <1>9, <1>17, <1>18, <1>19, <1>20
    <1>21. CASE borrowed # 0
        <2>1. made = Overlay(safe, Single("mixed-port", borrowed))
            BY <1>8, <1>21
        <2>2. "mixed-port" \notin ServedKeys /\ "mixed-port" \notin DOMAIN Page
            BY TextAssumption DEF ServedKeys, OwnedKeys, SettledKeys, ControlKeys
        <2>3. /\ IsConfig(made) /\ Has(made.fields, "mixed-port", borrowed)
              /\ Alike(made.fields, safe.fields, ServedKeys) /\ Alike(made.fields, safe.fields, DOMAIN Page)
            BY <1>19, <2>1, <2>2, OverlaySingle
        <2>4. Owns(made.fields, c, v, borrowed) /\ (dns => Carries(made.fields, Page))
            BY <1>17, <1>18, <1>19, <2>3, OwnsStays, PageStays
        <2>5. NamesResolve(made)
            BY <1>19, <2>1, OverlayFacts DEF NamesResolve
        <2>6. QED
            BY <1>1, <1>2, <1>9, <1>21, <2>3, <2>4, <2>5
    <1>22. QED
        BY <1>20, <1>21

(* So does what a core is given, whatever mode it was told since. *)
LEMMA RunFacts ==
    ASSUME NEW run \in Runs
    PROVE  LET config == ConfigOf(run) IN
           /\ NamesResolve(config)
           /\ run.profile # None =>
                /\ Owns(config.fields, run.clash, run.verge, PortOf(run))
                /\ DnsOverrideState(Text[run.profile], run.verge).enabled => Carries(config.fields, Page)
    <1>1. PICK made : made = IF run.profile = None
                             THEN [fields |-> run.clash, proxies |-> {}, groups |-> << >>, providers |-> {}, tunnels |-> {}]
                             ELSE Generated(Text[run.profile], Global, run.clash, run.verge, Page, run.fallback, run.fails).config
        OBVIOUS
    <1>2. PICK told : told = Overlay(made, Single("mode", run.mode))
        OBVIOUS
    <1>3. ConfigOf(run) = IF run.mode = None THEN made ELSE told
        BY <1>1, <1>2 DEF ConfigOf
    <1>4. run.clash \in Clashes /\ run.verge \in Verges /\ run.profile \in Profiles \cup {None}
        BY DEF Runs
    <1>5. /\ IsConfig(made) /\ NamesResolve(made)
          /\ run.profile # None =>
               /\ Owns(made.fields, run.clash, run.verge, PortOf(run))
               /\ DnsOverrideState(Text[run.profile], run.verge).enabled => Carries(made.fields, Page)
        <2>1. CASE run.profile = None
            BY <1>1, <2>1 DEF IsConfig, Parts, NamesResolve
        <2>2. CASE run.profile # None
            BY <1>1, <1>4, <2>2, GeneratedFacts DEF PortOf
        <2>3. QED
            BY <2>1, <2>2
    <1>6. CASE run.mode = None
        BY <1>3, <1>5, <1>6
    <1>7. CASE run.mode # None
        <2>1. "mode" \notin ServedKeys \cup {"mixed-port"} /\ "mode" \notin DOMAIN Page
            BY TextAssumption DEF ServedKeys, OwnedKeys, SettledKeys, ControlKeys
        <2>2. Alike(told.fields, made.fields, ServedKeys \cup {"mixed-port"}) /\ Alike(told.fields, made.fields, DOMAIN Page)
            BY <1>2, <1>5, <2>1, OverlaySingle
        <2>3. Alike(told.fields, made.fields, ServedKeys)
            BY <2>2, AlikeFacts
        <2>4. \A port : Has(made.fields, "mixed-port", port) => Has(told.fields, "mixed-port", port)
            BY <2>2, AlikeFacts
        <2>5. NamesResolve(told)
            BY <1>2, <1>5, OverlayFacts DEF NamesResolve
        <2>6. ASSUME run.profile # None
              PROVE  Owns(told.fields, run.clash, run.verge, PortOf(run))
            <3>1. Owns(made.fields, run.clash, run.verge, PortOf(run))
                BY <1>5, <2>6
            <3>2. Has(told.fields, "mixed-port", PortOf(run))
                BY <2>4, <3>1 DEF Owns
            <3>3. QED
                BY <2>3, <3>1, <3>2, OwnsStays
        <2>7. QED
            BY <1>3, <1>5, <1>7, <2>2, <2>5, <2>6, PageStays
    <1>8. QED
        BY <1>6, <1>7

LEMMA OwnedFacts ==
    ASSUME NEW run \in Runs
    PROVE  OwnedFieldsHold(ConfigOf(run), run)
    <1> SUFFICES ASSUME DnsOf(run) # None
                 PROVE  LET has == ConfigOf(run).fields
                            c == run.clash
                            v == run.verge
                        IN /\ has["mixed-port"] = PortOf(run)
                           /\ {Get(has, "socks-port")} \ {Absent} = SocksOf(run)
                           /\ Get(has, "external-controller") = IF v.controller THEN c["external-controller"] ELSE ""
                           /\ Get(has, "allow-lan") = c["allow-lan"]
                           /\ Get(has, "tun.enable") = v.tun
                           /\ c["allow-lan"] => Get(has, "bind-address") # "loopback"
                           /\ DnsOf(run).enabled => \A path \in DOMAIN Page : Get(has, path) = Page[path]
        BY DEF OwnedFieldsHold
    <1>1. run \in Runs /\ run.profile # None /\ DnsOf(run) = DnsOverrideState(Text[run.profile], run.verge)
        BY DEF DnsOf
    <1>2. PICK has : has = ConfigOf(run).fields
        OBVIOUS
    <1>3. Owns(has, run.clash, run.verge, PortOf(run)) /\ (DnsOf(run).enabled => Carries(has, Page))
        BY <1>1, <1>2, RunFacts
    <1>4. run.clash["socks-port"] # Absent
        BY <1>1, ClashesAssumption, PatchesAssumption DEF Runs
    <1>5. {Get(has, "socks-port")} \ {Absent} = SocksOf(run)
        <2>1. CASE run.verge.socks
            <3>1. Get(has, "socks-port") = run.clash["socks-port"]
                BY <1>3, <2>1 DEF Owns, Has, Get
            <3>2. QED
                BY <1>4, <2>1, <3>1 DEF SocksOf
        <2>2. CASE ~run.verge.socks
            <3>1. Get(has, "socks-port") = Absent
                BY <1>3, <2>2 DEF Owns, Has, Get
            <3>2. QED
                BY <1>1, <2>2, <3>1 DEF SocksOf
        <2>3. QED
            BY <2>1, <2>2
    <1>6. /\ has["mixed-port"] = PortOf(run)
          /\ Get(has, "external-controller") = IF run.verge.controller THEN run.clash["external-controller"] ELSE ""
          /\ Get(has, "allow-lan") = run.clash["allow-lan"]
          /\ Get(has, "tun.enable") = run.verge.tun
          /\ run.clash["allow-lan"] => Get(has, "bind-address") # "loopback"
        BY <1>3 DEF Owns, Has, Get
    <1>7. DnsOf(run).enabled => \A path \in DOMAIN Page : Get(has, path) = Page[path]
        BY <1>3 DEF Carries, Has, Get
    <1>8. QED
        BY <1>2, <1>5, <1>6, <1>7

LEMMA ConfigurationFollows == TypeOK => ConfigurationHolds
    <1> SUFFICES ASSUME TypeOK, NEW run \in {core, Latest(runtime)} \ {None}
                 PROVE  OwnedFieldsHold(ConfigOf(run), run) /\ NamesResolve(ConfigOf(run))
        BY DEF ConfigurationHolds
    <1>1. run \in Runs
        BY DEF TypeOK, Latest
    <1>2. NamesResolve(ConfigOf(run))
        BY <1>1, RunFacts
    <1>3. QED
        BY <1>1, <1>2, OwnedFacts

-----------------------------------------------------------------------------
(* The theorems *)

(* The layers hold settings and a runtime of theirs, whatever is staged,
   dropped, restored from files or taken back; a port is a port.  (Draft,
   restore_files, find_next_available_port) *)
THEOREM TypeCorrect == Spec => []TypeOK
    <1>1. IInv => TypeOK
        BY DEF IInv, Types
    <1>2. QED
        BY <1>1, Invariant, PTL

(* Whatever a profile, the merges and the scripts write, what a core may be given
   has the ports, the controller, the LAN access, the TUN switch and the DNS page
   of the application, and its groups and tunnels name what it knows.
   (AuthoritativeFields, cleanup_proxy_groups, sanitize_tunnels_proxy) *)
THEOREM ConfigurationsHold == Spec => []ConfigurationHolds
    BY TypeCorrect, ConfigurationFollows, PTL

(* Once nothing is under way, the core runs the committed runtime, that was made
   from the committed settings, and the files say the same: after any sequence of
   patches, port changes, DNS overrides, mode changes, reloads, restarts and
   starts, with any of their steps failing.  (DraftTransaction,
   retain_applied_runtime, RestoreFiles) *)
THEOREM SettingsAlwaysAgree == Spec => []SettingsAgree
    <1>1. IInv => SettingsAgree
        BY InForce, FilesFollow DEF SettingsAgree
    <1>2. QED
        BY <1>1, Invariant, PTL

(* PAC and the system proxy name the port the core serves, whoever borrowed,
   picked or gave back a port.  (MixedPort::desired, restore_borrowed_port) *)
THEOREM NamedPortsAreServed == Spec => []NamedPortIsServed
    BY PortNamed, Invariant, PTL

===============================================================================
