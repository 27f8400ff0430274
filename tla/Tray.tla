--------------------------------- MODULE Tray ---------------------------------
(***************************************************************************)
(* The tray (core/tray/mod.rs): its menu, icon and tooltip are rebuilt by  *)
(* whoever changes what they show.  An update reads the state, waits for   *)
(* the nodes of the core or for a file, and then replaces what is shown;   *)
(* nothing orders two updates.  The window asks for one through a loop     *)
(* with a flag of its own (cmd/proxy.rs).                                  *)
(***************************************************************************)
EXTENDS Integers, FiniteSets, Sequences

CONSTANTS
    Callers,          \* tasks that update the tray
    MaxTrayEvents     \* bound: changes of what the tray shows, the start among them, and failures:
                      \* cores that do not answer, saves and patches that fail

NoTask    == "none"
Spawned   == "spawned"    \* the task update_part leaves behind
TrayTasks == Callers \cup {Spawned}
Surfaces  == {"menu", "icon", "tooltip"}
Facts     == {"settings", "mode", "profile", "app", "node"}    \* app: lightweight mode, TUN's availability

VARIABLES
    facts,         \* how often each of them was changed and committed
    stagedFacts,   \* a patch has staged other settings
    shown,         \* of each surface: what it says
    old,           \* history: surfaces that show less than the last update that was due
    drawing,       \* the updates: [at, does, todo, saw, overtaken]
    syncRunning,   \* TRAY_SYNC_RUNNING
    syncPending,   \* TRAY_SYNC_PENDING
    trayChanges, trayFailures

MoreHappens == trayChanges + trayFailures < MaxTrayEvents

trayCounts == <<trayChanges, trayFailures>>
sync       == <<syncRunning, syncPending>>
trayVars   == <<facts, stagedFacts, shown, old, drawing, sync, trayCounts>>

Unread == [f \in {} |-> 0]
Drawing(place, does, todo) == [at |-> place, does |-> does, todo |-> todo, saw |-> Unread, overtaken |-> FALSE]
IdleDrawing == Drawing("idle", NoTask, <<>>)

MenuShows    == Facts                     \* create_tray_menu
IconShows    == {"settings"}              \* get_tray_icon
TooltipShows == {"settings", "profile"}   \* update_tooltip
Shows(surface) ==
    CASE surface = "menu" -> MenuShows [] surface = "icon" -> IconShows [] surface = "tooltip" -> TooltipShows

\* latest_arc of the settings where there is a draft.
Latest == IF stagedFacts THEN [facts EXCEPT !["settings"] = @ + 1] ELSE facts

DrawingAt(t, place) == drawing[t].at = place
Does(t, does) == drawing[t].does = does
Surface(t) == LET name == Head(drawing[t].todo) IN IF name = "bare" THEN "menu" ELSE name

\* update_part, once the core is started: a menu without nodes first.  Or that is long done.
TrayInit ==
    /\ facts = [f \in Facts |-> 0] /\ stagedFacts = FALSE
    /\ shown = [s \in Surfaces |-> [f \in Shows(s) |-> 0]]
    /\ \E first \in Callers \cup {NoTask} :
        /\ old = IF first = NoTask THEN {} ELSE Surfaces
        /\ trayChanges = IF first = NoTask THEN 0 ELSE 1
        /\ drawing = [t \in TrayTasks |-> IF t = first
                       THEN Drawing("next", NoTask, <<"bare", "icon", "tooltip">>)
                       ELSE IdleDrawing]
    /\ syncRunning = FALSE /\ syncPending = FALSE
    /\ trayFailures = 0

-----------------------------------------------------------------------------
(* An update of one surface *)

(* The updates of a surface that began before are overtaken: what they will show
   is older. *)
Overtake(surface, tasks) ==
    [t \in TrayTasks |-> IF tasks[t].at \in {"fetch", "set"} /\ Surface(t) = surface
                         THEN [tasks[t] EXCEPT !.overtaken = TRUE] ELSE tasks[t]]

\* An update that is due and does not come.
Misses(surfaces) == old' = old \cup surfaces

\* The icon is drawn from the settings its caller passes: a patch's own, else data_arc.
Seen(t) == IF Surface(t) = "icon" /\ ~Does(t, "patch") THEN facts ELSE Latest

Behind(t) == Seen(t) # Latest

\* A task goes on with the surface it has begun.
GoesOnWith(t, place, saw, overtaken) ==
    [at |-> place, does |-> drawing[t].does, todo |-> drawing[t].todo, saw |-> saw, overtaken |-> overtaken]

Read(t) ==
    /\ DrawingAt(t, "next") /\ drawing[t].todo # <<>> /\ ~Does(t, "superseded") /\ ~Does(t, "replaced")
    /\ drawing' = [(IF Behind(t) THEN drawing ELSE Overtake(Surface(t), drawing)) EXCEPT
                       ![t] = GoesOnWith(t, IF Head(drawing[t].todo) = "menu" THEN "fetch" ELSE "set",
                                     [f \in Shows(Surface(t)) |-> Seen(t)[f]], Behind(t))]
    /\ UNCHANGED <<facts, stagedFacts, shown, old, sync, trayCounts>>

\* get_proxies, for at most a second; without an answer the menu has no nodes.
Fetch(t) ==
    /\ DrawingAt(t, "fetch")
    /\ \E nodes \in {facts["node"], -1} :
        /\ IF nodes = -1 THEN MoreHappens /\ trayFailures' = trayFailures + 1 ELSE UNCHANGED trayFailures
        /\ drawing' = [drawing EXCEPT
                         ![t] = GoesOnWith(t, "set", [drawing[t].saw EXCEPT !["node"] = nodes], drawing[t].overtaken)]
    /\ UNCHANGED <<facts, stagedFacts, shown, old, sync, trayChanges>>

\* A patch and the loop have more to do when the last surface is drawn.
Then(t) ==
    IF Len(drawing[t].todo) = 1 /\ drawing[t].does \notin {"patch", "sync"} THEN IdleDrawing
    ELSE Drawing("next", drawing[t].does, Tail(drawing[t].todo))

\* update_part spawns the full menu when the bare one is set.
Set(t) ==
    /\ DrawingAt(t, "set")
    /\ LET s    == Surface(t)
           bare == Head(drawing[t].todo) = "bare"
       IN  /\ shown' = [shown EXCEPT ![s] = IF bare THEN [drawing[t].saw EXCEPT !["node"] = -1] ELSE drawing[t].saw]
           /\ old' = IF drawing[t].overtaken THEN old \cup {s} ELSE old \ {s}
           /\ drawing' = [drawing EXCEPT ![t] = Then(t),
                                         ![Spawned] = IF bare THEN Drawing("next", NoTask, <<"menu">>)
                                                      ELSE @]
    /\ UNCHANGED <<facts, stagedFacts, sync, trayCounts>>

-----------------------------------------------------------------------------
(* Those who change what is shown, and the updates that follow *)

\* mutant: a switch of the profile leaves the tooltip alone
MenuOnly(fact) == <<"menu">>

Follow(fact) ==
    CASE fact = "profile" -> <<"tooltip", "menu">>      \* update_tray_after_activation, delete_profile
      [] fact = "mode"    -> <<"menu", "icon">>         \* update_menu_and_icon
      [] OTHER            -> <<"menu">>                 \* lightweight mode, an operation of the Service, a node

StartsUpdate(t, does, todo) == drawing' = [drawing EXCEPT ![t] = Drawing("next", does, todo)]

(* After a switch the tray is updated when the saved nodes are back, if no other
   pick or switch has superseded that until then. *)
Supersede(by) ==
    [t \in TrayTasks |-> IF Does(t, "activate") THEN [drawing[t] EXCEPT !.does = by] ELSE drawing[t]]

Switch(t) ==
    /\ DrawingAt(t, "idle") /\ MoreHappens /\ trayChanges' = trayChanges + 1
    /\ facts' = [facts EXCEPT !["profile"] = @ + 1]
    /\ drawing' = [Supersede("replaced") EXCEPT
                    ![t] = Drawing("next", "activate", Follow("profile"))]
    /\ UNCHANGED <<stagedFacts, shown, old, sync, trayFailures>>

\* A pick brings the menu up to date itself, but not the tooltip.
DropUpdate(t) ==
    /\ DrawingAt(t, "next") /\ drawing[t].does \in {"superseded", "replaced"}
    /\ IF Does(t, "superseded") /\ Head(drawing[t].todo) = "tooltip"
       THEN Misses({"tooltip"}) /\ drawing' = [Overtake("tooltip", drawing) EXCEPT ![t] = IdleDrawing]
       ELSE UNCHANGED old /\ drawing' = [drawing EXCEPT ![t] = IdleDrawing]
    /\ UNCHANGED <<facts, stagedFacts, shown, sync, trayCounts>>

\* switch_proxy_node: the core has the node, the profile records it, the menu follows.
Pick(t) ==
    /\ DrawingAt(t, "idle") /\ MoreHappens /\ trayChanges' = trayChanges + 1
    /\ facts' = [facts EXCEPT !["node"] = @ + 1]
    /\ drawing' = [Supersede("superseded") EXCEPT ![t] = Drawing("next", NoTask, Follow("node"))]
    /\ UNCHANGED <<stagedFacts, shown, old, sync, trayFailures>>

\* Lightweight mode, from the tray or a hotkey, or what the Service can do.
ChangeApp(t) ==
    /\ DrawingAt(t, "idle") /\ MoreHappens /\ trayChanges' = trayChanges + 1
    /\ facts' = [facts EXCEPT !["app"] = @ + 1] /\ StartsUpdate(t, NoTask, Follow("app"))
    /\ UNCHANGED <<stagedFacts, shown, old, sync, trayFailures>>

\* The tray is updated only if the file could be saved.
change_clash_mode(t) ==
    /\ DrawingAt(t, "idle") /\ MoreHappens /\ trayChanges' = trayChanges + 1
    /\ facts' = [facts EXCEPT !["mode"] = @ + 1]
    /\ \/ StartsUpdate(t, NoTask, Follow("mode")) /\ UNCHANGED <<old, trayFailures>>
       \/ /\ MoreHappens /\ trayFailures' = trayFailures + 1
          /\ Misses({"menu"}) /\ drawing' = Overtake("menu", drawing)
    /\ UNCHANGED <<stagedFacts, shown, sync>>

\* A patch that shows in all three: the system proxy, or TUN; patches are serialised.
StageShown(t) ==
    /\ DrawingAt(t, "idle") /\ ~stagedFacts /\ MoreHappens /\ trayChanges' = trayChanges + 1
    /\ stagedFacts' = TRUE /\ StartsUpdate(t, "patch", <<"menu", "icon", "tooltip">>)
    /\ UNCHANGED <<facts, shown, old, sync, trayFailures>>

EndTrayPatch(t) ==
    /\ Does(t, "patch") /\ DrawingAt(t, "next") /\ drawing[t].todo = <<>>
    /\ stagedFacts' = FALSE /\ facts' = Latest /\ drawing' = [drawing EXCEPT ![t] = IdleDrawing]
    /\ UNCHANGED <<shown, old, sync, trayCounts>>

\* Nothing updates the tray after a rollback.
RollBack(t) ==
    /\ Does(t, "patch") /\ DrawingAt(t, "next") /\ MoreHappens /\ trayFailures' = trayFailures + 1
    /\ stagedFacts' = FALSE /\ Misses(Surfaces)
    /\ drawing' = [u \in TrayTasks |-> IF u = t THEN IdleDrawing ELSE [drawing[u] EXCEPT !.overtaken = TRUE]]
    /\ UNCHANGED <<facts, shown, sync, trayChanges>>

-----------------------------------------------------------------------------
(* sync_tray_proxy_selection: a node picked in the window *)

AskSync(t) ==
    /\ DrawingAt(t, "idle") /\ MoreHappens /\ trayChanges' = trayChanges + 1
    /\ facts' = [facts EXCEPT !["node"] = @ + 1]
    /\ \/ ~syncRunning /\ syncRunning' = TRUE
          /\ drawing' = [Supersede("superseded") EXCEPT
                          ![t] = Drawing("next", "sync", <<"menu">>)]
       \/ syncRunning /\ UNCHANGED syncRunning
          /\ drawing' = [Supersede("superseded") EXCEPT ![t] = Drawing("pend", NoTask, <<>>)]
    /\ UNCHANGED <<stagedFacts, shown, old, syncPending, trayFailures>>

\* The loop may have ended since the flag was looked at: nobody serves the request.
Pend(t) ==
    /\ DrawingAt(t, "pend") /\ syncPending' = TRUE
    /\ IF syncRunning THEN UNCHANGED old /\ drawing' = [drawing EXCEPT ![t] = IdleDrawing]
                      ELSE Misses({"menu"}) /\ drawing' = [Overtake("menu", drawing) EXCEPT ![t] = IdleDrawing]
    /\ UNCHANGED <<facts, stagedFacts, shown, syncRunning, trayCounts>>

Again(t) == StartsUpdate(t, "sync", <<"menu">>)

SyncPass(t) ==
    /\ Does(t, "sync") /\ DrawingAt(t, "next") /\ drawing[t].todo = <<>> /\ syncPending' = FALSE
    /\ IF syncPending THEN Again(t)
       ELSE drawing' = [drawing EXCEPT ![t] = Drawing("stopping", "sync", <<>>)]
    /\ UNCHANGED <<facts, stagedFacts, shown, old, syncRunning, trayCounts>>

Stopping(t) ==
    /\ DrawingAt(t, "stopping") /\ syncRunning' = FALSE
    /\ drawing' = [drawing EXCEPT ![t] = Drawing("stopped", "sync", <<>>)]
    /\ UNCHANGED <<facts, stagedFacts, shown, old, syncPending, trayCounts>>

\* mutant: the loop ends without a second look
NoSecondLook(t) ==
    /\ DrawingAt(t, "stopped") /\ drawing' = [drawing EXCEPT ![t] = IdleDrawing]
    /\ UNCHANGED <<facts, stagedFacts, shown, old, sync, trayCounts>>

(* The flag is taken back only if no other loop has begun.  If one has, the request
   that was taken is not its own any more either: nobody serves it. *)
SecondLook(t) ==
    /\ DrawingAt(t, "stopped") /\ syncPending' = FALSE
    /\ \/ /\ syncPending /\ ~syncRunning
          /\ syncRunning' = TRUE /\ Again(t) /\ UNCHANGED old
       \/ /\ syncPending /\ syncRunning
          /\ Misses({"menu"}) /\ drawing' = [Overtake("menu", drawing) EXCEPT ![t] = IdleDrawing]
          /\ UNCHANGED syncRunning
       \/ /\ ~syncPending
          /\ drawing' = [drawing EXCEPT ![t] = IdleDrawing] /\ UNCHANGED <<old, syncRunning>>
    /\ UNCHANGED <<facts, stagedFacts, shown, trayCounts>>

TrayNext ==
    \/ \E t \in TrayTasks : Read(t) \/ Fetch(t) \/ Set(t)
    \/ \E t \in Callers :
        \/ ChangeApp(t) \/ change_clash_mode(t) \/ Switch(t) \/ DropUpdate(t) \/ Pick(t)
        \/ StageShown(t) \/ EndTrayPatch(t) \/ RollBack(t)
        \/ AskSync(t) \/ Pend(t) \/ SyncPass(t) \/ Stopping(t) \/ SecondLook(t)

-----------------------------------------------------------------------------
(* Properties *)

TrayTypeOK ==
    /\ facts \in [Facts -> 0..MaxTrayEvents] /\ stagedFacts \in BOOLEAN /\ old \subseteq Surfaces
    /\ \A s \in Surfaces : shown[s] \in [Shows(s) -> -1..MaxTrayEvents]
    /\ \A t \in TrayTasks : drawing[t].at \in {"idle", "next", "fetch", "set", "pend", "stopping", "stopped"}

TrayQuiet == \A t \in TrayTasks : DrawingAt(t, "idle")

(* At rest the menu, the icon and the tooltip say what is the case, but for an
   update that overtook a later one, a patch rolled back, a mode not saved, a
   switch whose activation a pick has superseded, and a request made while the
   loop was ending, which its last look may even take from the loop that follows. *)
SaysWhatIs ==
    TrayQuiet => \A s \in Surfaces \ old, f \in Facts :
        f \in Shows(s) => shown[s][f] = facts[f] \/ (f = "node" /\ shown[s][f] = -1 /\ trayFailures > 0)

\* One loop serves the requests of the window, and the flag says whether there is one.
OneSync == Cardinality({t \in TrayTasks : Does(t, "sync") /\ ~DrawingAt(t, "stopped")}) = IF syncRunning THEN 1 ELSE 0

TrayFollows == TrayTypeOK /\ SaysWhatIs /\ OneSync

=============================================================================
