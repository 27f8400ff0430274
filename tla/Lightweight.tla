----------------------------- MODULE Lightweight -----------------------------
(***************************************************************************)
(* Lightweight mode (core/lightweight.rs): the window is destroyed, by the *)
(* user or by a timer that a closed window starts and a focused one stops. *)
(* Entering and leaving are handlers of several steps which any task may   *)
(* run at any time, and everything that shows, hides or toggles the window *)
(* (utils/window_manager.rs, feat/window.rs, the tray, the hotkeys, a second *)
(* launch) runs beside them.                                               *)
(***************************************************************************)
EXTENDS Integers, FiniteSets

CONSTANTS
    Users,         \* tasks started by the user: tray, hotkey, command, second launch
    Timers,        \* tasks of setup_light_weight_timer
    MaxOps,        \* bound: what the user asks
    MaxWindowFailures    \* bound: windows that cannot be built

NoOne == "nobody"
WindowTasks  == Users \cup Timers
Modes  == {"Normal", "In", "Exiting"}
Existing == {"loading", "hidden", "shown", "focused"}

Entering == {"enter", "entered", "destroy", "cancel"}
Leaving  == {"leave", "exiting", "show", "build", "listen", "normal"}
Showing  == {"show_alone", "build_alone", "toggle"}
WindowPhases   == {"idle", "armed", "expired"} \cup Entering \cup Leaving \cup Showing

VARIABLES
    lightMode,    \* LIGHTWEIGHT_STATE
    window,       \* "none" or what the window is
    recent,       \* WINDOW_OPERATION_LIMITER refuses
    auto,         \* enable_auto_light_weight_mode as committed
    patching,     \* the value a patch of it is about to commit, or Nobody
    listening,    \* the window's close and focus handlers are registered
    slot,         \* CANCEL_TX: the timer it cancels, or Nobody
    setup,        \* a close handler's task has not yet set the timer
    focusing,     \* the focus event is not yet handled
    task,
    windowAsks, windowFailures,
    refused,      \* history: the limiter refused, or a window could not be built
    across,       \* history: the mode was entered beside a plain show
    raced,        \* history: the mode was entered beside an exit
    unheard       \* history: a timer was set by a task older than the focus, or nobody listened

windowEvents == <<setup, focusing>>
windowCounts == <<windowAsks, windowFailures>>
lightConfig == <<auto, patching>>
windowHistory == <<across, raced, unheard>>
lightweightVars == <<lightMode, window, recent, lightConfig, listening, slot, windowEvents, task, windowCounts, refused, windowHistory>>

LightweightInit ==
    /\ window \in {"none", "loading"} /\ recent = FALSE      \* with a silent start there is none
    /\ lightMode = IF window = "none" THEN "In" ELSE "Normal"
    /\ auto \in BOOLEAN /\ patching = NoOne
    /\ listening = (auto /\ window # "none")      \* auto_lightweight_boot
    /\ slot = NoOne /\ setup = FALSE /\ focusing = FALSE
    /\ task = [t \in WindowTasks |-> "idle"]
    /\ windowAsks = 0 /\ windowFailures = 0 /\ refused = FALSE
    /\ across = FALSE /\ raced = FALSE /\ unheard = FALSE

TaskAt(t, phase) == task[t] = phase
TaskTo(t, phase) == task' = [task EXCEPT ![t] = phase]

try_transition(from, to) == lightMode = from /\ lightMode' = to

(* The sender is dropped or used: the timer it belongs to, if it still sleeps,
   ends; one that has expired goes on. *)
Silence(tasks) == IF slot # NoOne /\ tasks[slot] = "armed" THEN [tasks EXCEPT ![slot] = "idle"] ELSE tasks

cancel_light_weight_timer(tasks) == slot' = NoOne /\ task' = Silence(tasks)

-----------------------------------------------------------------------------
(* The user and the configuration *)

AskWindow(t) ==
    /\ TaskAt(t, "idle") /\ t \in Users /\ windowAsks < MaxOps /\ windowAsks' = windowAsks + 1
    /\ \/ TaskTo(t, "enter")
       \/ TaskTo(t, "leave")     \* and if there is nothing to leave, the window is shown
       \/ TaskTo(t, IF lightMode = "In" THEN "leave" ELSE "toggle")     \* open_or_close_dashboard
    /\ UNCHANGED <<lightMode, window, recent, lightConfig, listening, slot, windowEvents, windowFailures, refused>>

\* The native close button, or hide() on macOS, which sets the timer itself.
Close(native) ==
    /\ window \in {"shown", "focused"} /\ windowAsks < MaxOps /\ windowAsks' = windowAsks + 1
    /\ window' = "hidden"
    /\ setup' = (setup \/ IF native THEN listening ELSE auto)
    /\ UNCHANGED <<lightMode, recent, lightConfig, listening, slot, focusing, task, windowFailures, refused>>

\* Another window is put in front, or this one.
Focus ==
    /\ windowAsks < MaxOps /\ windowAsks' = windowAsks + 1
    /\ \/ window = "focused" /\ window' = "shown" /\ UNCHANGED focusing
       \/ window = "shown" /\ window' = "focused" /\ focusing' = TRUE
    /\ UNCHANGED <<lightMode, recent, lightConfig, listening, slot, setup, task, windowFailures, refused>>

\* Effect::Lightweight runs before its patch is committed, which may still fail.
PatchEffect ==
    /\ patching = NoOne /\ windowAsks < MaxOps /\ windowAsks' = windowAsks + 1
    /\ patching' = IF auto THEN "off" ELSE "on"
    /\ IF auto
       THEN cancel_light_weight_timer(task) /\ listening' = FALSE
       ELSE listening' = (listening \/ window # "none") /\ UNCHANGED <<slot, task>>
    /\ UNCHANGED <<lightMode, window, recent, auto, windowEvents, windowFailures, refused>>

PatchEnds ==
    /\ patching # NoOne /\ patching' = NoOne
    /\ auto' \in {auto, patching = "on"}
    /\ UNCHANGED <<lightMode, window, recent, listening, slot, windowEvents, task, windowCounts, refused>>

\* WINDOW_OPERATION_DEBOUNCE_MS pass.
Debounced ==
    /\ recent /\ recent' = FALSE
    /\ UNCHANGED <<lightMode, window, lightConfig, listening, slot, windowEvents, task, windowCounts, refused>>

\* on_page_load: the new window is shown and focused.
PageLoaded ==
    /\ window = "loading" /\ window' = "focused" /\ focusing' = TRUE
    /\ UNCHANGED <<lightMode, recent, lightConfig, listening, slot, setup, task, windowCounts, refused>>

-----------------------------------------------------------------------------
(* The timer *)

\* mutant: being focused does not stop the timer
KeepTimer(tasks) == UNCHANGED <<slot, task>>

FocusStops(tasks) == IF listening THEN cancel_light_weight_timer(tasks) ELSE KeepTimer(tasks)

FocusHandled ==
    /\ focusing /\ focusing' = FALSE
    /\ FocusStops(task)
    /\ UNCHANGED <<lightMode, window, recent, lightConfig, listening, setup, windowCounts, refused>>

\* setup_light_weight_timer: one timer at a time.
SetTimer(t) ==
    /\ setup /\ setup' = FALSE /\ t \in Timers
    /\ IF slot # NoOne THEN UNCHANGED <<slot, task>>
       ELSE TaskAt(t, "idle") /\ slot' = t /\ TaskTo(t, "armed")
    /\ UNCHANGED <<lightMode, window, recent, lightConfig, listening, focusing, windowCounts, refused>>

Expire(t) ==
    /\ TaskAt(t, "armed") /\ TaskTo(t, "expired")
    /\ UNCHANGED <<lightMode, window, recent, lightConfig, listening, slot, windowEvents, windowCounts, refused>>

\* "*guard = None": whoever's sender is there by now.
Forget(t) ==
    /\ TaskAt(t, "expired")
    /\ slot' = NoOne /\ task' = [Silence(task) EXCEPT ![t] = "enter"]
    /\ UNCHANGED <<lightMode, window, recent, lightConfig, listening, windowEvents, windowCounts, refused>>

-----------------------------------------------------------------------------
(* entry_lightweight_mode *)

Enter(t) ==
    /\ TaskAt(t, "enter")
    /\ IF lightMode = "Normal" THEN try_transition("Normal", "In") /\ TaskTo(t, "entered")
       ELSE UNCHANGED lightMode /\ TaskTo(t, "idle")
    /\ UNCHANGED <<window, recent, lightConfig, listening, slot, windowEvents, windowCounts, refused>>

\* record_state_and_log stores what the compare-and-set has stored.
StoreMode(t, at, state, next) ==
    /\ TaskAt(t, at) /\ lightMode' = state /\ TaskTo(t, next)
    /\ UNCHANGED <<window, recent, lightConfig, listening, slot, windowEvents, windowCounts, refused>>

Destroy(t) ==
    /\ TaskAt(t, "destroy") /\ window' = "none" /\ focusing' = FALSE /\ TaskTo(t, "cancel")
    /\ UNCHANGED <<lightMode, recent, lightConfig, listening, slot, setup, windowCounts, refused>>

CancelTimer(t) ==
    /\ TaskAt(t, "cancel") /\ cancel_light_weight_timer([task EXCEPT ![t] = "idle"])
    /\ UNCHANGED <<lightMode, window, recent, lightConfig, listening, windowEvents, windowCounts, refused>>

-----------------------------------------------------------------------------
(* exit_lightweight_mode, show_main_window and toggle_main_window *)

Leave(t) ==
    /\ TaskAt(t, "leave")
    /\ IF lightMode = "In" THEN try_transition("In", "Exiting") /\ TaskTo(t, "exiting")
       ELSE UNCHANGED lightMode /\ TaskTo(t, "show_alone")
    /\ UNCHANGED <<window, recent, lightConfig, listening, slot, windowEvents, windowCounts, refused>>

\* activate_window: shown and focused, whatever it was.
activate_window == window' = "focused" /\ focusing' = TRUE /\ UNCHANGED setup

Refused(t, next) == recent /\ TaskTo(t, next) /\ refused' = TRUE /\ UNCHANGED <<window, recent, windowEvents>>

Show(t, at, build, next) ==
    /\ TaskAt(t, at)
    /\ \/ Refused(t, next)
       \/ /\ ~recent /\ recent' = TRUE /\ UNCHANGED refused
          /\ CASE window = "none"    -> TaskTo(t, build) /\ UNCHANGED <<window, windowEvents>>
               [] window = "focused" -> TaskTo(t, next) /\ UNCHANGED <<window, windowEvents>>
               [] OTHER              -> TaskTo(t, next) /\ activate_window
    /\ UNCHANGED <<lightMode, lightConfig, listening, slot, windowCounts>>

\* close() asks the window to close, which hides it.
Toggle(t) ==
    /\ TaskAt(t, "toggle")
    /\ \/ Refused(t, "idle")
       \/ /\ ~recent /\ recent' = TRUE /\ UNCHANGED refused
          /\ CASE window = "none" -> TaskTo(t, "build_alone") /\ UNCHANGED <<window, windowEvents>>
               [] window \in {"shown", "focused"} ->
                    TaskTo(t, "idle") /\ window' = "hidden" /\ setup' = (setup \/ listening) /\ UNCHANGED focusing
               [] OTHER -> TaskTo(t, "idle") /\ activate_window
    /\ UNCHANGED <<lightMode, lightConfig, listening, slot, windowCounts>>

\* build_new_window; a second one of the same label cannot be built.
Build(t, at, next) ==
    /\ TaskAt(t, at) /\ TaskTo(t, next)
    /\ \/ window = "none" /\ window' = "loading" /\ UNCHANGED <<windowFailures, refused>>
       \/ window # "none" /\ UNCHANGED <<window, windowFailures, refused>>
       \/ windowFailures < MaxWindowFailures /\ windowFailures' = windowFailures + 1 /\ refused' = TRUE /\ UNCHANGED window
    /\ UNCHANGED <<lightMode, recent, lightConfig, listening, slot, windowEvents, windowAsks>>

\* The listeners, if the committed settings want them, and then the timer.
Listen(t) ==
    /\ TaskAt(t, "listen")
    /\ listening' = (listening \/ (auto /\ window # "none"))
    /\ cancel_light_weight_timer([task EXCEPT ![t] = "normal"])
    /\ UNCHANGED <<lightMode, window, recent, lightConfig, windowEvents, windowCounts, refused>>

\* mutant: Normal is stored before the window is shown
Early(t) ==
    \/ StoreMode(t, "exiting", "Normal", "show")
    \/ Show(t, "show", "build", "listen")
    \/ Build(t, "build", "listen") \/ Listen(t)
    \/ StoreMode(t, "normal", lightMode, "idle")

\* mutant: a refused show returns before the state is stored
Hasty(t) ==
    \/ StoreMode(t, "exiting", "Exiting", "show")
    \/ Show(t, "show", "build", IF recent THEN "idle" ELSE "listen")
    \/ Build(t, "build", "listen") \/ Listen(t)
    \/ StoreMode(t, "normal", "Normal", "idle")

exit_lightweight_mode(t) ==
    \/ StoreMode(t, "exiting", "Exiting", "show")
    \/ Show(t, "show", "build", "listen")
    \/ Build(t, "build", "listen") \/ Listen(t)
    \/ StoreMode(t, "normal", "Normal", "idle")

entry_lightweight_mode(t) ==
    Enter(t) \/ StoreMode(t, "entered", "In", "destroy") \/ Destroy(t) \/ CancelTimer(t)

LightweightStep ==
    \/ \E t \in WindowTasks :
        \/ AskWindow(t) \/ SetTimer(t) \/ Expire(t) \/ Forget(t)
        \/ entry_lightweight_mode(t) \/ Leave(t) \/ exit_lightweight_mode(t)
        \/ Toggle(t) \/ Show(t, "show_alone", "build_alone", "idle") \/ Build(t, "build_alone", "idle")
    \/ \E native \in BOOLEAN : Close(native)
    \/ Focus \/ FocusHandled \/ PatchEffect \/ PatchEnds \/ Debounced \/ PageLoaded

\* An entry under way beside a task that is at one of these.
EntryBeside(phases) ==
    /\ \E t \in WindowTasks : task[t] \in Entering
    /\ \E t \in WindowTasks : task[t] \in phases

LightweightNext ==
    /\ LightweightStep
    /\ across' = (across \/ EntryBeside(Showing \cup {"leave"})')
    /\ raced' = (raced \/ EntryBeside(Leaving \cup Showing)')
    /\ unheard' = (unheard \/ (window' = "focused" /\ (setup' \/ (slot' # NoOne /\ ~listening'))))

-----------------------------------------------------------------------------
(* Properties *)

LightweightTypeOK ==
    /\ lightMode \in Modes /\ window \in Existing \cup {"none"}
    /\ task \in [WindowTasks -> WindowPhases] /\ slot \in Timers \cup {NoOne}

WindowsQuiet == \A t \in WindowTasks : task[t] \in {"idle", "armed"}

\* Every late store is followed by its task's last one: "Exiting" refuses both entry and exit.
NeverStuckExiting == WindowsQuiet => lightMode # "Exiting"

\* Nothing but a plain show that an entry overtakes leaves a window in the mode.
NoWindowInLightweight == WindowsQuiet /\ ~across /\ lightMode = "In" => window = "none"

\* Who leaves the mode gets a window, unless it is refused or taken away again.
WindowComesBack == WindowsQuiet /\ ~raced /\ ~refused /\ lightMode = "Normal" => window # "none"

\* The window the user has in front is not about to be destroyed under them.
OpenWindowStays ==
    WindowsQuiet /\ window = "focused" /\ ~focusing /\ ~unheard => \A t \in Timers : task[t] # "armed"

WindowFollowsMode ==
    LightweightTypeOK /\ NeverStuckExiting /\ NoWindowInLightweight
        /\ WindowComesBack /\ OpenWindowStays

=============================================================================
