------------------------------- MODULE Hotkeys -------------------------------
(***************************************************************************)
(* The global hotkeys (core/hotkey.rs): registered at startup, changed by  *)
(* the difference to a recorded list when a patch is applied, and, when    *)
(* they are not global, registered with the focus of the window and        *)
(* removed with its loss.  Every focus event is handled by a task of its   *)
(* own (lib.rs), and nothing orders these tasks.                           *)
(***************************************************************************)
EXTENDS Integers, FiniteSets

CONSTANTS
    Keys,
    Lists,        \* the lists of hotkeys a user may configure: [Keys -> a function or None]
    Handlers,     \* tasks of handle_window_focus
    MaxEvents,    \* bound: changes of the focus
    MaxKeyPatches,   \* bound: patches of the settings
    MaxKeyFailures   \* bound: keys another application holds, patches that fail later

NoKey    == "none"
Startup == "startup"    \* init_hotkey
System  == "system"     \* macOS: CMD+Q and CMD+W, as key and as function
HotkeyTasks   == Handlers \cup {Startup}
IdleKeys    == [at |-> "idle", list |-> NoKey, todo |-> {}]

VARIABLES
    keySettings,        \* [global, hotkeys] as committed
    stagedKeys,       \* the draft: what a patch has staged, else what is committed
    recorded,     \* Hotkey::current
    bound,        \* what is registered with the system
    focused,      \* the main window
    handler,         \* the handlers and the startup
    update,       \* Hotkey::update of the patch
    events, keyPatches, keyFailures,
    met,      \* history: a change of the focus met a handler or a patch
    lost,         \* history: keys that could not be registered, or whose patch gave up
    unloaded         \* history: nothing was loaded yet, or a recorded patch was rolled back

keyCounts == <<events, keyPatches, keyFailures>>
hotkeyVars == <<keySettings, stagedKeys, recorded, bound, focused, handler, update, keyCounts, met, lost, unloaded>>

Configured(list) == {k \in Keys : list[k] # NoKey}
NoKeys == [k \in Keys |-> NoKey]

HotkeysInit ==
    /\ keySettings \in [global : BOOLEAN, hotkeys : Lists] /\ stagedKeys = keySettings
    /\ recorded = NoKeys /\ bound = [k \in Keys \cup {System} |-> NoKey]
    /\ focused = FALSE
    /\ handler = [t \in HotkeyTasks |-> IF t = Startup /\ keySettings.global THEN [IdleKeys EXCEPT !.at = "init"] ELSE IdleKeys]
    /\ update = IdleKeys
    /\ events = 0 /\ keyPatches = 0 /\ keyFailures = 0
    /\ met = FALSE /\ lost = {} /\ unloaded = TRUE

HandlerAt(t, place) == handler[t].at = place
BusyHandlers == {t \in HotkeyTasks : ~HandlerAt(t, "idle")}
HandlerTo(t, place) == handler' = [handler EXCEPT ![t] = [IdleKeys EXCEPT !.at = place]]
KeyFails == keyFailures < MaxKeyFailures /\ keyFailures' = keyFailures + 1

\* A registered key is unregistered first; then another application may hold it.
register_hotkey_with_function(k, f) == bound' = [bound EXCEPT ![k] = f]

Refuse(k) == bound' \in {bound, [bound EXCEPT ![k] = NoKey]} /\ KeyFails

-----------------------------------------------------------------------------
(* The focus of the window *)

Event(t) ==
    /\ t \in Handlers /\ HandlerAt(t, "idle") /\ events < MaxEvents /\ events' = events + 1
    /\ focused' = ~focused
    /\ HandlerTo(t, IF focused' THEN "gained" ELSE "lost")
    /\ met' = (met \/ BusyHandlers \ {Startup} # {} \/ update.at # "idle")
    /\ UNCHANGED <<keySettings, stagedKeys, recorded, bound, update, keyPatches, keyFailures, lost, unloaded>>

Gained(t) ==
    /\ HandlerAt(t, "gained") /\ register_hotkey_with_function(System, System)
    /\ HandlerTo(t, IF keySettings.global THEN "idle" ELSE "init")
    /\ UNCHANGED <<keySettings, stagedKeys, recorded, focused, update, keyCounts, met, lost, unloaded>>

Lost(t) ==
    /\ HandlerAt(t, "lost") /\ bound' = [bound EXCEPT ![System] = NoKey]
    /\ HandlerTo(t, IF keySettings.global THEN "idle" ELSE "reset")
    /\ UNCHANGED <<keySettings, stagedKeys, recorded, focused, update, keyCounts, met, lost, unloaded>>

\* mutant: the keys stay where they are
KeepAll == UNCHANGED bound

unregister_all == bound' = [k \in DOMAIN bound |-> NoKey]

Reset(t) ==
    /\ HandlerAt(t, "reset") /\ unregister_all /\ HandlerTo(t, "idle")
    /\ met' = (met /\ (focused \/ keySettings.global \/ BusyHandlers # {t} \/ update.at # "idle"))
    /\ lost' = {} /\ unloaded' = (unloaded \/ met)
    /\ UNCHANGED <<keySettings, stagedKeys, recorded, focused, update, keyCounts>>

-----------------------------------------------------------------------------
(* Hotkey::init: every key of latest_arc's list, one by one *)

init(t) ==
    /\ HandlerAt(t, "init")
    /\ handler' = [handler EXCEPT ![t] = [at |-> "bind", list |-> stagedKeys.hotkeys,
                                    todo |-> Configured(stagedKeys.hotkeys)]]
    /\ UNCHANGED <<keySettings, stagedKeys, recorded, bound, focused, update, keyCounts, met, lost, unloaded>>

\* An error is logged, and the next key follows.
BindNext(t) ==
    /\ HandlerAt(t, "bind")
    /\ \E k \in handler[t].todo :
            /\ handler' = [handler EXCEPT ![t].todo = @ \ {k}]
            /\ \/ register_hotkey_with_function(k, handler[t].list[k]) /\ lost' = lost \ {k} /\ UNCHANGED keyFailures
               \/ Refuse(k) /\ lost' = lost \cup {k}
    /\ UNCHANGED <<keySettings, stagedKeys, recorded, focused, update, events, keyPatches, met, unloaded>>

RecordKeys(t) ==
    /\ HandlerAt(t, "bind") /\ handler[t].todo = {} /\ HandlerTo(t, "idle")
    /\ recorded' = handler[t].list /\ unloaded' = FALSE
    /\ UNCHANGED <<keySettings, stagedKeys, bound, focused, update, keyCounts, met, lost>>

-----------------------------------------------------------------------------
(* A patch of the settings, from the focused window; patches are serialised *)

\* mutant: a key whose function changes is left to the old one
KeepChanged(old, new) == {k \in Keys : (old[k] = NoKey) # (new[k] = NoKey)}

get_diff(old, new) == {k \in Keys : old[k] # new[k]}

\* mutant: what is gone from the list stays registered
KeepGone(changed) == UNCHANGED bound

Unregister(changed) ==
    bound' = [k \in DOMAIN bound |-> IF k \in changed /\ recorded[k] # NoKey THEN NoKey ELSE bound[k]]

\* update() compares with the record; what cannot be unregistered is ignored.
StageKeys ==
    /\ update.at = "idle" /\ focused /\ keyPatches < MaxKeyPatches /\ keyPatches' = keyPatches + 1
    /\ \E new \in [global : BOOLEAN, hotkeys : Lists] :
        /\ new # keySettings /\ stagedKeys' = new
        /\ LET changed == get_diff(recorded, new.hotkeys)
           IN  /\ Unregister(changed)
               /\ update' = [at |-> "bind", list |-> changed, todo |-> changed \cap Configured(new.hotkeys)]
    /\ met' = (met \/ BusyHandlers # {})
    /\ UNCHANGED <<keySettings, recorded, focused, handler, events, keyFailures, lost, unloaded>>

BindNew ==
    /\ update.at = "bind"
    /\ \E k \in update.todo :
        /\ register_hotkey_with_function(k, stagedKeys.hotkeys[k])
        /\ update' = [update EXCEPT !.todo = @ \ {k}]
    /\ UNCHANGED <<keySettings, stagedKeys, recorded, focused, handler, keyCounts, met, lost, unloaded>>

\* The first error ends the update and, with it, the patch.
GiveUpKeys ==
    /\ update.at = "bind" /\ \E k \in update.todo : Refuse(k)
    /\ stagedKeys' = keySettings /\ update' = IdleKeys /\ lost' = lost \cup update.list
    /\ UNCHANGED <<keySettings, recorded, focused, handler, events, keyPatches, met, unloaded>>

RecordNew ==
    /\ update.at = "bind" /\ update.todo = {} /\ update' = [update EXCEPT !.at = "recorded"]
    /\ recorded' = stagedKeys.hotkeys /\ lost' = lost \ update.list
    /\ UNCHANGED <<keySettings, stagedKeys, bound, focused, handler, keyCounts, met, unloaded>>

\* The tray and the file follow; a rollback does not come back to the hotkeys.
EndKeyPatch ==
    /\ update.at = "recorded" /\ update' = IdleKeys
    /\ \/ keySettings' = stagedKeys /\ unloaded' = FALSE /\ UNCHANGED <<stagedKeys, keyFailures>>
       \/ KeyFails /\ unloaded' = TRUE /\ stagedKeys' = keySettings /\ UNCHANGED keySettings
    /\ UNCHANGED <<recorded, bound, focused, handler, events, keyPatches, met, lost>>

HotkeysNext ==
    \/ \E t \in HotkeyTasks :
        Event(t) \/ Gained(t) \/ Lost(t) \/ Reset(t) \/ init(t) \/ BindNext(t) \/ RecordKeys(t)
    \/ StageKeys \/ BindNew \/ GiveUpKeys \/ RecordNew \/ EndKeyPatch

-----------------------------------------------------------------------------
(* Properties *)

HotkeysTypeOK ==
    /\ keySettings \in [global : BOOLEAN, hotkeys : Lists] /\ stagedKeys \in [global : BOOLEAN, hotkeys : Lists]
    /\ recorded \in Lists \cup {NoKeys} /\ DOMAIN bound = Keys \cup {System} /\ lost \subseteq Keys
    /\ \A t \in HotkeyTasks : handler[t].at \in {"idle", "gained", "lost", "reset", "init", "bind"}

KeysQuiet == BusyHandlers = {} /\ update.at = "idle" /\ ~met

(* At rest the system holds the keys of the record: all the time when they are
   global, else while the window has the focus, and no key besides.  What a focus
   and a patch that met leave behind is gone with the next loss of the focus. *)
HeldAsRecorded ==
    KeysQuiet => \A k \in Keys \ lost :
        bound[k] = IF keySettings.global \/ focused THEN recorded[k] ELSE NoKey

\* On macOS the keys that quit and hide are held only from a focused window.
SystemKeysFollowFocus == KeysQuiet => bound[System] = IF focused THEN System ELSE NoKey

(* The record is the configured list, unless a patch that had been recorded was
   rolled back or nothing has been loaded yet. *)
RecordIsConfigured == KeysQuiet /\ ~unloaded => recorded = keySettings.hotkeys

HotkeysFollow == HotkeysTypeOK /\ HeldAsRecorded /\ SystemKeysFollowFocus /\ RecordIsConfigured

=============================================================================
