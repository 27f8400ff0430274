------------------------------- MODULE Interface -------------------------------
(***************************************************************************)
(* What the user sees of the state of the application, side by side: the   *)
(* window, the latency monitor, the hotkeys and the tray.                  *)
(***************************************************************************)
EXTENDS Lightweight, LatencyMonitor, Hotkeys, Tray

(* Lightweight mode means that there is no window; the latency monitor measures,
   stops and forgets as its settings say; the registered hotkeys and the tray are
   those of the settings, of the focus and of the state. *)
InterfaceFollows ==
    WindowFollowsMode /\ MonitorFollowsSettings /\ HotkeysFollow /\ TrayFollows

=============================================================================
