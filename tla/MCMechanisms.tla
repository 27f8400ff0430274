---------------------------- MODULE MCMechanisms ----------------------------
(***************************************************************************)
(* Nine mechanisms that share no state with each other, model-checked one  *)
(* after the other: `part` is chosen at the start and stays, the variables *)
(* of the other parts keep one initial value.                              *)
(***************************************************************************)
EXTENDS Releases, Instance, Backups, Interface, TLC

CONSTANTS r1, r2, r3, k1, k2, F, G   \* model values

VARIABLE part

\* No hotkey, one, and both, with the function of the first one changed.
HotkeyLists ==
    {[k \in {k1, k2} |-> "none"], [k \in {k1, k2} |-> IF k = k1 THEN F ELSE "none"],
     [k \in {k1, k2} |-> IF k = k1 THEN G ELSE F]}

\* Callers are alike: r3 is the one the start of the tray begins with.
Init ==
    /\ part \in {"upgrade", "app", "start", "backup", "restore", "light", "latency", "hotkeys", "tray"}
    /\ UpgradeInit
    /\ part # "upgrade" => platform = "unix" /\ target = 1 /\ coreMode = "Sidecar"
    /\ AppUpdateInit
    /\ part # "app" => cache = NoCache
    /\ InstanceInit
    /\ part # "start" => system = "unix" /\ lockFile = "none"
    /\ AutoBackupInit
    /\ part # "backup" => verge = [schedule |-> FALSE, change |-> FALSE]
    /\ RestoreInit
    /\ LightweightInit
    /\ part # "light" => window = "loading" /\ ~auto
    /\ MonitorInit
    /\ part # "latency" => current = (CHOOSE profile \in Profiles : TRUE) /\ ~enabled /\ ~light
    /\ HotkeysInit
    /\ part # "hotkeys" => keySettings = [global |-> FALSE, hotkeys |-> NoKeys]
    /\ TrayInit
    /\ IF part = "tray" THEN trayChanges = 1 => DrawingAt(r3, "next") ELSE trayChanges = 0

Next ==
    \/ /\ part = "upgrade" /\ UpgradeNext
       /\ UNCHANGED <<part, appUpdateVars, instanceVars, autoBackupVars, restoreVars,
                      lightweightVars, monitorVars, hotkeyVars, trayVars>>
    \/ /\ part = "app" /\ AppUpdateNext
       /\ UNCHANGED <<part, upgradeVars, instanceVars, autoBackupVars, restoreVars,
                      lightweightVars, monitorVars, hotkeyVars, trayVars>>
    \/ /\ part = "start" /\ InstanceNext
       /\ UNCHANGED <<part, upgradeVars, appUpdateVars, autoBackupVars, restoreVars,
                      lightweightVars, monitorVars, hotkeyVars, trayVars>>
    \/ /\ part = "backup" /\ AutoBackupNext
       /\ UNCHANGED <<part, upgradeVars, appUpdateVars, instanceVars, restoreVars,
                      lightweightVars, monitorVars, hotkeyVars, trayVars>>
    \/ /\ part = "restore" /\ RestoreNext
       /\ UNCHANGED <<part, upgradeVars, appUpdateVars, instanceVars, autoBackupVars,
                      lightweightVars, monitorVars, hotkeyVars, trayVars>>
    \/ /\ part = "light" /\ LightweightNext
       /\ UNCHANGED <<part, upgradeVars, appUpdateVars, instanceVars, autoBackupVars,
                      restoreVars, monitorVars, hotkeyVars, trayVars>>
    \/ /\ part = "latency" /\ MonitorNext
       /\ UNCHANGED <<part, upgradeVars, appUpdateVars, instanceVars, autoBackupVars,
                      restoreVars, lightweightVars, hotkeyVars, trayVars>>
    \/ /\ part = "hotkeys" /\ HotkeysNext
       /\ UNCHANGED <<part, upgradeVars, appUpdateVars, instanceVars, autoBackupVars,
                      restoreVars, lightweightVars, monitorVars, trayVars>>
    \/ /\ part = "tray" /\ TrayNext
       /\ UNCHANGED <<part, upgradeVars, appUpdateVars, instanceVars, autoBackupVars,
                      restoreVars, lightweightVars, monitorVars, hotkeyVars>>

\* The variables of the part that runs: the others do not change.
View ==
    <<part, CASE part = "upgrade" -> upgradeVars [] part = "app"     -> appUpdateVars
              [] part = "start"   -> instanceVars [] part = "backup"  -> autoBackupVars
              [] part = "restore" -> restoreVars [] part = "light"   -> lightweightVars
              [] part = "latency" -> monitorVars [] part = "hotkeys" -> hotkeyVars
              [] part = "tray"    -> trayVars>>

\* Calls of one kind are alike; nothing chooses among them.
Symmetry == Permutations({r1, r2})

Spec ==
    Init /\ [][Next]_<<part, upgradeVars, appUpdateVars, instanceVars, autoBackupVars, restoreVars,
                       lightweightVars, monitorVars, hotkeyVars, trayVars>>

=============================================================================
