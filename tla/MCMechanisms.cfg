CONSTANTS
    r1 = r1
    r2 = r2
    r3 = r3
    k1 = k1
    k2 = k2
    F = F
    G = G
    Upgrades = {r1, r2}
    Platforms = {"unix", "windows"}
    MaxRelease = 2
    MaxUpgradeFailures = 3
    MaxAccidents = 1
    Installs = {1, 2}
    MaxVersion = 2
    Sources = 2
    MaxCancels = 2
    Launches = {a, b}
    Data = {x, y}
    Systems = {"unix", "windows"}
    MaxLaunchFailures = 2
    MaxKills = 1
    Triggers = {"merge"}
    MinInterval = 1
    Period = 1
    MaxKept = 1
    MaxTime = 2
    MaxPatches = 1
    MaxByHand = 1
    Restores = {r1, r2}
    MaxWrites = 2
    MaxSaves = 1
    MaxRestoreFailures = 1
    Users = {"one", "two"}
    Timers = {t1, t2}
    MaxOps = 3
    MaxWindowFailures = 1
    Profiles = {p, q}
    MaxMonitorChanges = 2
    MaxMonitorFailures = 1
    Keys = {k1, k2}
    Lists <- HotkeyLists
    Handlers = {t1, t2}
    MaxEvents = 2
    MaxKeyPatches = 1
    MaxKeyFailures = 1
    Callers = {r1, r2, r3}
    MaxTrayEvents = 3
SPECIFICATION Spec
\* What does not change in a part is left out of its fingerprints.
VIEW View
SYMMETRY Symmetry
INVARIANTS
    UpgradesKeepWorking
    StartsAreSafe
    
    
\* Every part may come to rest.
CHECK_DEADLOCK FALSE
