----------------------------- MODULE AutoBackup -----------------------------
(***************************************************************************)
(* Automatic backups (core/auto_backup.rs) beside the ones the user makes: *)
(* a scheduler that sleeps and watches a channel for new settings, triggers*)
(* from edited global profiles, one lock, and the cleanup of old archives. *)
(*                                                                         *)
(* Time is counted in units of which two backups must be MinInterval apart;*)
(* an archive is packed in a temporary file that is named by the unit.     *)
(***************************************************************************)
EXTENDS Integers, FiniteSets, FiniteSetsExt

CONSTANTS
    Triggers,      \* edits of the global merge or script
    MinInterval,   \* MIN_BACKUP_INTERVAL_SECS
    Period,        \* the schedule's interval
    MaxKept,          \* AUTO_BACKUP_KEEP
    MaxTime,       \* bound: the clock
    MaxPatches,    \* bound: patches of the settings
    MaxByHand      \* bound: backups the user makes

Runner == "runner"
User   == "user"
Makers == Triggers \cup {Runner, User}
Settings == [schedule : BOOLEAN, change : BOOLEAN]
Never  == -MinInterval

VARIABLES
    now,
    verge,        \* the settings as committed
    settings,     \* the manager's copy
    sent,         \* how often the channel was sent to; its value is `settings`
    refreshing,   \* what refresh_settings has loaded: a set of at most one element
    runner,       \* the scheduler: [started, current, seen, wake]
    maker,         \* what each maker of backups is at
    began,        \* the unit in which it began to pack
    exec_lock,
    last_backup,
    archives,     \* the directory: [auto, at, whole]
    made,         \* history: the automatic backups made, [from, at]
    patches, byHand

autoBackupVars == <<now, verge, settings, sent, refreshing, runner, maker, began, exec_lock,
                    last_backup, archives, made, patches, byHand>>

AutoBackupInit ==
    /\ now = 0
    /\ verge \in Settings /\ settings = verge /\ sent = 1 /\ refreshing = {}
    /\ runner = [started |-> verge.schedule, current |-> verge, seen |-> 1, wake |-> Period]
    /\ maker = [m \in Makers |-> IF m = Runner THEN "sleep" ELSE "idle"]
    /\ began = [m \in Makers |-> 0]
    /\ exec_lock = User      \* nobody: the user's backups take no lock
    /\ last_backup = Never
    /\ archives = {} /\ made = {}
    /\ patches = 0 /\ byHand = 0

MovesOn(m, s) == maker' = [maker EXCEPT ![m] = s]
Done(m) == MovesOn(m, IF m = Runner THEN "sleep" ELSE "idle")

-----------------------------------------------------------------------------
(* Settings *)

\* A verge patch commits and refreshes, under the configuration's write lock.
Patch ==
    /\ patches < MaxPatches /\ refreshing = {}
    /\ patches' = patches + 1
    /\ verge' \in Settings /\ refreshing' = {verge'}
    /\ UNCHANGED <<now, settings, sent, runner, maker, began, exec_lock, last_backup, archives, made, byHand>>

\* mutant: the scheduler starts from the defaults
FromDefaults == [started |-> TRUE, current |-> [schedule |-> FALSE, change |-> TRUE], seen |-> sent', wake |-> now + Period]

\* ensure_runner subscribes after the send.
Subscribed == [started |-> TRUE, current |-> settings', seen |-> sent', wake |-> now + Period]

RefreshSettings ==
    /\ refreshing # {}
    /\ settings' \in refreshing /\ refreshing' = {}
    /\ sent' = sent + 1
    /\ runner' = IF settings'.schedule /\ ~runner.started THEN Subscribed ELSE runner
    /\ UNCHANGED <<now, verge, maker, began, exec_lock, last_backup, archives, made, patches, byHand>>

-----------------------------------------------------------------------------
(* run_scheduler *)

\* rx.changed(), asleep or not; any send restarts the sleep.
Changed ==
    /\ runner.started /\ maker[Runner] = "sleep" /\ runner.seen # sent
    /\ runner' = [runner EXCEPT !.current = settings, !.seen = sent, !.wake = now + Period]
    /\ UNCHANGED <<now, verge, settings, sent, refreshing, maker, began, exec_lock, last_backup, archives, made,
                   patches, byHand>>

Sleeping == runner.started /\ maker[Runner] = "sleep" /\ runner.current.schedule

Wake ==
    /\ Sleeping /\ now >= runner.wake
    /\ MovesOn(Runner, "asked")
    /\ runner' = [runner EXCEPT !.wake = now + Period]
    /\ UNCHANGED <<now, verge, settings, sent, refreshing, began, exec_lock, last_backup, archives, made,
                   patches, byHand>>

\* save_profile_file has saved the global merge or script.
Trigger(t) ==
    /\ maker[t] = "idle" /\ MovesOn(t, "asked")
    /\ UNCHANGED <<now, verge, settings, sent, refreshing, runner, began, exec_lock, last_backup, archives, made,
                   patches, byHand>>

-----------------------------------------------------------------------------
(* execute_trigger *)

should_run_now == now - last_backup >= MinInterval

Enabled(m) == IF m = Runner THEN settings.schedule ELSE settings.change

AskBackup(m) ==
    /\ maker[m] = "asked"
    /\ IF Enabled(m) /\ should_run_now THEN MovesOn(m, "wait") ELSE Done(m)
    /\ UNCHANGED <<now, verge, settings, sent, refreshing, runner, began, exec_lock, last_backup, archives, made,
                   patches, byHand>>

\* mutant: what was seen before the lock is not looked at again
AskOnce == TRUE

StillDue == should_run_now

Lock(m) ==
    /\ maker[m] = "wait" /\ exec_lock = User
    /\ IF StillDue THEN MovesOn(m, "create") /\ exec_lock' = m ELSE Done(m) /\ UNCHANGED exec_lock
    /\ UNCHANGED <<now, verge, settings, sent, refreshing, runner, began, last_backup, archives, made,
                   patches, byHand>>

\* create_backup opens the temporary file of this unit, over another's.
Create(m) ==
    /\ maker[m] = "create"
    /\ MovesOn(m, "pack") /\ began' = [began EXCEPT ![m] = now]
    /\ UNCHANGED <<now, verge, settings, sent, refreshing, runner, exec_lock, last_backup, archives, made,
                   patches, byHand>>

Unlocks(m) == exec_lock' = IF exec_lock = m THEN User ELSE exec_lock

Shared(m) == \E o \in Makers \ {m} : maker[o] \in {"pack", "torn"} /\ began[o] = began[m]

(* The archive is moved into the directory, or packing it failed.  A file two
   makers have written is whole for neither, and gone for the second. *)
Pack(m) ==
    /\ maker[m] \in {"pack", "torn"}
    /\ \/ /\ maker' = [o \in Makers |-> IF o = m THEN (IF m = User THEN "idle" ELSE "clean")
                                        ELSE IF maker[o] = "pack" /\ began[o] = began[m] THEN "torn" ELSE maker[o]]
          /\ maker[m] = "pack" \/ Shared(m)
          /\ archives' = archives \cup {[auto |-> m # User, at |-> now,
                                         whole |-> maker[m] = "pack" /\ ~Shared(m)]}
          /\ IF m = User THEN UNCHANGED <<last_backup, made>>
             ELSE last_backup' = now /\ made' = made \cup {[from |-> began[m], at |-> now]}
          /\ UNCHANGED exec_lock
       \/ Done(m) /\ Unlocks(m) /\ UNCHANGED <<archives, last_backup, made>>
    /\ UNCHANGED <<now, verge, settings, sent, refreshing, runner, began, patches, byHand>>

Autos(dir) == {a \in dir : a.auto}

\* mutant: the newest go
Newest(files) == CHOOSE s \in kSubset(Cardinality(files) - MaxKept, files) :
                     \A a \in s, b \in files \ s : a.at >= b.at

Oldest(files) == CHOOSE s \in kSubset(Cardinality(files) - MaxKept, files) :
                     \A a \in s, b \in files \ s : a.at =< b.at

(* cleanup_auto_backups; what it cannot remove, which is left out here, it leaves
   to the next cleanup. *)
Cleanup(m) ==
    /\ maker[m] = "clean"
    /\ archives' = IF Cardinality(Autos(archives)) =< MaxKept THEN archives
                   ELSE archives \ Oldest(Autos(archives))
    /\ Done(m) /\ Unlocks(m)
    /\ UNCHANGED <<now, verge, settings, sent, refreshing, runner, began, last_backup, made, patches, byHand>>

ByHand ==
    /\ byHand < MaxByHand /\ byHand' = byHand + 1
    /\ maker[User] = "idle" /\ MovesOn(User, "create")
    /\ UNCHANGED <<now, verge, settings, sent, refreshing, runner, began, exec_lock, last_backup, archives, made, patches>>

\* A timer that is due fires before the clock goes on.
Tick ==
    /\ now < MaxTime /\ ~(Sleeping /\ now >= runner.wake)
    /\ now' = now + 1
    /\ UNCHANGED <<verge, settings, sent, refreshing, runner, maker, began, exec_lock, last_backup, archives, made,
                   patches, byHand>>

AutoBackupNext ==
    \/ Patch \/ RefreshSettings \/ Changed \/ Wake \/ ByHand \/ Tick
    \/ \E t \in Triggers : Trigger(t)
    \/ \E m \in Makers : AskBackup(m) \/ Lock(m) \/ Create(m) \/ Pack(m) \/ Cleanup(m)

-----------------------------------------------------------------------------
(* Properties *)

AutoBackupTypeOK ==
    /\ verge \in Settings /\ settings \in Settings /\ refreshing \subseteq Settings
    /\ maker \in [Makers -> {"sleep", "idle", "asked", "wait", "create", "pack", "torn", "clean"}]
    /\ exec_lock \in Makers /\ runner.seen =< sent

\* Two automatic backups are MinInterval apart, however many triggers wait.
BackupsAreSpaced == \A a, b \in made : a = b \/ a.at + MinInterval =< b.from \/ b.at + MinInterval =< a.from

(* The archives that stay are the newest; no more than MaxKept of them outlive a
   cleanup. *)
NewestAreKept ==
    exec_lock = User =>
        LET kept == Autos(archives) IN
        /\ Cardinality(kept) = (IF Cardinality(made) < MaxKept THEN Cardinality(made) ELSE MaxKept)
        /\ \A a \in kept, m \in made : (\A k \in kept : k.at # m.at) => m.at < a.at

(* The scheduler works with the settings in force, or a notice is on its way to
   it: none is lost between a send and a subscription. *)
SchedulerHears ==
    /\ runner.started /\ runner.current # settings => runner.seen # sent
    /\ settings.schedule => runner.started
    /\ refreshing = {} => settings = verge

\* An archive is whole unless another was packed in the same unit.
ArchivesAreWhole ==
    \A a \in archives : a.whole \/ byHand > 0

AutoBackupsAreKept ==
    AutoBackupTypeOK /\ BackupsAreSpaced /\ NewestAreKept /\ SchedulerHears /\ ArchivesAreWhole

=============================================================================
