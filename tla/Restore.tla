------------------------------- MODULE Restore -------------------------------
(***************************************************************************)
(* Backups are made from and restored over the files of a running          *)
(* application (core/backup.rs, feat/backup.rs): the files one by one, then *)
(* the configuration layers that mirror them, beside patches, profile      *)
(* writers and a user who stores new WebDAV credentials.                   *)
(*                                                                         *)
(* What a file holds is the number of the write it comes from, Saved when  *)
(* it comes from the backup.                                               *)
(***************************************************************************)
EXTENDS Integers, FiniteSets

CONSTANTS
    Restores,      \* restore_local_backup and restore_webdav_backup
    MaxWrites,     \* bound: patches and profile writes
    MaxSaves,      \* bound: credentials the user stores
    MaxRestoreFailures    \* bound: operations that fail of themselves

Nobody == "nobody"
Layers == {"clash", "profiles", "verge"}
Saved  == -1
Values == -1 .. MaxWrites + 1
Nothing == -2                         \* no draft
Writers == {"patch_clash", "patch_verge", "delete_profile", "append_item"}
Layer(w) == CASE w = "patch_clash" -> "clash" [] w = "patch_verge" -> "verge" [] OTHER -> "profiles"
Patches  == {"patch_clash", "patch_verge"}

\* The order in which zip.extract finds config.yaml, verge.yaml and profiles.yaml.
Following(file) == IF file = "clash" THEN "verge" ELSE "profiles"

RestorePhases == {"idle", "lock", "extract", "read", "clash", "profiles", "verge", "proxy", "patch", "restored", "failed"}

VARIABLES
    disk,         \* the files
    memory, drafts,\* the layers
    credentials,  \* of the verge layer and file: [memory, disk]
    restore,      \* each restore
    writes,       \* what each writer is at, with what, and over which value
    profile_write, config_write,   \* PROFILE_WRITE_LOCK and the write lock
    client,       \* the WebDAV client: the credentials a client was made with, or Nothing
    asking,       \* get_client: the credentials it has read and not yet put in the map
    written, saves, restoreFailures,
    crossed,      \* history: layers a writer wrote beside a restore
    late          \* history: credentials were stored beside a restore or a client's making

tasks  == <<restore, writes>>
lockWords  == <<profile_write, config_write>>
webdav == <<client, asking>>
counts == <<written, saves, restoreFailures>>
restoreVars == <<disk, memory, drafts, credentials, tasks, lockWords, webdav, counts, crossed, late>>

RestoreJob == [phase : RestorePhases, file : Layers, kept : 0 .. MaxSaves, read : Values \cup {Nothing}, before : Values]

Resting == [phase |-> "idle", value |-> Nothing, base |-> Nothing]

Fresh == [phase |-> "idle", file |-> "clash", kept |-> 0, read |-> Nothing, before |-> 0]

RestoreInit ==
    /\ disk = [l \in Layers |-> 0]
    /\ memory = [l \in Layers |-> 0] /\ drafts = [l \in Layers |-> Nothing]
    /\ credentials = [memory |-> 0, disk |-> 0]
    /\ restore = [r \in Restores |-> Fresh]
    /\ writes = [w \in Writers |-> Resting]
    /\ profile_write = Nobody /\ config_write = Nobody
    /\ client = Nothing /\ asking = Nothing
    /\ written = 0 /\ saves = 0 /\ restoreFailures = 0
    /\ crossed = {} /\ late = FALSE

Stands(r, phase) == restore[r].phase = phase
Continue(r, job) == restore' = [restore EXCEPT ![r] = job]
Proceed(r, phase) == Continue(r, [restore[r] EXCEPT !.phase = phase])
Running(r) == restore[r].phase \notin {"idle", "restored", "failed"}
Works == UNCHANGED restoreFailures
Fails == restoreFailures < MaxRestoreFailures /\ restoreFailures' = restoreFailures + 1
latest(l) == IF drafts[l] = Nothing THEN memory[l] ELSE drafts[l]

\* edit_draft with a whole layer, and apply: what was staged is gone.
Replace(l, value) ==
    /\ memory' = [memory EXCEPT ![l] = value]
    /\ drafts' = [drafts EXCEPT ![l] = Nothing]

Unlock(lock, who) == IF lock = who THEN Nobody ELSE lock

-----------------------------------------------------------------------------
(* restore_local_backup, restore_webdav_backup *)

\* The credentials are taken before the download.
Start(r) ==
    /\ Stands(r, "idle") /\ Works
    /\ Continue(r, [Fresh EXCEPT !.phase = "lock", !.kept = credentials.memory])
    /\ UNCHANGED <<disk, memory, drafts, credentials, writes, lockWords, webdav, written, saves, late>>

\* mutant: the profiles are restored without their writers' lock
NoLock(r) == UNCHANGED profile_write

TakeProfiles(r) == profile_write = Nobody /\ profile_write' = r

TakeLock(r) ==
    /\ Stands(r, "lock") /\ TakeProfiles(r)
    /\ Proceed(r, "extract") /\ Works
    /\ UNCHANGED <<disk, memory, drafts, credentials, writes, config_write, webdav, written, saves, late>>

Fail(r) == Proceed(r, "failed") /\ profile_write' = Unlock(profile_write, r) /\ config_write' = Unlock(config_write, r)

\* zip.extract: file by file, over the application's directory.
Extract(r) ==
    /\ Stands(r, "extract")
    /\ \/ /\ Works /\ UNCHANGED lockWords
          /\ disk' = [disk EXCEPT ![restore[r].file] = Saved]
          /\ Continue(r, IF restore[r].file = "profiles" THEN [restore[r] EXCEPT !.phase = "read"]
                       ELSE [restore[r] EXCEPT !.file = Following(@)])
          \* the archive carries no credentials
          /\ credentials' = [credentials EXCEPT !.disk = IF restore[r].file = "verge" THEN Nothing ELSE @]
       \/ Fails /\ Fail(r) /\ UNCHANGED <<disk, credentials>>
    /\ UNCHANGED <<memory, drafts, writes, webdav, written, saves, late>>

(* finalize_restored_verge_config: "A broken restored verge.yaml is a restore
   failure, not a reason to load defaults." *)
SaveVerge(r) ==
    /\ Stands(r, "read")
    /\ \/ /\ Works /\ UNCHANGED lockWords
          /\ Continue(r, [restore[r] EXCEPT !.phase = "clash", !.before = disk.verge])
          /\ credentials' = [credentials EXCEPT !.disk = restore[r].kept]
       \/ Fails /\ Fail(r) /\ UNCHANGED credentials
    /\ UNCHANGED <<disk, memory, drafts, writes, webdav, written, saves, late>>

\* IClashTemp::new and IProfiles::new read their file, then the layer is replaced.
ReloadLayer(r, l, next) ==
    /\ Stands(r, l) /\ Works
    /\ \/ /\ restore[r].read = Nothing /\ Continue(r, [restore[r] EXCEPT !.read = disk[l]])
          /\ UNCHANGED <<memory, drafts>>
       \/ /\ restore[r].read # Nothing /\ Replace(l, restore[r].read)
          /\ Continue(r, [restore[r] EXCEPT !.read = Nothing, !.phase = next])
    /\ UNCHANGED <<disk, credentials, writes, lockWords, webdav, written, saves, late>>

\* mutant: the layer is replaced while patches go on
NoWriteLock(r) == UNCHANGED config_write

TakeConfig(r) == config_write = Nobody /\ config_write' = r

ReplaceVerge(r) ==
    /\ Stands(r, "verge") /\ Works
    /\ TakeConfig(r)
    /\ Replace("verge", restore[r].before)
    /\ credentials' = [credentials EXCEPT !.memory = restore[r].kept]
    /\ Proceed(r, "proxy")
    /\ UNCHANGED <<disk, writes, profile_write, webdav, written, saves, late>>

\* The system proxy is turned off; not knowing what became of it ends the restore.
TurnProxyOff(r) ==
    /\ Stands(r, "proxy")
    /\ \/ Proceed(r, "patch") /\ config_write' = Unlock(config_write, r) /\ UNCHANGED profile_write /\ Works
       \/ Fails /\ Fail(r)
    /\ UNCHANGED <<disk, memory, drafts, credentials, writes, webdav, written, saves, late>>

(* patch_verge(&restored, true): the effects once more; a failing one takes back
   what it staged, which is nothing. *)
Conclude(r) ==
    /\ Stands(r, "patch") /\ config_write = Nobody /\ Works
    /\ Proceed(r, "restored") /\ profile_write' = Unlock(profile_write, r)
    /\ UNCHANGED <<disk, memory, drafts, credentials, writes, config_write, webdav, written, saves, late>>

RestoreStep(r) ==
    \/ Start(r) \/ TakeLock(r) \/ Extract(r) \/ SaveVerge(r)
    \/ ReloadLayer(r, "clash", "profiles") \/ ReloadLayer(r, "profiles", "verge")
    \/ ReplaceVerge(r) \/ TurnProxyOff(r) \/ Conclude(r)

-----------------------------------------------------------------------------
(* Everybody else, modelled in Patches and DataModify *)

\* with_data_modify holds its permit over the save and the replacement.
Permit == \A w \in Writers \ Patches : writes[w].phase = "idle"

(* A patch stages a draft under the write lock; with_data_modify works on a copy,
   for a delete under PROFILE_WRITE_LOCK, for an import without. *)
Begin(w) ==
    /\ writes[w].phase = "idle" /\ written < MaxWrites
    /\ written' = written + 1
    /\ writes' = [writes EXCEPT ![w] = [phase |-> "edits", value |-> written', base |-> memory[Layer(w)]]]
    /\ IF w \in Patches
       THEN /\ drafts[Layer(w)] = Nothing /\ drafts' = [drafts EXCEPT ![Layer(w)] = written']
            /\ config_write = Nobody /\ config_write' = w /\ UNCHANGED profile_write
       ELSE /\ Permit /\ UNCHANGED <<drafts, config_write>>
            /\ IF w = "delete_profile" THEN profile_write = Nobody /\ profile_write' = w ELSE UNCHANGED profile_write
    /\ UNCHANGED <<disk, memory, credentials, restore, webdav, saves, restoreFailures, late>>

\* The file first.
Save(w) ==
    /\ writes[w].phase = "edits"
    /\ writes' = [writes EXCEPT ![w].phase = "saved"]
    /\ disk' = [disk EXCEPT ![Layer(w)] = IF w \in Patches THEN latest(Layer(w)) ELSE writes[w].value]
    /\ credentials' = IF w = "patch_verge" THEN [credentials EXCEPT !.disk = credentials.memory] ELSE credentials
    /\ UNCHANGED <<memory, drafts, restore, lockWords, webdav, counts, late>>

\* Then the layer, which for the profiles must not have changed.
Commit(w) ==
    /\ writes[w].phase = "saved"
    /\ writes' = [writes EXCEPT ![w] = Resting]
    /\ IF w \in Patches THEN Replace(Layer(w), latest(Layer(w)))
       ELSE /\ memory' = [memory EXCEPT !.profiles = IF @ = writes[w].base THEN writes[w].value ELSE @]
            /\ UNCHANGED drafts
    /\ profile_write' = Unlock(profile_write, w) /\ config_write' = Unlock(config_write, w)
    /\ UNCHANGED <<disk, credentials, restore, webdav, counts, late>>

\* mutant: the clients of the old credentials stay
NoReset == UNCHANGED client

reset == client' = Nothing

(* save_webdav_config: commits and saves without a lock, then drops the client. *)
SaveCredentials ==
    /\ saves < MaxSaves /\ saves' = saves + 1 /\ drafts["verge"] = Nothing
    /\ credentials' = [memory |-> saves', disk |-> saves']
    /\ disk' = [disk EXCEPT !["verge"] = memory["verge"]]
    /\ reset
    /\ late' = (late \/ asking # Nothing \/ \E r \in Restores : Running(r))
    /\ UNCHANGED <<memory, drafts, tasks, lockWords, asking, written, restoreFailures>>

\* get_client reads the committed layer, makes the directory, and keeps the client.
AskClient ==
    /\ asking = Nothing /\ client = Nothing
    /\ asking' = credentials.memory
    /\ UNCHANGED <<disk, memory, drafts, credentials, tasks, lockWords, client, counts, late>>

Answer ==
    /\ asking # Nothing /\ asking' = Nothing
    /\ \/ client' = asking
       \/ client' = Nothing     \* MKCOL failed, or what the client was for
    /\ UNCHANGED <<disk, memory, drafts, credentials, tasks, lockWords, counts, late>>

\* The layers somebody writes beside a restore, without the lock of its writers.
Beside ==
    IF \E r \in Restores : Running(r) /\ ~Stands(r, "lock")
    THEN {Layer(w) : w \in {w \in Writers \ {"delete_profile"} : writes[w].phase # "idle"}}
    ELSE {}

RestoreNext ==
    /\ \/ \E r \in Restores : RestoreStep(r)
       \/ \E w \in Writers : Begin(w) \/ Save(w) \/ Commit(w)
       \/ SaveCredentials \/ AskClient \/ Answer
    /\ crossed' = crossed \cup Beside' \cup (IF saves' # saves /\ \E r \in Restores : Running(r) THEN {"verge"} ELSE {})

-----------------------------------------------------------------------------
(* Properties *)

RestoreTypeOK ==
    /\ disk \in [Layers -> Values] /\ memory \in [Layers -> Values]
    /\ drafts \in [Layers -> Values \cup {Nothing}] /\ restore \in [Restores -> RestoreJob]
    /\ profile_write \in Restores \cup Writers \cup {Nobody}
    /\ config_write \in Restores \cup Writers \cup {Nobody}

AllQuiet == (\A r \in Restores : ~Running(r)) /\ \A w \in Writers : writes[w].phase = "idle"
Failed == \E r \in Restores : Stands(r, "failed")

(* What is in force is what the next start will read, unless it was written
   beside a restore by someone whom PROFILE_WRITE_LOCK does not keep out.  A
   restore that fails half way leaves restored files under the layers it found. *)
LayersFollowFiles == AllQuiet /\ ~Failed => \A l \in Layers \ crossed : memory[l] = disk[l]

\* "so a concurrent patch cannot stage a draft the proxy write reads"
ProxyReadsRestored ==
    \A r \in Restores : Stands(r, "proxy") => drafts["verge"] = Nothing /\ memory["verge"] = restore[r].before

\* "preserving WebDAV credentials", unless newer ones are stored meanwhile.
CredentialsAreKept ==
    AllQuiet /\ ~Failed /\ ~late => credentials.memory = saves /\ credentials.disk = saves

\* No client works with credentials that have been replaced.
ClientIsCurrent == ~late /\ client # Nothing => client = credentials.memory

RestoresAgree ==
    RestoreTypeOK /\ LayersFollowFiles  /\ ProxyReadsRestored /\ CredentialsAreKept
        /\ ClientIsCurrent

=============================================================================
