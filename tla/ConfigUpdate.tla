---------------------------- MODULE ConfigUpdate ----------------------------
(***************************************************************************)
(* How a generated configuration reaches the core                          *)
(* (src-tauri/src/core/manager/config.rs), and the commands that ask for   *)
(* it: switching to another profile and deleting one (cmd/profile.rs),     *)
(* saving a profile's file (cmd/save_profile.rs), generating anew          *)
(* (enhance_profiles), and restarting the core.                            *)
(*                                                                         *)
(* One flag lets one update run at a time and refuses the others.  An      *)
(* update stages a configuration in the draft of the runtime layer, has it *)
(* validated, writes the run file and makes the core take it: by a reload, *)
(* or else by replacing the core.  PROFILE_WRITE_LOCK keeps switches and   *)
(* deletions apart, and nobody else from the update.                       *)
(*                                                                         *)
(* A configuration is the profile it was generated from and the text that  *)
(* profile's file had, named after the caller who saved it.  The core is   *)
(* what it runs; how it is stopped and started is CoreLifecycle's.  The    *)
(* debounce of unforced updates, leaving the app, the file that keeps the  *)
(* profiles and the other settings a configuration is made of are left     *)
(* out.                                                                    *)
(***************************************************************************)
EXTENDS Naturals

CONSTANTS
    Profiles,
    Callers,   \* tasks, each of which runs one command
    Requests,  \* bound: the commands they run
    None       \* no profile, no configuration, nobody, the text nobody saved

Commands == {"switch", "delete", "save", "enhance", "restart"}
Texts    == Callers \cup {None}
Configs  == [from : Profiles \cup {None}, text : Texts]

ASSUME ConfigUpdateAssumption ==
    /\ Requests \subseteq Commands
    /\ None \notin Profiles \cup Callers \cup Configs

Outcomes == {"none", "valid", "invalid", "error", "busy"}

VARIABLES
    items, current, \* the committed profiles and the one in use
    draft,          \* the one a draft of the profiles layer has in use, or None
    content,        \* the text of each profile's file
    runtime, staged,\* the runtime layer: committed and draft
    file,           \* the run file
    core,           \* the configuration the core runs, None when it is stopped
    updating,       \* who holds config_update_in_progress
    writer,         \* who holds PROFILE_WRITE_LOCK
    switching,      \* CURRENT_SWITCHING_PROFILE
    job,            \* what each caller does
    accepted,       \* history: the configurations the validator let through
    unheard         \* history: the core took a configuration and its reply was lost

profiles == <<items, current, draft>>
layers   == <<runtime, staged>>
locks    == <<updating, writer, switching>>
vars == <<profiles, content, layers, file, core, locks, job, accepted, unheard>>

Places == {"idle", "done", "lock", "update", "generate", "validate", "write", "apply",
           "stop", "start", "proxy", "settle", "discard", "answer",
           "publish", "record", "read", "overwrite", "check", "putback"}

Jobs == [cmd : Commands, target : Profiles \cup {None}, pc : Places,
         src : Profiles \cup {None},  \* whose configuration the update generates
         before : Texts,              \* the text a save found
         yaml : Configs \cup {None},  \* the serialised configuration
         fresh : BOOLEAN,             \* the core became ready anew during the update
         undo : BOOLEAN,              \* the update restores what was
         said : Outcomes]             \* how it ended

Idle == [cmd |-> "enhance", target |-> None, pc |-> "idle", src |-> None, before |-> None,
         yaml |-> None, fresh |-> FALSE, undo |-> FALSE, said |-> "none"]

Config(p) == [from |-> p, text |-> IF p = None THEN None ELSE content[p]]

Init ==
    /\ items = Profiles /\ current \in Profiles /\ draft = None
    /\ content = [p \in Profiles |-> None]
    /\ runtime = Config(current) /\ staged = None
    /\ file = runtime /\ core \in {None, runtime}
    /\ updating = None /\ writer = None /\ switching = FALSE
    /\ job = [c \in Callers |-> Idle]
    /\ accepted = {runtime} /\ unheard = FALSE

Latest        == IF draft = None THEN current ELSE draft

\* mutant: the file is made from the draft also when there is none
StagedRuntime == staged

LatestRuntime == IF staged = None THEN runtime ELSE staged

At(c, pc)       == job[c].pc = pc
Goto(c, pc)     == job' = [job EXCEPT ![c].pc = pc]
Says(c, pc, o)  == job' = [job EXCEPT ![c].pc = pc, ![c].said = o]
Finish(c)       == job' = [job EXCEPT ![c] = [Idle EXCEPT !.pc = "done"]]

-----------------------------------------------------------------------------
(* The update: from the flag to the answer *)

\* mutant: the flag is set whether or not it was
TakeFlagAnyway(c) ==
    /\ At(c, "update")
    /\ updating' = c
    /\ job' = [job EXCEPT ![c].pc = IF job[c].cmd = "restart" THEN "stop" ELSE "generate",
                          ![c].src = IF job[c].cmd = "delete" THEN @ ELSE Latest]
    /\ UNCHANGED <<profiles, content, layers, file, core, writer, switching, accepted, unheard>>

(* try_start_config_update.  A deletion brings the profiles to generate from,
   the others take the latest ones, drafts included. *)
TakeFlag(c) ==
    /\ At(c, "update") /\ updating = None
    /\ updating' = c
    /\ job' = [job EXCEPT ![c].pc = IF job[c].cmd = "restart" THEN "stop" ELSE "generate",
                          ![c].src = IF job[c].cmd = "delete" THEN @ ELSE Latest]
    /\ UNCHANGED <<profiles, content, layers, file, core, writer, switching, accepted, unheard>>

Busy(c) ==
    /\ At(c, "update") /\ updating # None
    /\ Says(c, "answer", "busy")
    /\ UNCHANGED <<profiles, content, layers, file, core, locks, accepted, unheard>>

Generate(c) ==
    /\ At(c, "generate")
    /\ \/ staged' = Config(job[c].src) /\ Goto(c, "validate")
       \/ UNCHANGED staged /\ Says(c, "discard", "invalid")
    /\ UNCHANGED <<profiles, content, runtime, file, core, locks, accepted, unheard>>

Validate(c) ==
    /\ At(c, "validate")
    /\ \/ /\ accepted' = accepted \cup {LatestRuntime}
          /\ job' = [job EXCEPT ![c].pc = "write", ![c].yaml = LatestRuntime]
       \/ UNCHANGED accepted /\ \E o \in {"invalid", "error"} : Says(c, "discard", o)
    /\ UNCHANGED <<profiles, content, layers, file, core, locks, unheard>>

WriteRunFile(c) ==
    /\ At(c, "write")
    /\ \/ file' = job[c].yaml /\ Goto(c, "apply")
       \/ UNCHANGED file /\ Says(c, "settle", "error")
    /\ UNCHANGED <<profiles, content, layers, core, locks, accepted, unheard>>

(* apply_config: a reload.  The Service may refuse the bundle or be gone; a core
   that did not answer may have taken the file all the same. *)
Reload(c) ==
    /\ At(c, "apply")
    /\ \/ core # None /\ core' = file /\ unheard' = FALSE /\ Says(c, "settle", "valid")
       \/ UNCHANGED <<core, unheard>> /\ Says(c, "settle", "error")
       \/ UNCHANGED <<core, unheard>> /\ Goto(c, "stop")
       \/ core # None /\ core' = file /\ unheard' = TRUE /\ Goto(c, "stop")
    /\ UNCHANGED <<profiles, content, layers, file, locks, accepted>>

(* A stop that fails leaves the core running, or not known to be. *)
StopCore(c) ==
    /\ At(c, "stop")
    /\ \/ core' = None /\ unheard' = FALSE /\ Goto(c, "start")
       \/ core' = None /\ unheard' = FALSE /\ Says(c, "settle", "error")
       \/ UNCHANGED <<core, unheard>> /\ Says(c, "settle", "error")
    /\ UNCHANGED <<profiles, content, layers, file, locks, accepted>>

(* A restart writes the run file from the latest runtime; the Service's core is
   replaced from the run file as it is. *)
StartCore(c) ==
    /\ At(c, "start")
    /\ file' \in {LatestRuntime, file}
    /\ \/ /\ job[c].yaml = None => file' = LatestRuntime
          /\ core' = file' /\ job' = [job EXCEPT ![c].pc = "proxy", ![c].fresh = TRUE]
       \/ UNCHANGED core /\ Says(c, "settle", "error")
    /\ UNCHANGED <<profiles, content, layers, locks, accepted, unheard>>

ApplyProxy(c) ==
    /\ At(c, "proxy")
    /\ \E o \in {"valid", "error"} : Says(c, "settle", o)
    /\ UNCHANGED <<profiles, content, layers, file, core, locks, accepted, unheard>>

\* mutant: a failed apply always drops what was staged
KeepOnlyIfValid(c) == job[c].said = "valid"

(* retain_applied_runtime: also when the core became ready anew but something
   after that failed. *)
Keep(c) == job[c].said = "valid" \/ (job[c].fresh /\ core # None)

\* mutant: a deletion drops the flag with its update
DropsFlag(c) == FALSE

(* Whether the flag is kept beyond the update: a deletion's is its own to drop. *)
KeepsFlag(c) == job[c].cmd = "delete"
Unflagged(c) == updating' = IF KeepsFlag(c) THEN updating ELSE None

Settle(c) ==
    /\ At(c, "settle")
    /\ staged' = None
    /\ runtime' = IF staged # None /\ Keep(c) THEN staged ELSE runtime
    /\ Unflagged(c) /\ Goto(c, "answer")
    /\ UNCHANGED <<profiles, content, file, core, writer, switching, accepted, unheard>>

(* Nothing was written: the transaction drops what was staged. *)
DiscardStaged(c) ==
    /\ At(c, "discard")
    /\ staged' = None
    /\ Unflagged(c) /\ Goto(c, "answer")
    /\ UNCHANGED <<profiles, content, runtime, file, core, writer, switching, accepted, unheard>>

UpdateStep(c) ==
    \/ TakeFlag(c) \/ Busy(c) \/ Generate(c) \/ Validate(c) \/ WriteRunFile(c)
    \/ Reload(c) \/ StopCore(c) \/ StartCore(c) \/ ApplyProxy(c) \/ Settle(c) \/ DiscardStaged(c)

-----------------------------------------------------------------------------
(* Generating anew and restarting only report how it went. *)

Ask(c) ==
    /\ At(c, "idle")
    /\ \E cmd \in Requests \cap {"enhance", "restart"} :
         job' = [job EXCEPT ![c].cmd = cmd, ![c].pc = "update"]
    /\ UNCHANGED <<profiles, content, layers, file, core, locks, accepted, unheard>>

Report(c) ==
    /\ At(c, "answer") /\ job[c].cmd \in {"enhance", "restart"}
    /\ Finish(c)
    /\ UNCHANGED <<profiles, content, layers, file, core, locks, accepted, unheard>>

-----------------------------------------------------------------------------
(* patch_profiles_config *)

AskSwitch(c) ==
    /\ At(c, "idle") /\ "switch" \in Requests
    /\ \E p \in items :
         IF switching THEN Finish(c) /\ UNCHANGED switching
         ELSE /\ switching' = TRUE
              /\ job' = [job EXCEPT ![c].cmd = "switch", ![c].target = p, ![c].pc = "lock"]
    /\ UNCHANGED <<profiles, content, layers, file, core, updating, writer, accepted, unheard>>

(* A profile that was deleted meanwhile is not chosen. *)
Chosen(c) == IF job[c].target \in items THEN job[c].target ELSE current

StageSwitch(c) ==
    /\ At(c, "lock") /\ job[c].cmd = "switch" /\ writer = None
    /\ writer' = c /\ draft' = Chosen(c)
    /\ Goto(c, "update")
    /\ UNCHANGED <<items, current, content, layers, file, core, updating, switching, accepted, unheard>>

(* commit_current_profile drops the draft, then commits the choice. *)
DropDraft(c) ==
    /\ At(c, "answer") /\ job[c].cmd = "switch" /\ job[c].said = "valid"
    /\ draft' = None /\ Goto(c, "publish")
    /\ UNCHANGED <<items, current, content, layers, file, core, locks, accepted, unheard>>

CommitSwitch(c) ==
    /\ At(c, "publish") /\ job[c].cmd = "switch"
    /\ current' = Chosen(c)
    /\ writer' = None /\ switching' = FALSE /\ Finish(c)
    /\ UNCHANGED <<items, draft, content, layers, file, core, updating, accepted, unheard>>

\* mutant: the write lock outlives a switch that was refused
RestoreLocked(c) ==
    /\ At(c, "answer") /\ job[c].cmd = "switch" /\ job[c].said # "valid"
    /\ draft' = None /\ switching' = FALSE /\ Finish(c)
    /\ UNCHANGED <<items, current, content, layers, file, core, updating, writer, accepted, unheard>>

(* discard_and_restore: the previous profile is the committed one, which nobody
   else replaces under the lock. *)
RestorePrevious(c) ==
    /\ At(c, "answer") /\ job[c].cmd = "switch" /\ job[c].said # "valid"
    /\ draft' = None
    /\ writer' = None /\ switching' = FALSE /\ Finish(c)
    /\ UNCHANGED <<items, current, content, layers, file, core, updating, accepted, unheard>>

-----------------------------------------------------------------------------
(* delete_profile and update_config_forced_with_profiles *)

AskDelete(c) ==
    /\ At(c, "idle") /\ "delete" \in Requests
    /\ \E p \in items : job' = [job EXCEPT ![c].cmd = "delete", ![c].target = p, ![c].pc = "lock"]
    /\ UNCHANGED <<profiles, content, layers, file, core, locks, accepted, unheard>>

(* plan_delete_item: a profile in use is followed by another one, or by none. *)
Successors(p) == IF items = {p} THEN {None} ELSE items \ {p}
DeletesCurrent(c) == current \in {None, job[c].target}

PlanDelete(c) ==
    /\ At(c, "lock") /\ job[c].cmd = "delete" /\ writer = None
    /\ IF job[c].target \notin items THEN Finish(c) /\ UNCHANGED writer
       ELSE /\ writer' = c
            /\ IF DeletesCurrent(c)
               THEN \E n \in Successors(job[c].target) :
                      job' = [job EXCEPT ![c].src = n, ![c].pc = "update"]
               ELSE job' = [job EXCEPT ![c].src = current, ![c].pc = "record"]
    /\ UNCHANGED <<profiles, content, layers, file, core, updating, switching, accepted, unheard>>

(* Ended without the deletion: the flag and the lock are dropped. *)
Refuse(c) ==
    /\ updating' = IF updating = c THEN None ELSE updating
    /\ writer' = None /\ Finish(c)

(* restore_profile_config *)
Undo(c) == job' = [job EXCEPT ![c].src = current, ![c].undo = TRUE, ![c].pc = "generate",
                              ![c].yaml = None, ![c].fresh = FALSE, ![c].said = "none"]

ContinueDelete(c) ==
    /\ At(c, "answer") /\ job[c].cmd = "delete"
    /\ CASE job[c].said = "valid" /\ ~job[c].undo -> Goto(c, "record") /\ UNCHANGED locks
         [] job[c].said = "error" /\ ~job[c].undo -> Undo(c) /\ UNCHANGED locks
         [] OTHER                                 -> Refuse(c) /\ UNCHANGED switching
    /\ UNCHANGED <<profiles, content, layers, file, core, accepted, unheard>>

(* save_file of the candidate *)
SaveCandidate(c) ==
    /\ At(c, "record")
    /\ \/ Goto(c, "publish") /\ UNCHANGED locks
       \/ updating = c /\ Undo(c) /\ UNCHANGED locks
       \/ updating # c /\ Refuse(c) /\ UNCHANGED switching
    /\ UNCHANGED <<profiles, content, layers, file, core, accepted, unheard>>

CommitDelete(c) ==
    /\ At(c, "publish") /\ job[c].cmd = "delete"
    /\ items' = items \ {job[c].target} /\ current' = job[c].src
    /\ Refuse(c)
    /\ UNCHANGED <<draft, content, layers, file, core, switching, accepted, unheard>>

-----------------------------------------------------------------------------
(* save_profile_file: the file is written first, and put back if the update
   does not come about.  What is not in use needs no update. *)

AskSave(c) ==
    /\ At(c, "idle") /\ "save" \in Requests
    /\ \E p \in items :
         job' = [job EXCEPT ![c].cmd = "save", ![c].target = p, ![c].pc = "read", ![c].src = Latest]
    /\ UNCHANGED <<profiles, content, layers, file, core, locks, accepted, unheard>>

ReadOriginal(c) ==
    /\ At(c, "read")
    /\ job' = [job EXCEPT ![c].pc = "overwrite", ![c].before = content[job[c].target]]
    /\ UNCHANGED <<profiles, content, layers, file, core, locks, accepted, unheard>>

Overwrite(c) ==
    /\ At(c, "overwrite")
    /\ content' = [content EXCEPT ![job[c].target] = c]
    /\ Goto(c, "check")
    /\ UNCHANGED <<profiles, layers, file, core, locks, accepted, unheard>>

CheckSaved(c) ==
    /\ At(c, "check")
    /\ \/ Goto(c, "putback")
       \/ IF job[c].src = job[c].target THEN Goto(c, "update") ELSE Finish(c)
    /\ UNCHANGED <<profiles, content, layers, file, core, locks, accepted, unheard>>

AfterSave(c) ==
    /\ At(c, "answer") /\ job[c].cmd = "save"
    /\ IF job[c].said = "valid" THEN Finish(c) ELSE Goto(c, "putback")
    /\ UNCHANGED <<profiles, content, layers, file, core, locks, accepted, unheard>>

RestoreOriginal(c) ==
    /\ At(c, "putback")
    /\ content' = [content EXCEPT ![job[c].target] = job[c].before]
    /\ Finish(c)
    /\ UNCHANGED <<profiles, layers, file, core, locks, accepted, unheard>>

-----------------------------------------------------------------------------

(* The core ends by itself, or is stopped by a command that leaves the flag
   alone. *)
CoreEnds ==
    /\ core # None /\ core' = None /\ unheard' = FALSE
    /\ UNCHANGED <<profiles, content, layers, file, locks, job, accepted>>

CommandStep(c) ==
    \/ Report(c)
    \/ StageSwitch(c) \/ DropDraft(c) \/ CommitSwitch(c) \/ RestorePrevious(c)
    \/ PlanDelete(c) \/ ContinueDelete(c) \/ SaveCandidate(c) \/ CommitDelete(c)
    \/ ReadOriginal(c) \/ Overwrite(c) \/ CheckSaved(c) \/ AfterSave(c) \/ RestoreOriginal(c)

Next ==
    \/ \E c \in Callers : Ask(c) \/ AskSwitch(c) \/ AskDelete(c) \/ AskSave(c)
    \/ \E c \in Callers : UpdateStep(c) \/ CommandStep(c)
    \/ CoreEnds

Spec == Init /\ [][Next]_vars

(* Every await of a command ends, by an answer or a timeout, and the write lock
   is fair.  Nothing makes a command come or a core end. *)
Fairness == \A c \in Callers : WF_vars(UpdateStep(c) \/ CommandStep(c))

FairSpec == Spec /\ Fairness

-----------------------------------------------------------------------------
(* Properties *)

(* The types of the layers, the locks and the commands. *)
TypeOK ==
    /\ items \subseteq Profiles /\ current \in Profiles \cup {None}
    /\ draft \in Profiles \cup {None}
    /\ content \in [Profiles -> Texts]
    /\ runtime \in Configs /\ staged \in Configs \cup {None}
    /\ file \in Configs /\ core \in Configs \cup {None}
    /\ updating \in Callers \cup {None} /\ writer \in Callers \cup {None}
    /\ switching \in BOOLEAN
    /\ job \in [Callers -> Jobs]
    /\ accepted \subseteq Configs /\ unheard \in BOOLEAN

(* "the core never applies unvalidated bytes" (core/manager/config.rs): what
   the core runs was let through by the validator, also after a failed reload,
   a replacement, a restore or a restart that met somebody's update. *)
OnlyAcceptedRuns == core # None => core \in accepted

(* With no update in progress, the committed runtime is what the core runs,
   whichever step of the updates before failed.  The exception is a core that
   took a configuration, whose reply was lost, and that could not be stopped. *)
RuntimeIsRunning == updating = None /\ core # None /\ ~unheard => core = runtime

(* What runs was accepted, and it is what the runtime layer says. *)
AcceptedRuntimeRuns == TypeOK /\ OnlyAcceptedRuns /\ RuntimeIsRunning

(* A deletion commits without the profile in use only when the core no longer
   runs that one but what follows it, as the runtime layer says. *)
DeletionsMoveTheCore ==
    [][items' # items /\ current' # current
         => core = None \/ (core = runtime /\ runtime.from = current')]_vars

(* Every command comes to its end: no lock and no flag is left behind. *)
EveryCommandReturns == \A c \in Callers : job[c].pc # "idle" ~> job[c].pc = "done"

=============================================================================
