------------------------- MODULE ConfigUpdateProofs -------------------------
(***************************************************************************)
(* Theorems about what writes the configuration: ConfigUpdate, for every   *)
(* set of profiles, of callers and of requests; Restore, for every number  *)
(* of restores and of writes beside them; AutoBackup, for every set of     *)
(* edits, every interval and every number of archives that are kept.       *)
(***************************************************************************)
EXTENDS ConfigUpdate, Backups, FiniteSetTheorems, TLAPS

-----------------------------------------------------------------------------
(* Types *)

\* A save reads the file of a profile, an update writes a configuration.
HasItsInput(c) ==
    /\ At(c, "read") => job[c].target \in Profiles
    /\ At(c, "write") => job[c].yaml \in Configs

Types == TypeOK /\ \A c \in Callers : HasItsInput(c)

LEMMA ConfigType ==
    ASSUME TypeOK, NEW p \in Profiles \cup {None}
    PROVE  Config(p) \in Configs /\ Config(p).from = p
BY DEF TypeOK, Config, Configs, Texts

LEMMA PlaceNames ==
    /\ "lock" \in Places /\ "update" \in Places /\ "generate" \in Places /\ "write" \in Places
    /\ "stop" \in Places /\ "proxy" \in Places /\ "read" \in Places /\ "overwrite" \in Places
    /\ "record" \in Places /\ "publish" \in Places
    /\ "switch" \in Commands /\ "delete" \in Commands /\ "save" \in Commands
    /\ "none" \in Outcomes
BY DEF Places, Commands, Outcomes

\* A step of a caller.
Step(c) == UpdateStep(c) \/ CommandStep(c) \/ Ask(c) \/ AskSwitch(c) \/ AskDelete(c) \/ AskSave(c)

\* How each way of moving a command on keeps its type.
LEMMA MoveType ==
    ASSUME TypeOK, NEW c \in Callers, NEW pc \in Places, NEW o \in Outcomes
    PROVE  /\ Goto(c, pc) => job' \in [Callers -> Jobs]
           /\ Says(c, pc, o) => job' \in [Callers -> Jobs]
           /\ Finish(c) => job' \in [Callers -> Jobs]
<1>1. job \in [Callers -> Jobs] /\ job[c] \in Jobs
  BY DEF TypeOK
<1>2. [job[c] EXCEPT !.pc = pc] \in Jobs /\ [job[c] EXCEPT !.pc = pc, !.said = o] \in Jobs
  BY <1>1 DEF Jobs
<1>3. [Idle EXCEPT !.pc = "done"] \in Jobs
  BY DEF Idle, Jobs, Places, Outcomes, Commands, Texts
<1>. QED BY <1>1, <1>2, <1>3 DEF Goto, Says, Finish

\* What a caller does next says nothing of what the others do.
LEMMA Others ==
    ASSUME TypeOK, NEW c \in Callers, Step(c)
    PROVE  \A d \in Callers \ {c} : job'[d] = job[d]
BY DEF TypeOK, Step, UpdateStep, CommandStep, Ask, AskSwitch, AskDelete, AskSave,
       TakeFlag, Busy, Generate, Validate, WriteRunFile, Reload, StopCore, StartCore,
       ApplyProxy, Settle, DiscardStaged, Report, StageSwitch, DropDraft, CommitSwitch,
       RestorePrevious, PlanDelete, ContinueDelete, SaveCandidate, CommitDelete,
       ReadOriginal, Overwrite, CheckSaved, AfterSave, RestoreOriginal,
       Goto, Says, Finish, Refuse, Undo

LEMMA InitTypes == Init => Types
<1>. SUFFICES ASSUME Init PROVE Types
  OBVIOUS
<1>1. Idle \in Jobs
  BY DEF Idle, Jobs, Places, Outcomes, Commands, Texts
<1>2. runtime \in Configs
  BY DEF Init, Config, Configs, Texts
<1>. QED BY <1>1, <1>2 DEF Init, Types, TypeOK, HasItsInput, Texts, At, Idle

LEMMA UpdateTypes ==
    ASSUME Types, NEW c \in Callers, UpdateStep(c)
    PROVE  TypeOK'
<1>. USE DEF Types
<1>1. CASE TakeFlag(c)
  <2>1. Latest \in Profiles \cup {None}
    BY DEF TypeOK, Latest
  <2>2. \A pc \in {"stop", "generate"}, p \in Profiles \cup {None} :
          [job[c] EXCEPT !.pc = pc, !.src = p] \in Jobs
    BY PlaceNames DEF TypeOK, Jobs
  <2>3. job[c].src \in Profiles \cup {None}
    BY DEF TypeOK, Jobs
  <2>4. job' \in [Callers -> Jobs]
    BY <1>1, <2>1, <2>2, <2>3 DEF TakeFlag, TypeOK
  <2>. QED BY <1>1, <2>4 DEF TakeFlag, TypeOK, profiles, layers
<1>2. CASE Busy(c)
  BY <1>2, MoveType DEF Busy, TypeOK, Places, Outcomes, profiles, layers, locks
<1>3. CASE Generate(c)
  <2>1. Config(job[c].src) \in Configs
    BY ConfigType DEF TypeOK, Jobs
  <2>. QED BY <1>3, <2>1, MoveType DEF Generate, TypeOK, Places, Outcomes, profiles, locks
<1>4. CASE Validate(c)
  <2>1. LatestRuntime \in Configs
    BY DEF LatestRuntime, TypeOK
  <2>2. [job[c] EXCEPT !.pc = "write", !.yaml = LatestRuntime] \in Jobs
    BY <2>1, PlaceNames DEF TypeOK, Jobs
  <2>3. [job EXCEPT ![c].pc = "write", ![c].yaml = LatestRuntime] \in [Callers -> Jobs]
    BY <2>2 DEF TypeOK
  <2>. QED BY <1>4, <2>1, <2>3, MoveType
     DEF Validate, TypeOK, Places, Outcomes, profiles, layers, locks
<1>5. CASE WriteRunFile(c)
  <2>1. job' \in [Callers -> Jobs]
    BY <1>5, MoveType DEF WriteRunFile, Places, Outcomes
  <2>2. file' \in Configs
    BY <1>5 DEF WriteRunFile, TypeOK, HasItsInput, At
  <2>. QED BY <1>5, <2>1, <2>2 DEF WriteRunFile, TypeOK, profiles, layers, locks
<1>6. CASE Reload(c)
  BY <1>6, MoveType DEF Reload, TypeOK, Places, Outcomes, profiles, layers, locks
<1>7. CASE StopCore(c)
  BY <1>7, MoveType DEF StopCore, TypeOK, Places, Outcomes, profiles, layers, locks
<1>8. CASE StartCore(c)
  <2>1. LatestRuntime \in Configs /\ file' \in Configs
    BY <1>8 DEF StartCore, LatestRuntime, TypeOK
  <2>2. [job[c] EXCEPT !.pc = "proxy", !.fresh = TRUE] \in Jobs
    BY PlaceNames DEF TypeOK, Jobs
  <2>3. [job EXCEPT ![c].pc = "proxy", ![c].fresh = TRUE] \in [Callers -> Jobs]
    BY <2>2 DEF TypeOK
  <2>. QED BY <1>8, <2>1, <2>3, MoveType
     DEF StartCore, TypeOK, Places, Outcomes, profiles, layers, locks
<1>9. CASE ApplyProxy(c)
  BY <1>9, MoveType DEF ApplyProxy, TypeOK, Places, Outcomes, profiles, layers, locks
<1>10. CASE Settle(c) \/ DiscardStaged(c)
  BY <1>10, MoveType DEF Settle, DiscardStaged, Unflagged, TypeOK, Places, Outcomes, profiles
<1>. QED BY <1>1, <1>2, <1>3, <1>4, <1>5, <1>6, <1>7, <1>8, <1>9, <1>10 DEF UpdateStep

LEMMA UndoType ==
    ASSUME TypeOK, NEW c \in Callers, Undo(c)
    PROVE  job' \in [Callers -> Jobs]
<1>1. [job[c] EXCEPT !.src = current, !.undo = TRUE, !.pc = "generate", !.yaml = None,
                      !.fresh = FALSE, !.said = "none"] \in Jobs
  BY PlaceNames DEF TypeOK, Jobs
<1>. QED BY <1>1 DEF TypeOK, Undo

LEMMA CommandTypes ==
    ASSUME Types, NEW c \in Callers, CommandStep(c)
    PROVE  TypeOK'
<1>. USE DEF Types
<1>1. CASE Report(c)
  BY <1>1, MoveType DEF Report, TypeOK, Places, Outcomes, profiles, layers, locks
<1>2. CASE StageSwitch(c)
  BY <1>2, MoveType DEF StageSwitch, Chosen, TypeOK, Places, Outcomes, layers
<1>3. CASE DropDraft(c) \/ CommitSwitch(c) \/ RestorePrevious(c)
  BY <1>3, MoveType
     DEF DropDraft, CommitSwitch, RestorePrevious, Chosen, TypeOK, Places, Outcomes, layers,
         locks
<1>4. CASE PlanDelete(c)
  <2>1. \A n \in Successors(job[c].target) \cup {current} : n \in Profiles \cup {None}
    BY DEF Successors, TypeOK
  <2>2. \A n \in Profiles \cup {None}, pc \in Places :
          [job[c] EXCEPT !.src = n, !.pc = pc] \in Jobs
    BY DEF TypeOK, Jobs
  <2>3. Finish(c) => job' \in [Callers -> Jobs]
    BY MoveType DEF Places, Outcomes
  <2>4. job' \in [Callers -> Jobs]
    <3>1. CASE job[c].target \notin items
      BY <1>4, <3>1, <2>3 DEF PlanDelete
    <3>2. ASSUME NEW n \in Profiles \cup {None}, NEW pc \in {"update", "record"},
                 job' = [job EXCEPT ![c].src = n, ![c].pc = pc]
          PROVE  job' \in [Callers -> Jobs]
      BY <3>2, <2>2, PlaceNames DEF TypeOK
    <3>. QED BY <1>4, <2>1, <3>1, <3>2 DEF PlanDelete
  <2>. QED BY <1>4, <2>4 DEF PlanDelete, TypeOK, profiles, layers
<1>5. CASE ContinueDelete(c) \/ SaveCandidate(c)
  <2>1. job' \in [Callers -> Jobs]
    BY <1>5, MoveType, UndoType, PlaceNames DEF ContinueDelete, SaveCandidate, Refuse
  <2>. QED BY <1>5, <2>1
     DEF ContinueDelete, SaveCandidate, Refuse, TypeOK, profiles, layers, locks
<1>6. CASE CommitDelete(c)
  <2>1. job' \in [Callers -> Jobs] /\ job[c].src \in Profiles \cup {None}
    BY <1>6, MoveType DEF CommitDelete, Refuse, TypeOK, Jobs, Places, Outcomes
  <2>. QED BY <1>6, <2>1 DEF CommitDelete, Refuse, TypeOK, layers
<1>7. CASE ReadOriginal(c)
  <2>1. content[job[c].target] \in Texts
    BY <1>7 DEF ReadOriginal, HasItsInput, TypeOK
  <2>2. [job[c] EXCEPT !.pc = "overwrite", !.before = content[job[c].target]] \in Jobs
    BY <2>1, PlaceNames DEF TypeOK, Jobs
  <2>3. [job EXCEPT ![c].pc = "overwrite", ![c].before = content[job[c].target]] \in [Callers -> Jobs]
    BY <2>2 DEF TypeOK
  <2>. QED BY <1>7, <2>3 DEF ReadOriginal, TypeOK, profiles, layers, locks
<1>8. CASE Overwrite(c) \/ RestoreOriginal(c)
  <2>1. c \in Texts /\ job[c].before \in Texts
    BY DEF Texts, TypeOK, Jobs
  <2>2. content' \in [Profiles -> Texts]
    BY <1>8, <2>1 DEF Overwrite, RestoreOriginal, TypeOK
  <2>. QED BY <1>8, <2>2, MoveType
     DEF Overwrite, RestoreOriginal, TypeOK, Places, Outcomes, profiles, layers, locks
<1>9. CASE CheckSaved(c) \/ AfterSave(c)
  BY <1>9, MoveType DEF CheckSaved, AfterSave, TypeOK, Places, Outcomes, profiles, layers, locks
<1>. QED BY <1>1, <1>2, <1>3, <1>4, <1>5, <1>6, <1>7, <1>8, <1>9 DEF CommandStep

LEMMA AskTypes ==
    ASSUME Types, NEW c \in Callers, Ask(c) \/ AskSwitch(c) \/ AskDelete(c) \/ AskSave(c)
    PROVE  TypeOK'
<1>. USE DEF Types
<1>1. CASE Ask(c)
  <2>1. \A cmd \in Commands : [job[c] EXCEPT !.cmd = cmd, !.pc = "update"] \in Jobs
    BY PlaceNames DEF TypeOK, Jobs
  <2>2. PICK cmd \in Commands : job' = [job EXCEPT ![c].cmd = cmd, ![c].pc = "update"]
    BY <1>1, ConfigUpdateAssumption DEF Ask
  <2>3. job' \in [Callers -> Jobs]
    BY <2>1, <2>2 DEF TypeOK
  <2>. QED BY <1>1, <2>3 DEF Ask, TypeOK, profiles, layers, locks
<1>2. CASE AskSwitch(c)
  <2>1. \A p \in items : [job[c] EXCEPT !.cmd = "switch", !.target = p, !.pc = "lock"] \in Jobs
    BY PlaceNames DEF TypeOK, Jobs
  <2>. QED BY <1>2, <2>1, MoveType DEF AskSwitch, TypeOK, Places, Outcomes, profiles, layers
<1>3. CASE AskDelete(c)
  <2>1. \A p \in items : [job[c] EXCEPT !.cmd = "delete", !.target = p, !.pc = "lock"] \in Jobs
    BY PlaceNames DEF TypeOK, Jobs
  <2>. QED BY <1>3, <2>1 DEF AskDelete, TypeOK, profiles, layers, locks
<1>4. CASE AskSave(c)
  <2>1. Latest \in Profiles \cup {None}
    BY DEF Latest, TypeOK
  <2>2. \A p \in items : [job[c] EXCEPT !.cmd = "save", !.target = p, !.pc = "read", !.src = Latest] \in Jobs
    BY <2>1, PlaceNames DEF TypeOK, Jobs
  <2>3. PICK p \in items :
          job' = [job EXCEPT ![c].cmd = "save", ![c].target = p, ![c].pc = "read", ![c].src = Latest]
    BY <1>4 DEF AskSave
  <2>4. job' \in [Callers -> Jobs]
    BY <2>2, <2>3 DEF TypeOK
  <2>. QED BY <1>4, <2>4 DEF AskSave, TypeOK, profiles, layers, locks
<1>. QED BY <1>1, <1>2, <1>3, <1>4

LEMMA InputsPreserved ==
    ASSUME Types, NEW c \in Callers, Step(c)
    PROVE  \A d \in Callers : HasItsInput(d)'
<1>1. job[c] \in Jobs /\ LatestRuntime \in Configs
  BY DEF Types, TypeOK, LatestRuntime
<1>2. HasItsInput(c)'
  <2>1. CASE UpdateStep(c)
    BY <2>1, <1>1 DEF Types, TypeOK, UpdateStep, TakeFlag, Busy, Generate, Validate,
       WriteRunFile, Reload, StopCore, StartCore, ApplyProxy, Settle, DiscardStaged,
       Goto, Says, Jobs, At, HasItsInput
  <2>2. CASE CommandStep(c)
    <3>. USE <1>1 DEF Types, TypeOK, Jobs, HasItsInput, At
    <3>1. Finish(c) => HasItsInput(c)'
      BY DEF Finish, Idle
    <3>2. \A pc \in Places \ {"read", "write"} : Goto(c, pc) => HasItsInput(c)'
      BY DEF Goto
    <3>3. Undo(c) => HasItsInput(c)'
      BY DEF Undo
    <3>4. "update" \in Places /\ "publish" \in Places /\ "check" \in Places /\ "putback" \in Places /\ "record" \in Places
      BY DEF Places
    <3>5. CASE Report(c) \/ StageSwitch(c) \/ DropDraft(c) \/ CommitSwitch(c) \/ RestorePrevious(c)
      BY <3>5, <3>1, <3>2, <3>4 DEF Report, StageSwitch, DropDraft, CommitSwitch, RestorePrevious
    <3>6. CASE PlanDelete(c)
      <4>1. CASE Finish(c)
        BY <4>1, <3>1
      <4>2. ASSUME NEW n, NEW pc \in {"update", "record"}, job' = [job EXCEPT ![c].src = n, ![c].pc = pc]
            PROVE  HasItsInput(c)'
        BY <4>2
      <4>. QED BY <3>6, <4>1, <4>2 DEF PlanDelete
    <3>7. CASE ContinueDelete(c) \/ SaveCandidate(c) \/ CommitDelete(c)
      BY <3>7, <3>1, <3>2, <3>3, <3>4 DEF ContinueDelete, SaveCandidate, CommitDelete, Refuse
    <3>8. CASE ReadOriginal(c)
      BY <3>8 DEF ReadOriginal
    <3>9. CASE Overwrite(c) \/ CheckSaved(c) \/ AfterSave(c) \/ RestoreOriginal(c)
      BY <3>9, <3>1, <3>2, <3>4 DEF Overwrite, CheckSaved, AfterSave, RestoreOriginal
    <3>. QED BY <2>2, <3>5, <3>6, <3>7, <3>8, <3>9 DEF CommandStep
  <2>3. CASE Ask(c) \/ AskSwitch(c) \/ AskDelete(c) \/ AskSave(c)
    <3>. USE <1>1 DEF Types, TypeOK, Jobs, HasItsInput, At
    <3>1. CASE Ask(c)
      BY <3>1 DEF Ask
    <3>2. CASE AskSwitch(c)
      <4>1. CASE Finish(c)
        BY <4>1 DEF Finish, Idle
      <4>2. CASE \E p \in items : job' = [job EXCEPT ![c].cmd = "switch", ![c].target = p, ![c].pc = "lock"]
        BY <4>2
      <4>. QED BY <3>2, <4>1, <4>2 DEF AskSwitch
    <3>3. CASE AskDelete(c)
      BY <3>3 DEF AskDelete
    <3>4. CASE AskSave(c)
      <4>1. PICK p \in items : job' = [job EXCEPT ![c].cmd = "save", ![c].target = p, ![c].pc = "read", ![c].src = Latest]
        BY <3>4 DEF AskSave
      <4>2. job'[c].pc = "read" /\ job'[c].target = p
        BY <4>1
      <4>. QED BY <4>2
    <3>. QED BY <2>3, <3>1, <3>2, <3>3, <3>4
  <2>. QED BY <2>1, <2>2, <2>3 DEF Step
<1>. QED BY <1>2, Others DEF HasItsInput, Types, At

LEMMA NextTypes == Types /\ [Next]_vars => Types'
<1>. SUFFICES ASSUME Types, [Next]_vars PROVE Types'
  OBVIOUS
<1>1. ASSUME NEW c \in Callers, Step(c)
      PROVE  Types'
  BY <1>1, UpdateTypes, CommandTypes, AskTypes, InputsPreserved DEF Types, Step
<1>2. CASE CoreEnds \/ UNCHANGED vars
  BY <1>2 DEF CoreEnds, Types, TypeOK, HasItsInput, At, vars, profiles, layers, locks
<1>. QED BY <1>1, <1>2 DEF Next, Step

\* The layers, the locks and the commands keep their types.
THEOREM TypeCorrect == Spec => []TypeOK
<1>1. Spec => []Types
  BY InitTypes, NextTypes, PTL DEF Spec
<1>2. Types => TypeOK
  BY DEF Types
<1>. QED BY <1>1, <1>2, PTL

-----------------------------------------------------------------------------
(* What the core runs: the inductive invariant *)

UpdatePlaces == {"generate", "validate", "write", "apply", "stop", "start", "proxy",
                 "settle", "discard"}

\* Nothing was settled for this command yet, or was refused again.
FreshPlaces == {"idle", "lock", "update", "read", "overwrite", "check", "generate",
                "validate", "write", "apply", "stop", "start"}

RunsAs(x) == core # None /\ ~unheard => core = x

Quiet == staged = None /\ RunsAs(runtime)

\* Who is in the middle of an update holds the flag, who is in the middle of a
\* switch or a deletion the write lock.
Holds(c) ==
    /\ job[c].pc \in UpdatePlaces => updating = c
    /\ job[c].cmd = "delete" /\ job[c].pc = "answer" /\ job[c].said # "busy" => updating = c
    /\ job[c].cmd \in {"switch", "delete"} /\ job[c].pc \notin {"idle", "lock", "done"} => writer = c
    /\ job[c].pc = "record" => job[c].cmd = "delete"

\* What the latest runtime is past the validator.
Carries(c) ==
    /\ LatestRuntime \in accepted
    /\ IF job[c].cmd = "restart" THEN staged = None /\ job[c].yaml = None
       ELSE staged # None /\ staged.from = job[c].src /\ job[c].yaml = staged

\* How far the holder of the flag has come with the layers, the file and the core.
Stage(c) ==
    /\ job[c].pc \notin UpdatePlaces \ {"generate"} => Quiet
    /\ job[c].pc \in {"validate", "discard", "write", "apply", "stop"} => RunsAs(runtime)
    /\ job[c].pc \in {"generate", "validate", "write", "apply"} => job[c].cmd # "restart"
    /\ job[c].pc = "discard" => job[c].said # "valid"
    /\ job[c].pc = "validate" => staged # None /\ staged.from = job[c].src
    /\ job[c].pc \in {"write", "apply", "stop", "start", "proxy", "settle"} => Carries(c)
    /\ job[c].pc \in {"apply", "stop", "start"} => job[c].cmd = "restart" \/ file = staged
    /\ job[c].pc = "start" => core = None /\ ~unheard
    /\ job[c].pc = "proxy" => RunsAs(LatestRuntime) /\ ~unheard /\ job[c].fresh
    /\ job[c].pc = "settle" => /\ RunsAs(IF Keep(c) THEN LatestRuntime ELSE runtime)
                               /\ job[c].said = "valid" => ~unheard

\* A deletion that is about to commit.
Follows(c) == runtime.from = job[c].src /\ (core # None => core = runtime)

Deletes(c) ==
    job[c].cmd = "delete" =>
      /\ job[c].pc = "answer" /\ job[c].said = "valid" => Follows(c)
      /\ job[c].pc \in {"record", "publish"} =>
           job[c].src = current \/ (updating = c /\ Follows(c))

Begins(c) ==
    /\ job[c].pc \in FreshPlaces => ~job[c].fresh
    /\ job[c].pc \in {"idle", "lock", "read", "overwrite", "check", "update"} => job[c].yaml = None

Known ==
    /\ runtime \in accepted /\ file \in accepted /\ core \in accepted \cup {None}
    /\ updating = None => Quiet

Proper(c) == Holds(c) /\ Begins(c) /\ Deletes(c) /\ (updating = c => Stage(c))

IInv == Known /\ \A c \in Callers : Proper(c)

-----------------------------------------------------------------------------
(* A step and the callers it is not of *)

Held == <<layers, file, core, unheard>>

\* What is behind the flag changes at the hands of its holder, what is behind
\* the write lock at the hands of the other, and neither lock is taken from anyone.
LEMMA StepFrame ==
    ASSUME Types, IInv, NEW c \in Callers, Step(c)
    PROVE  /\ updating # c => UNCHANGED Held
           /\ updating' # updating => updating \in {None, c} /\ updating' \in {None, c}
           /\ writer \notin {None, c} => UNCHANGED <<writer, current>>
           /\ accepted \subseteq accepted'
<1>1. Holds(c)
  BY DEF IInv, Proper
<1>2. CASE UpdateStep(c)
  <2>. USE <1>1 DEF Holds, UpdatePlaces, At, layers, profiles, locks, Held
  <2>1. CASE TakeFlag(c) \/ Busy(c)
    BY <2>1 DEF TakeFlag, Busy
  <2>2. CASE Generate(c) \/ Validate(c) \/ WriteRunFile(c) \/ Reload(c)
    BY <2>2 DEF Generate, Validate, WriteRunFile, Reload
  <2>3. CASE StopCore(c) \/ StartCore(c) \/ ApplyProxy(c)
    BY <2>3 DEF StopCore, StartCore, ApplyProxy
  <2>4. CASE Settle(c) \/ DiscardStaged(c)
    BY <2>4 DEF Settle, DiscardStaged, Unflagged
  <2>. QED BY <1>2, <2>1, <2>2, <2>3, <2>4 DEF UpdateStep
<1>3. CASE CommandStep(c)
  <2>. USE <1>1 DEF Holds, UpdatePlaces, At, layers, profiles, locks, Held
  <2>1. CASE Report(c) \/ StageSwitch(c) \/ DropDraft(c) \/ CommitSwitch(c) \/ RestorePrevious(c)
    BY <2>1 DEF Report, StageSwitch, DropDraft, CommitSwitch, RestorePrevious
  <2>2. CASE PlanDelete(c)
    BY <2>2 DEF PlanDelete
  <2>3. CASE ContinueDelete(c)
    BY <2>3 DEF ContinueDelete, Refuse
  <2>4. CASE SaveCandidate(c)
    BY <2>4 DEF SaveCandidate, Refuse
  <2>5. CASE CommitDelete(c)
    BY <2>5 DEF CommitDelete, Refuse
  <2>6. CASE ReadOriginal(c) \/ Overwrite(c) \/ CheckSaved(c) \/ AfterSave(c) \/ RestoreOriginal(c)
    BY <2>6 DEF ReadOriginal, Overwrite, CheckSaved, AfterSave, RestoreOriginal
  <2>. QED BY <1>3, <2>1, <2>2, <2>3, <2>4, <2>5, <2>6 DEF CommandStep
<1>4. CASE Ask(c) \/ AskSwitch(c) \/ AskDelete(c) \/ AskSave(c)
  BY <1>4 DEF Ask, AskSwitch, AskDelete, AskSave, layers, profiles, locks, Held
<1>. QED BY <1>2, <1>3, <1>4 DEF Step

LEMMA BystanderKeeps ==
    ASSUME Types, IInv, NEW c \in Callers, NEW d \in Callers \ {c}, Step(c)
    PROVE  Proper(d)'
<1>1. Proper(d) /\ job'[d] = job[d] /\ d # None
  BY Others, ConfigUpdateAssumption DEF IInv, Types
<1>2. /\ updating' = d <=> updating = d
      /\ updating = d => UNCHANGED Held
      /\ writer = d => UNCHANGED <<writer, current>>
      /\ accepted \subseteq accepted'
  BY <1>1, StepFrame
<1>3. Holds(d)'
  BY <1>1, <1>2 DEF Proper, Holds
<1>4. Begins(d)'
  BY <1>1 DEF Proper, Begins
<1>5. Deletes(d)'
  BY <1>1, <1>2 DEF Proper, Deletes, Follows, Holds, Held, layers
<1>6. updating' = d => Stage(d)'
  BY <1>1, <1>2 DEF Proper, Stage, Quiet, RunsAs, Carries, Keep, LatestRuntime, Held, layers
<1>. QED BY <1>3, <1>4, <1>5, <1>6 DEF Proper

-----------------------------------------------------------------------------
(* The steps of the caller *)

LEMMA TakeFlagKeeps ==
    ASSUME Types, IInv, NEW c \in Callers, TakeFlag(c) \/ Busy(c)
    PROVE  Known' /\ Proper(c)'
<1>1. Known /\ Proper(c) /\ job[c] \in Jobs /\ c # None
  BY ConfigUpdateAssumption DEF IInv, Types, TypeOK
<1>2. CASE TakeFlag(c)
  <2>1. /\ job'[c].cmd = job[c].cmd /\ job'[c].yaml = job[c].yaml
        /\ job'[c].fresh = job[c].fresh
        /\ job'[c].pc = IF job[c].cmd = "restart" THEN "stop" ELSE "generate"
    BY <1>1, <1>2 DEF TakeFlag, Types, TypeOK, Jobs
  <2>2. updating = None /\ updating' = c /\ UNCHANGED <<Held, current, accepted, writer>> /\ job[c].pc = "update"
    BY <1>2 DEF TakeFlag, layers, profiles, Held, At
  <2>3. Known'
    BY <1>1, <2>2 DEF Known, Quiet, RunsAs, Held, layers
  <2>4. Holds(c)' /\ Begins(c)' /\ Deletes(c)'
    BY <1>1, <2>1, <2>2 DEF Proper, Holds, Begins, Deletes, UpdatePlaces, FreshPlaces
  <2>5. Stage(c)'
    BY <1>1, <2>1, <2>2
       DEF Proper, Known, Begins, Stage, Carries, Quiet, RunsAs, LatestRuntime, UpdatePlaces,
           Held, layers
  <2>. QED BY <2>3, <2>4, <2>5 DEF Proper
<1>3. CASE Busy(c)
  <2>1. /\ job'[c].cmd = job[c].cmd /\ job'[c].said = "busy"
        /\ job'[c].fresh = job[c].fresh /\ job'[c].pc = "answer"
    BY <1>1, <1>3 DEF Busy, Says, Types, TypeOK, Jobs
  <2>2. UNCHANGED <<Held, current, accepted, writer, updating>> /\ job[c].pc = "update"
    BY <1>3 DEF Busy, layers, profiles, locks, Held, At
  <2>3. Known'
    BY <1>1, <2>2 DEF Known, Quiet, RunsAs, Held, layers
  <2>4. Holds(c)' /\ Begins(c)' /\ Deletes(c)'
    BY <1>1, <2>1, <2>2 DEF Proper, Holds, Begins, Deletes, UpdatePlaces, FreshPlaces
  <2>5. updating' = c => Stage(c)'
    BY <1>1, <2>1, <2>2 DEF Proper, Stage, Quiet, RunsAs, UpdatePlaces, Held, layers
  <2>. QED BY <2>3, <2>4, <2>5 DEF Proper
<1>. QED BY <1>2, <1>3

LEMMA GenerateKeeps ==
    ASSUME Types, IInv, NEW c \in Callers, Generate(c)
    PROVE  Known' /\ Proper(c)'
<1>1. Known /\ Proper(c) /\ job[c] \in Jobs /\ c # None
  BY ConfigUpdateAssumption DEF IInv, Types, TypeOK
<1>2. Config(job[c].src) # None /\ Config(job[c].src).from = job[c].src
  BY <1>1, ConfigType, ConfigUpdateAssumption DEF Types, Jobs
<1>3. /\ job'[c].cmd = job[c].cmd /\ job'[c].src = job[c].src /\ job'[c].fresh = job[c].fresh
      /\ \/ staged' = Config(job[c].src) /\ job'[c].pc = "validate"
         \/ job'[c].pc = "discard" /\ job'[c].said = "invalid"
  BY <1>1 DEF Generate, Goto, Says, Types, TypeOK, Jobs
<1>4. UNCHANGED <<current, runtime, file, core, locks, accepted, unheard>> /\ job[c].pc = "generate"
  BY DEF Generate, profiles, At
<1>5. updating = c /\ updating' = c /\ writer' = writer
  BY <1>1, <1>4 DEF Proper, Holds, UpdatePlaces, locks
<1>6. Known'
  BY <1>1, <1>4, <1>5 DEF Known
<1>7. Holds(c)' /\ Begins(c)' /\ Deletes(c)'
  BY <1>1, <1>3, <1>4, <1>5 DEF Proper, Holds, Begins, Deletes, UpdatePlaces, FreshPlaces
<1>8. Stage(c)'
  BY <1>1, <1>2, <1>3, <1>4, <1>5 DEF Proper, Stage, Quiet, RunsAs, UpdatePlaces
<1>. QED BY <1>6, <1>7, <1>8 DEF Proper

LEMMA ValidateKeeps ==
    ASSUME Types, IInv, NEW c \in Callers, Validate(c)
    PROVE  Known' /\ Proper(c)'
<1>1. Known /\ Proper(c) /\ job[c] \in Jobs /\ c # None
  BY ConfigUpdateAssumption DEF IInv, Types, TypeOK
<1>2. UNCHANGED <<current, Held, locks>> /\ job[c].pc = "validate"
  BY DEF Validate, profiles, Held, At
<1>3. updating = c /\ updating' = c /\ writer' = writer /\ Stage(c)
  BY <1>1, <1>2 DEF Proper, Holds, UpdatePlaces, locks
<1>4. LatestRuntime = staged /\ LatestRuntime' = staged'
  BY <1>2, <1>3 DEF Stage, LatestRuntime, Held, layers
<1>5. /\ job'[c].cmd = job[c].cmd /\ job'[c].src = job[c].src /\ job'[c].fresh = job[c].fresh
      /\ \/ accepted' = accepted \cup {staged} /\ job'[c].pc = "write" /\ job'[c].yaml = staged
         \/ accepted' = accepted /\ job'[c].pc = "discard" /\ job'[c].said # "valid"
  BY <1>1, <1>4 DEF Validate, Says, Types, TypeOK, Jobs
<1>6. Known'
  BY <1>1, <1>2, <1>3, <1>5 DEF Known, Held, layers
<1>7. Holds(c)' /\ Begins(c)' /\ Deletes(c)'
  BY <1>1, <1>2, <1>3, <1>5 DEF Proper, Holds, Begins, Deletes, UpdatePlaces, FreshPlaces
<1>8. Stage(c)'
  BY <1>2, <1>3, <1>4, <1>5 DEF Stage, Carries, RunsAs, UpdatePlaces, Held, layers
<1>. QED BY <1>3, <1>6, <1>7, <1>8 DEF Proper

LEMMA WriteKeeps ==
    ASSUME Types, IInv, NEW c \in Callers, WriteRunFile(c)
    PROVE  Known' /\ Proper(c)'
<1>1. Known /\ Proper(c) /\ job[c] \in Jobs /\ c # None
  BY ConfigUpdateAssumption DEF IInv, Types, TypeOK
<1>2. UNCHANGED <<current, layers, core, unheard, accepted, locks>> /\ job[c].pc = "write"
  BY DEF WriteRunFile, profiles, At
<1>3. updating = c /\ updating' = c /\ writer' = writer /\ Stage(c)
  BY <1>1, <1>2 DEF Proper, Holds, UpdatePlaces, locks
<1>4. /\ job'[c].cmd = job[c].cmd /\ job'[c].src = job[c].src /\ job'[c].fresh = job[c].fresh
      /\ job'[c].yaml = job[c].yaml
      /\ \/ file' = job[c].yaml /\ job'[c].pc = "apply"
         \/ file' = file /\ job'[c].pc = "settle" /\ job'[c].said = "error"
  BY <1>1 DEF WriteRunFile, Goto, Says, Types, TypeOK, Jobs
<1>5. Carries(c) /\ job[c].cmd # "restart" /\ LatestRuntime = staged /\ LatestRuntime' = staged'
  BY <1>2, <1>3 DEF Stage, Carries, LatestRuntime, layers
<1>6. Known'
  BY <1>1, <1>2, <1>3, <1>4, <1>5 DEF Known, Carries, layers
<1>7. Holds(c)' /\ Begins(c)' /\ Deletes(c)'
  BY <1>1, <1>2, <1>3, <1>4 DEF Proper, Holds, Begins, Deletes, UpdatePlaces, FreshPlaces
<1>8. ~job[c].fresh
  BY <1>1, <1>2 DEF Proper, Begins, FreshPlaces
<1>9. Stage(c)'
  BY <1>2, <1>3, <1>4, <1>5, <1>8 DEF Stage, Carries, RunsAs, Keep, UpdatePlaces, layers
<1>. QED BY <1>3, <1>6, <1>7, <1>9 DEF Proper

LEMMA ReloadKeeps ==
    ASSUME Types, IInv, NEW c \in Callers, Reload(c)
    PROVE  Known' /\ Proper(c)'
<1>1. Known /\ Proper(c) /\ job[c] \in Jobs /\ c # None
  BY ConfigUpdateAssumption DEF IInv, Types, TypeOK
<1>2. UNCHANGED <<current, layers, file, accepted, locks>> /\ job[c].pc = "apply"
  BY DEF Reload, profiles, At
<1>3. updating = c /\ updating' = c /\ writer' = writer /\ Stage(c)
  BY <1>1, <1>2 DEF Proper, Holds, UpdatePlaces, locks
<1>4. /\ job'[c].cmd = job[c].cmd /\ job'[c].src = job[c].src /\ job'[c].fresh = job[c].fresh
      /\ job'[c].yaml = job[c].yaml
      /\ \/ /\ core' = file /\ unheard' = FALSE
            /\ job'[c].pc = "settle" /\ job'[c].said = "valid"
         \/ UNCHANGED <<core, unheard>> /\ job'[c].pc = "settle" /\ job'[c].said = "error"
         \/ UNCHANGED <<core, unheard>> /\ job'[c].pc = "stop"
         \/ core' = file /\ unheard' = TRUE /\ job'[c].pc = "stop"
  BY <1>1 DEF Reload, Goto, Says, Types, TypeOK, Jobs
<1>5. Carries(c) /\ job[c].cmd # "restart" /\ LatestRuntime = staged /\ LatestRuntime' = staged'
      /\ file = staged
  BY <1>2, <1>3 DEF Stage, Carries, LatestRuntime, layers
<1>6. Known'
  BY <1>1, <1>2, <1>3, <1>4 DEF Known, layers
<1>7. Holds(c)' /\ Begins(c)' /\ Deletes(c)'
  BY <1>1, <1>2, <1>3, <1>4 DEF Proper, Holds, Begins, Deletes, UpdatePlaces, FreshPlaces
<1>8. ~job[c].fresh
  BY <1>1, <1>2 DEF Proper, Begins, FreshPlaces
<1>9. Stage(c)'
  BY <1>2, <1>3, <1>4, <1>5, <1>8 DEF Stage, Carries, RunsAs, Keep, UpdatePlaces, layers
<1>. QED BY <1>3, <1>6, <1>7, <1>9 DEF Proper

LEMMA StopKeeps ==
    ASSUME Types, IInv, NEW c \in Callers, StopCore(c)
    PROVE  Known' /\ Proper(c)'
<1>1. Known /\ Proper(c) /\ job[c] \in Jobs /\ c # None
  BY ConfigUpdateAssumption DEF IInv, Types, TypeOK
<1>2. UNCHANGED <<current, layers, file, accepted, locks>> /\ job[c].pc = "stop"
  BY DEF StopCore, profiles, At
<1>3. updating = c /\ updating' = c /\ writer' = writer /\ Stage(c)
  BY <1>1, <1>2 DEF Proper, Holds, UpdatePlaces, locks
<1>4. /\ job'[c].cmd = job[c].cmd /\ job'[c].src = job[c].src /\ job'[c].fresh = job[c].fresh
      /\ job'[c].yaml = job[c].yaml
      /\ \/ core' = None /\ unheard' = FALSE /\ job'[c].pc = "start"
         \/ core' = None /\ job'[c].pc = "settle" /\ job'[c].said = "error"
         \/ UNCHANGED <<core, unheard>> /\ job'[c].pc = "settle" /\ job'[c].said = "error"
  BY <1>1 DEF StopCore, Goto, Says, Types, TypeOK, Jobs
<1>5. Carries(c) /\ LatestRuntime' = LatestRuntime
  BY <1>2, <1>3 DEF Stage, LatestRuntime, layers
<1>6. Known'
  BY <1>1, <1>2, <1>3, <1>4 DEF Known, layers
<1>7. Holds(c)' /\ Begins(c)' /\ Deletes(c)'
  BY <1>1, <1>2, <1>3, <1>4 DEF Proper, Holds, Begins, Deletes, UpdatePlaces, FreshPlaces
<1>8. ~job[c].fresh
  BY <1>1, <1>2 DEF Proper, Begins, FreshPlaces
<1>9. Stage(c)'
  BY <1>2, <1>3, <1>4, <1>5, <1>8 DEF Stage, Carries, RunsAs, Keep, UpdatePlaces, layers
<1>. QED BY <1>3, <1>6, <1>7, <1>9 DEF Proper

LEMMA StartKeeps ==
    ASSUME Types, IInv, NEW c \in Callers, StartCore(c)
    PROVE  Known' /\ Proper(c)'
<1>1. Known /\ Proper(c) /\ job[c] \in Jobs /\ c # None
  BY ConfigUpdateAssumption DEF IInv, Types, TypeOK
<1>2. UNCHANGED <<current, layers, unheard, accepted, locks>> /\ job[c].pc = "start"
  BY DEF StartCore, profiles, At
<1>3. updating = c /\ updating' = c /\ writer' = writer /\ Stage(c)
  BY <1>1, <1>2 DEF Proper, Holds, UpdatePlaces, locks
<1>4. /\ job'[c].cmd = job[c].cmd /\ job'[c].src = job[c].src /\ job'[c].yaml = job[c].yaml
      /\ file' \in {LatestRuntime, file}
      /\ \/ /\ job[c].yaml = None => file' = LatestRuntime
            /\ core' = file' /\ job'[c].pc = "proxy" /\ job'[c].fresh = TRUE
         \/ /\ UNCHANGED core /\ job'[c].pc = "settle" /\ job'[c].said = "error"
            /\ job'[c].fresh = job[c].fresh
  BY <1>1 DEF StartCore, Says, Types, TypeOK, Jobs
<1>5. Carries(c) /\ LatestRuntime' = LatestRuntime /\ core = None /\ ~unheard
  BY <1>2, <1>3 DEF Stage, LatestRuntime, layers
<1>6. job'[c].pc = "proxy" => core' = LatestRuntime
  <2>1. CASE job[c].cmd = "restart"
    BY <2>1, <1>4, <1>5 DEF Carries
  <2>2. CASE job[c].cmd # "restart"
    BY <2>2, <1>2, <1>3, <1>4, <1>5 DEF Stage, Carries, LatestRuntime
  <2>. QED BY <2>1, <2>2
<1>7. Known'
  BY <1>1, <1>2, <1>3, <1>4, <1>5 DEF Known, Carries, layers
<1>8. Holds(c)' /\ Begins(c)' /\ Deletes(c)'
  BY <1>1, <1>2, <1>3, <1>4 DEF Proper, Holds, Begins, Deletes, UpdatePlaces, FreshPlaces
<1>9. ~job[c].fresh
  BY <1>1, <1>2 DEF Proper, Begins, FreshPlaces
<1>10. Stage(c)'
  BY <1>2, <1>3, <1>4, <1>5, <1>6, <1>9 DEF Stage, Carries, RunsAs, Keep, UpdatePlaces, layers
<1>. QED BY <1>3, <1>7, <1>8, <1>10 DEF Proper

LEMMA ProxyKeeps ==
    ASSUME Types, IInv, NEW c \in Callers, ApplyProxy(c)
    PROVE  Known' /\ Proper(c)'
<1>1. Known /\ Proper(c) /\ job[c] \in Jobs /\ c # None
  BY ConfigUpdateAssumption DEF IInv, Types, TypeOK
<1>2. UNCHANGED <<current, Held, accepted, locks>> /\ job[c].pc = "proxy"
  BY DEF ApplyProxy, profiles, Held, At
<1>3. updating = c /\ updating' = c /\ writer' = writer /\ Stage(c)
  BY <1>1, <1>2 DEF Proper, Holds, UpdatePlaces, locks
<1>4. /\ job'[c].cmd = job[c].cmd /\ job'[c].src = job[c].src /\ job'[c].fresh = job[c].fresh
      /\ job'[c].yaml = job[c].yaml /\ job'[c].pc = "settle"
  BY <1>1 DEF ApplyProxy, Says, Types, TypeOK, Jobs
<1>5. /\ Carries(c) /\ LatestRuntime' = LatestRuntime /\ RunsAs(LatestRuntime)
      /\ ~unheard /\ job[c].fresh
  BY <1>2, <1>3 DEF Stage, LatestRuntime, Held, layers
<1>6. Known'
  BY <1>1, <1>2, <1>3 DEF Known, Held, layers
<1>7. Holds(c)' /\ Begins(c)' /\ Deletes(c)'
  BY <1>1, <1>2, <1>3, <1>4 DEF Proper, Holds, Begins, Deletes, UpdatePlaces, FreshPlaces
<1>8. Stage(c)'
  BY <1>2, <1>4, <1>5 DEF Stage, Carries, RunsAs, Keep, UpdatePlaces, Held, layers
<1>. QED BY <1>3, <1>6, <1>7, <1>8 DEF Proper

LEMMA SettleKeeps ==
    ASSUME Types, IInv, NEW c \in Callers, Settle(c) \/ DiscardStaged(c)
    PROVE  Known' /\ Proper(c)'
<1>1. Known /\ Proper(c) /\ job[c] \in Jobs /\ c # None
  BY ConfigUpdateAssumption DEF IInv, Types, TypeOK
<1>2. /\ UNCHANGED <<current, file, core, unheard, accepted, writer>> /\ staged' = None
      /\ updating' = (IF job[c].cmd = "delete" THEN updating ELSE None)
      /\ \/ job[c].pc = "settle" /\ runtime' = (IF staged # None /\ Keep(c) THEN staged ELSE runtime)
         \/ job[c].pc = "discard" /\ runtime' = runtime
  BY DEF Settle, DiscardStaged, Unflagged, KeepsFlag, profiles, At
<1>3. updating = c /\ Stage(c)
  BY <1>1, <1>2 DEF Proper, Holds, UpdatePlaces
<1>4. /\ job'[c].cmd = job[c].cmd /\ job'[c].src = job[c].src /\ job'[c].fresh = job[c].fresh
      /\ job'[c].yaml = job[c].yaml /\ job'[c].pc = "answer" /\ job'[c].said = job[c].said
  BY <1>1 DEF Settle, DiscardStaged, Goto, Types, TypeOK, Jobs
<1>5. RunsAs(runtime)' /\ runtime' \in accepted
  BY <1>1, <1>2, <1>3 DEF Known, Stage, Carries, RunsAs, LatestRuntime
<1>6. Known'
  BY <1>1, <1>2, <1>5 DEF Known, Quiet
<1>7. Holds(c)' /\ Begins(c)'
  BY <1>1, <1>2, <1>3, <1>4 DEF Proper, Holds, Begins, UpdatePlaces, FreshPlaces
<1>8. Deletes(c)'
  BY <1>1, <1>2, <1>3, <1>4 DEF Deletes, Follows, Stage, Carries, Keep, RunsAs, LatestRuntime
<1>9. Stage(c)'
  BY <1>2, <1>4, <1>5 DEF Stage, Quiet, UpdatePlaces
<1>. QED BY <1>6, <1>7, <1>8, <1>9 DEF Proper

\* A step that moves a command on between its updates, and touches nothing that
\* is behind the flag.
LEMMA OutsideKeeps ==
    ASSUME Types, IInv, NEW c \in Callers,
           UNCHANGED <<Held, accepted>>, updating' \in {updating, None},
           updating' # updating => updating = c,
           job[c].pc \notin UpdatePlaces, job'[c].pc \notin UpdatePlaces,
           Holds(c)', Begins(c)', Deletes(c)'
    PROVE  Known' /\ Proper(c)'
<1>1. Known /\ Proper(c) /\ c # None
  BY ConfigUpdateAssumption DEF IInv
<1>2. updating = c \/ updating = None => Quiet
  BY <1>1 DEF Known, Proper, Stage
<1>3. Known'
  BY <1>1, <1>2 DEF Known, Quiet, RunsAs, Held, layers
<1>4. updating' = c => Stage(c)'
  BY <1>1, <1>2 DEF Stage, Quiet, RunsAs, UpdatePlaces, Held, layers
<1>. QED BY <1>3, <1>4 DEF Proper

\* A command that has ended.
LEMMA FinishKeeps ==
    ASSUME TypeOK, NEW c \in Callers, Finish(c)
    PROVE  /\ job'[c].pc = "done" /\ job'[c].pc \notin UpdatePlaces
           /\ Holds(c)' /\ Begins(c)' /\ Deletes(c)'
<1>1. job'[c].pc = "done" /\ job'[c].cmd = "enhance"
  BY DEF TypeOK, Finish, Idle
<1>. QED BY <1>1 DEF Holds, Begins, Deletes, UpdatePlaces, FreshPlaces

LEMMA AskKeeps ==
    ASSUME Types, IInv, NEW c \in Callers, Ask(c) \/ AskSwitch(c) \/ AskDelete(c) \/ AskSave(c)
    PROVE  Known' /\ Proper(c)'
<1>1. /\ Proper(c) /\ job[c] \in Jobs /\ job[c].pc = "idle"
      /\ ~job[c].fresh /\ job[c].yaml = None
  BY DEF IInv, Types, TypeOK, Ask, AskSwitch, AskDelete, AskSave, At, Proper, Begins, FreshPlaces
<1>2. UNCHANGED <<Held, accepted, updating, writer, current>>
  BY DEF Ask, AskSwitch, AskDelete, AskSave, profiles, layers, locks, Held
<1>3. CASE Finish(c)
  BY <1>1, <1>2, <1>3, FinishKeeps, OutsideKeeps DEF Types, UpdatePlaces
<1>4. CASE /\ job'[c].fresh = job[c].fresh /\ job'[c].yaml = job[c].yaml
           /\ \/ job'[c].cmd \notin {"switch", "delete"} /\ job'[c].pc \in {"update", "read"}
              \/ job'[c].pc = "lock"
  <2>1. Holds(c)' /\ Begins(c)' /\ Deletes(c)' /\ job'[c].pc \notin UpdatePlaces
    BY <1>1, <1>4 DEF Holds, Begins, Deletes, UpdatePlaces, FreshPlaces
  <2>. QED BY <1>1, <1>2, <2>1, OutsideKeeps DEF UpdatePlaces
<1>5. CASE Ask(c)
  <2>1. PICK cmd \in {"enhance", "restart"} : job' = [job EXCEPT ![c].cmd = cmd, ![c].pc = "update"]
    BY <1>5 DEF Ask
  <2>2. job'[c].fresh = job[c].fresh /\ job'[c].yaml = job[c].yaml /\ job'[c].cmd = cmd /\ job'[c].pc = "update"
    BY <1>1, <2>1 DEF Types, TypeOK, Jobs
  <2>. QED BY <2>2, <1>4
<1>6. CASE AskSwitch(c)
  <2>1. ASSUME NEW p \in items, job' = [job EXCEPT ![c].cmd = "switch", ![c].target = p, ![c].pc = "lock"]
        PROVE  job'[c].fresh = job[c].fresh /\ job'[c].yaml = job[c].yaml /\ job'[c].pc = "lock"
    BY <1>1, <2>1 DEF Types, TypeOK, Jobs
  <2>. QED BY <1>6, <2>1, <1>3, <1>4 DEF AskSwitch
<1>7. CASE AskDelete(c)
  <2>1. PICK p \in items : job' = [job EXCEPT ![c].cmd = "delete", ![c].target = p, ![c].pc = "lock"]
    BY <1>7 DEF AskDelete
  <2>2. job'[c].fresh = job[c].fresh /\ job'[c].yaml = job[c].yaml /\ job'[c].pc = "lock"
    BY <1>1, <2>1 DEF Types, TypeOK, Jobs
  <2>. QED BY <2>2, <1>4
<1>8. CASE AskSave(c)
  <2>1. PICK p \in items :
          job' = [job EXCEPT ![c].cmd = "save", ![c].target = p, ![c].pc = "read", ![c].src = Latest]
    BY <1>8 DEF AskSave
  <2>2. job'[c].fresh = job[c].fresh /\ job'[c].yaml = job[c].yaml /\ job'[c].cmd = "save" /\ job'[c].pc = "read"
    BY <1>1, <2>1 DEF Types, TypeOK, Jobs
  <2>. QED BY <2>2, <1>4
<1>. QED BY <1>5, <1>6, <1>7, <1>8

LEMMA ReportKeeps ==
    ASSUME Types, IInv, NEW c \in Callers, Report(c)
    PROVE  Known' /\ Proper(c)'
<1>1. /\ job[c].pc \notin UpdatePlaces /\ Finish(c)
      /\ UNCHANGED <<Held, accepted, updating>>
  BY DEF Report, At, UpdatePlaces, layers, locks, Held
<1>. QED BY <1>1, FinishKeeps, OutsideKeeps DEF Types

LEMMA SwitchKeeps ==
    ASSUME Types, IInv, NEW c \in Callers,
           StageSwitch(c) \/ DropDraft(c) \/ CommitSwitch(c) \/ RestorePrevious(c)
    PROVE  Known' /\ Proper(c)'
<1>1. /\ Proper(c) /\ job[c] \in Jobs /\ job[c].cmd = "switch"
      /\ job[c].pc \in {"lock", "answer", "publish"}
      /\ UNCHANGED <<Held, accepted, updating>>
  BY
     DEF IInv, Types, TypeOK, StageSwitch, DropDraft, CommitSwitch, RestorePrevious, At,
         layers, locks, Held
<1>2. CASE Finish(c)
  BY <1>1, <1>2, FinishKeeps, OutsideKeeps DEF Types, UpdatePlaces
<1>3. CASE StageSwitch(c) \/ DropDraft(c)
  <2>1. /\ job'[c].cmd = "switch" /\ job'[c].fresh = job[c].fresh /\ job'[c].yaml = job[c].yaml
        /\ \/ job[c].pc = "lock" /\ job'[c].pc = "update"
           \/ job'[c].pc = "publish"
    BY <1>1, <1>3 DEF StageSwitch, DropDraft, Goto, At, Types, TypeOK, Jobs
  <2>2. writer' = c
    BY <1>1, <1>3 DEF StageSwitch, DropDraft, At, Proper, Holds, locks
  <2>3. Holds(c)' /\ Begins(c)' /\ Deletes(c)' /\ job'[c].pc \notin UpdatePlaces
    BY <1>1, <2>1, <2>2 DEF Proper, Holds, Begins, Deletes, UpdatePlaces, FreshPlaces
  <2>. QED BY <1>1, <2>3, OutsideKeeps DEF UpdatePlaces
<1>. QED BY <1>2, <1>3 DEF CommitSwitch, RestorePrevious

LEMMA SaveKeeps ==
    ASSUME Types, IInv, NEW c \in Callers,
           ReadOriginal(c) \/ Overwrite(c) \/ CheckSaved(c) \/ AfterSave(c) \/ RestoreOriginal(c)
    PROVE  Known' /\ Proper(c)'
<1>1. /\ Proper(c) /\ job[c] \in Jobs
      /\ job[c].pc \in {"read", "overwrite", "check", "putback"} \/ (job[c].pc = "answer" /\ job[c].cmd = "save")
      /\ UNCHANGED <<Held, accepted, updating, writer, current>>
  BY DEF IInv, Types, TypeOK, ReadOriginal, Overwrite, CheckSaved, AfterSave, RestoreOriginal,
         At, profiles, layers, locks, Held
<1>2. CASE Finish(c)
  BY <1>1, <1>2, FinishKeeps, OutsideKeeps DEF Types, UpdatePlaces
<1>3. CASE ~Finish(c)
  <2>1. /\ job'[c].cmd = job[c].cmd /\ job'[c].fresh = job[c].fresh /\ job'[c].yaml = job[c].yaml
        /\ \/ job[c].pc = "read" /\ job'[c].pc = "overwrite"
           \/ job[c].pc = "overwrite" /\ job'[c].pc = "check"
           \/ job[c].pc = "check" /\ job'[c].pc = "update"
           \/ job'[c].pc = "putback"
    BY <1>1, <1>3 DEF ReadOriginal, Overwrite, CheckSaved, AfterSave, RestoreOriginal, Goto, At,
                      Types, TypeOK, Jobs
  <2>2. job[c].cmd \in {"switch", "delete"} => writer = c
    BY <1>1 DEF Proper, Holds
  <2>3. Holds(c)' /\ Begins(c)' /\ Deletes(c)' /\ job'[c].pc \notin UpdatePlaces
    BY <1>1, <2>1, <2>2 DEF Proper, Holds, Begins, Deletes, UpdatePlaces, FreshPlaces
  <2>. QED BY <1>1, <2>3, OutsideKeeps DEF UpdatePlaces
<1>. QED BY <1>2, <1>3

LEMMA PlanDeleteKeeps ==
    ASSUME Types, IInv, NEW c \in Callers, PlanDelete(c)
    PROVE  Known' /\ Proper(c)'
<1>1. /\ Proper(c) /\ job[c] \in Jobs /\ job[c].pc = "lock"
      /\ UNCHANGED <<Held, accepted, updating, current>>
  BY DEF IInv, Types, TypeOK, PlanDelete, At, profiles, layers, Held
<1>2. CASE Finish(c)
  BY <1>1, <1>2, FinishKeeps, OutsideKeeps DEF Types, UpdatePlaces
<1>3. CASE ~Finish(c)
  <2>1. /\ writer' = c /\ job'[c].cmd = job[c].cmd
        /\ job'[c].fresh = job[c].fresh /\ job'[c].yaml = job[c].yaml
        /\ \/ job'[c].pc = "update"
           \/ job'[c].pc = "record" /\ job'[c].src = current /\ job'[c].cmd = "delete"
    <3>1. writer' = c
      BY <1>3 DEF PlanDelete
    <3>2. \/ \E n \in Successors(job[c].target) : job' = [job EXCEPT ![c].src = n, ![c].pc = "update"]
          \/ job' = [job EXCEPT ![c].src = current, ![c].pc = "record"]
      BY <1>3 DEF PlanDelete
    <3>3. CASE job' = [job EXCEPT ![c].src = current, ![c].pc = "record"]
      BY <1>1, <3>1, <3>3 DEF PlanDelete, Types, TypeOK, Jobs
    <3>4. CASE \E n \in Successors(job[c].target) : job' = [job EXCEPT ![c].src = n, ![c].pc = "update"]
      <4>1. PICK n \in Successors(job[c].target) : job' = [job EXCEPT ![c].src = n, ![c].pc = "update"]
        BY <3>4
      <4>. QED BY <1>1, <3>1, <4>1 DEF Types, TypeOK, Jobs
    <3>. QED BY <3>2, <3>3, <3>4
  <2>2. Holds(c)' /\ Begins(c)' /\ Deletes(c)' /\ job'[c].pc \notin UpdatePlaces
    BY <1>1, <2>1 DEF Proper, Holds, Begins, Deletes, UpdatePlaces, FreshPlaces
  <2>. QED BY <1>1, <2>2, OutsideKeeps DEF UpdatePlaces
<1>. QED BY <1>2, <1>3

\* A restore begins another update under the flag that is held.
LEMMA UndoKeeps ==
    ASSUME Types, IInv, NEW c \in Callers, Undo(c), updating = c, job[c].cmd = "delete",
           job[c].pc \notin UpdatePlaces, writer = c,
           UNCHANGED <<Held, accepted, locks>>
    PROVE  Known' /\ Proper(c)'
<1>1. Known /\ Proper(c) /\ job[c] \in Jobs /\ c # None
  BY ConfigUpdateAssumption DEF IInv, Types, TypeOK
<1>2. /\ job'[c].cmd = "delete" /\ job'[c].pc = "generate" /\ ~job'[c].fresh
  BY <1>1 DEF Undo, Types, TypeOK, Jobs
<1>3. Known' /\ updating' = c /\ writer' = c
  BY <1>1 DEF Known, Quiet, RunsAs, locks, Held, layers
<1>4. Holds(c)' /\ Begins(c)' /\ Deletes(c)'
  BY <1>2, <1>3 DEF Holds, Begins, Deletes, UpdatePlaces, FreshPlaces
<1>5. Stage(c)'
  BY <1>1, <1>2 DEF Proper, Stage, Quiet, RunsAs, UpdatePlaces, Held, layers
<1>. QED BY <1>3, <1>4, <1>5 DEF Proper

LEMMA ContinueDeleteKeeps ==
    ASSUME Types, IInv, NEW c \in Callers, ContinueDelete(c)
    PROVE  Known' /\ Proper(c)'
<1>1. /\ Proper(c) /\ job[c] \in Jobs /\ job[c].pc = "answer" /\ job[c].cmd = "delete"
      /\ job[c].pc \notin UpdatePlaces /\ writer = c
      /\ UNCHANGED <<Held, accepted, current>>
  BY
     DEF IInv, Types, TypeOK, ContinueDelete, At, Proper, Holds, UpdatePlaces, profiles,
         layers, Held
<1>2. CASE Refuse(c)
  <2>1. Finish(c) /\ updating' = (IF updating = c THEN None ELSE updating)
    BY <1>2 DEF Refuse
  <2>. QED BY <1>1, <2>1, FinishKeeps, OutsideKeeps DEF Types
<1>3. CASE job[c].said = "valid" /\ Goto(c, "record") /\ UNCHANGED locks
  <2>1. updating = c /\ Follows(c)
    BY <1>1, <1>3 DEF Proper, Holds, Deletes
  <2>2. /\ job'[c].cmd = "delete" /\ job'[c].pc = "record" /\ job'[c].src = job[c].src
    BY <1>1, <1>3 DEF Goto, Types, TypeOK, Jobs
  <2>3. Holds(c)' /\ Begins(c)' /\ Deletes(c)' /\ job'[c].pc \notin UpdatePlaces
    BY <1>1, <1>3, <2>1, <2>2
       DEF Holds, Begins, Deletes, Follows, UpdatePlaces, FreshPlaces, locks, layers, Held
  <2>. QED BY <1>1, <1>3, <2>3, OutsideKeeps DEF locks
<1>4. CASE job[c].said = "error" /\ Undo(c) /\ UNCHANGED locks
  <2>1. updating = c
    BY <1>1, <1>4 DEF Proper, Holds
  <2>. QED BY <1>1, <1>4, <2>1, UndoKeeps
<1>. QED BY <1>2, <1>3, <1>4 DEF ContinueDelete

LEMMA SaveCandidateKeeps ==
    ASSUME Types, IInv, NEW c \in Callers, SaveCandidate(c)
    PROVE  Known' /\ Proper(c)'
<1>1. /\ Proper(c) /\ job[c] \in Jobs /\ job[c].pc = "record" /\ job[c].cmd = "delete"
      /\ job[c].pc \notin UpdatePlaces /\ writer = c
      /\ UNCHANGED <<Held, accepted, current>>
  BY
     DEF IInv, Types, TypeOK, SaveCandidate, At, Proper, Holds, UpdatePlaces, profiles,
         layers, Held
<1>2. CASE updating # c /\ Refuse(c)
  <2>1. Finish(c) /\ updating' = updating
    BY <1>2 DEF Refuse
  <2>. QED BY <1>1, <2>1, FinishKeeps, OutsideKeeps DEF Types
<1>3. CASE Goto(c, "publish") /\ UNCHANGED locks
  <2>1. /\ job'[c].cmd = "delete" /\ job'[c].pc = "publish" /\ job'[c].src = job[c].src
    BY <1>1, <1>3 DEF Goto, Types, TypeOK, Jobs
  <2>2. Holds(c)' /\ Begins(c)' /\ Deletes(c)' /\ job'[c].pc \notin UpdatePlaces
    BY <1>1, <1>3, <2>1
       DEF Proper, Holds, Begins, Deletes, Follows, UpdatePlaces, FreshPlaces, locks, layers,
           Held
  <2>. QED BY <1>1, <1>3, <2>2, OutsideKeeps DEF locks
<1>4. CASE updating = c /\ Undo(c) /\ UNCHANGED locks
  BY <1>1, <1>4, UndoKeeps
<1>. QED BY <1>2, <1>3, <1>4 DEF SaveCandidate

LEMMA CommitDeleteKeeps ==
    ASSUME Types, IInv, NEW c \in Callers, CommitDelete(c)
    PROVE  Known' /\ Proper(c)'
<1>1. /\ job[c].pc \notin UpdatePlaces /\ Finish(c)
      /\ UNCHANGED <<Held, accepted>>
      /\ updating' = (IF updating = c THEN None ELSE updating)
  BY DEF CommitDelete, Refuse, At, UpdatePlaces, layers, Held
<1>. QED BY <1>1, FinishKeeps, OutsideKeeps DEF Types

-----------------------------------------------------------------------------
(* Theorems *)

LEMMA InitInvariant == Init => IInv
<1>. SUFFICES ASSUME Init PROVE IInv
  OBVIOUS
<1>1. Known
  BY DEF Init, Known, Quiet, RunsAs
<1>2. ASSUME NEW c \in Callers PROVE Proper(c)
  <2>1. job[c] = Idle /\ updating = None /\ c # None
    BY ConfigUpdateAssumption DEF Init
  <2>. QED BY <2>1 DEF Proper, Holds, Begins, Deletes, UpdatePlaces, FreshPlaces, Idle
<1>. QED BY <1>1, <1>2 DEF IInv

LEMMA CoreEndsKeeps ==
    ASSUME Types, IInv, CoreEnds \/ UNCHANGED vars
    PROVE  IInv'
<1>1. /\ UNCHANGED <<current, runtime, staged, file, updating, writer, job, accepted>>
      /\ (core' = None /\ unheard' = FALSE) \/ UNCHANGED <<core, unheard>>
  BY DEF CoreEnds, vars, profiles, layers, locks
<1>2. Known'
  BY <1>1 DEF IInv, Known, Quiet, RunsAs
<1>3. ASSUME NEW c \in Callers PROVE Proper(c)'
  <2>1. Proper(c)
    BY DEF IInv
  <2>2. Holds(c)' /\ Begins(c)' /\ Deletes(c)'
    BY <1>1, <2>1 DEF Proper, Holds, Begins, Deletes, Follows
  <2>3. updating' = c => Stage(c)'
    BY <1>1, <2>1 DEF Proper, Stage, Quiet, RunsAs, Carries, Keep, LatestRuntime
  <2>. QED BY <2>2, <2>3 DEF Proper
<1>. QED BY <1>2, <1>3 DEF IInv

LEMMA NextInvariant == Types /\ IInv /\ [Next]_vars => IInv'
<1>. SUFFICES ASSUME Types, IInv, [Next]_vars PROVE IInv'
  OBVIOUS
<1>1. ASSUME NEW c \in Callers, Step(c) PROVE IInv'
  <2>1. Known' /\ Proper(c)'
    BY <1>1, TakeFlagKeeps, GenerateKeeps, ValidateKeeps, WriteKeeps, ReloadKeeps, StopKeeps,
       StartKeeps, ProxyKeeps, SettleKeeps, AskKeeps, ReportKeeps, SwitchKeeps, SaveKeeps,
       PlanDeleteKeeps, ContinueDeleteKeeps, SaveCandidateKeeps, CommitDeleteKeeps
       DEF Step, UpdateStep, CommandStep
  <2>. QED BY <1>1, <2>1, BystanderKeeps DEF IInv
<1>2. CASE CoreEnds \/ UNCHANGED vars
  BY <1>2, CoreEndsKeeps
<1>. QED BY <1>1, <1>2 DEF Next, Step

\* At every step of an update the flag's holder knows what the layers, the run
\* file and the core have in common, and outside updates they agree.
THEOREM Invariance == Spec => [](Types /\ IInv)
BY InitTypes, NextTypes, InitInvariant, NextInvariant, PTL DEF Spec

\* "the core never applies unvalidated bytes": the core runs nothing the
\* validator did not let through, and while no update is in progress the
\* committed runtime is what it runs.
THEOREM AcceptedAlwaysRuns == Spec => []AcceptedRuntimeRuns
<1>1. Types /\ IInv => AcceptedRuntimeRuns
  BY
     DEF Types, IInv, Known, Quiet, RunsAs, AcceptedRuntimeRuns, OnlyAcceptedRuns,
         RuntimeIsRunning
<1>. QED BY <1>1, Invariance, PTL

\* Only the deletion of the profile in use changes both at once, and by then the
\* core follows.
LEMMA DeletionMoves ==
    ASSUME Types, IInv, NEW c \in Callers, CommitDelete(c), current' # current
    PROVE  core = None \/ (core = runtime /\ runtime.from = current')
<1>1. /\ Deletes(c) /\ job[c].cmd = "delete" /\ job[c].pc = "publish" /\ current' = job[c].src
  BY DEF IInv, Proper, CommitDelete, At
<1>. QED BY <1>1 DEF Deletes, Follows

\* A deletion commits without the profile in use only when the core runs what
\* follows it.
THEOREM DeletionsAlwaysMoveTheCore == Spec => DeletionsMoveTheCore
<1>1. ASSUME Types, IInv, [Next]_vars, items' # items, current' # current
      PROVE  core = None \/ (core = runtime /\ runtime.from = current')
  <2>1. PICK c \in Callers : Step(c)
    BY <1>1 DEF Next, Step, CoreEnds, vars, profiles
  <2>2. CommitDelete(c)
    BY <1>1, <2>1 DEF Step, UpdateStep, CommandStep, Ask, AskSwitch, AskDelete, AskSave,
       TakeFlag, Busy, Generate, Validate, WriteRunFile, Reload, StopCore, StartCore,
       ApplyProxy, Settle, DiscardStaged, Report, StageSwitch, DropDraft, CommitSwitch,
       RestorePrevious, PlanDelete, ContinueDelete, SaveCandidate,
       ReadOriginal, Overwrite, CheckSaved, AfterSave, RestoreOriginal, profiles
  <2>. QED BY <1>1, <2>2, DeletionMoves
<1>2. Types /\ IInv /\ [Next]_vars
        => [items' # items /\ current' # current
              => core = None \/ (core = runtime /\ runtime.from = current')]_vars
  BY <1>1
<1>. QED BY <1>2, Invariance, PTL DEF Spec, DeletionsMoveTheCore

-----------------------------------------------------------------------------
(* Restores: the inductive invariant *)

RestoreSpec == RestoreInit /\ [][RestoreNext]_restoreVars

\* Restores are neither writers nor the mark of a free lock.
RestoreBounds ==
    Restores \cap (Writers \cup {Nobody}) = {} /\ MaxWrites \in Nat /\ MaxSaves \in Nat

Writing(w) == writes[w].phase # "idle"

\* A restore over the files and layers: between the lock of the profiles and its end.
Inside == {"extract", "read", "clash", "profiles", "verge", "proxy", "patch"}

RestoreTypes ==
    /\ RestoreTypeOK /\ written \in 0 .. MaxWrites /\ saves \in 0 .. MaxSaves /\ late \in BOOLEAN
    /\ writes \in [Writers -> [phase : {"idle", "edits", "saved"}, value : Values \cup {Nothing},
                               base : Values \cup {Nothing}]]
    /\ \A w \in Writers : Writing(w) => writes[w].value \in Values
    /\ credentials \in [memory : 0 .. MaxSaves, disk : 0 .. MaxSaves \cup {Nothing}]
    /\ \A r \in Restores :
         /\ restore[r].phase \notin {"clash", "profiles"} => restore[r].read = Nothing
         /\ restore[r].phase \in {"idle", "lock"} => restore[r].file = "clash"

\* Who holds which lock; the permit of the profiles is one of them.
LocksFit ==
    /\ \A r \in Restores : restore[r].phase \in Inside <=> profile_write = r
    /\ \A r \in Restores : Stands(r, "proxy") <=> config_write = r
    /\ Writing("delete_profile") <=> profile_write = "delete_profile"
    /\ \A w \in Patches : Writing(w) <=> config_write = w
    /\ ~(Writing("delete_profile") /\ Writing("append_item"))

\* A draft is that of the patch under way; a restore may drop the one of the clash layer.
DraftsFit ==
    /\ drafts["profiles"] = Nothing
    /\ drafts["clash"] # Nothing => Writing("patch_clash")
    /\ drafts["verge"] # Nothing <=> Writing("patch_verge")

\* Whoever writes inside a restore is noted.
BesideFits ==
    \A r \in Restores : restore[r].phase \in Inside =>
        \A w \in Writers : Writing(w) => Layer(w) \in crossed

\* What a writer of a layer will leave there, when no restore is at it.
WriterFits(w) ==
    LET l == Layer(w) IN
    /\ Writing(w) /\ w \in Patches => drafts[l] # Nothing
    /\ Writing(w) /\ w \notin Patches => memory[l] = writes[w].base
    /\ writes[w].phase = "saved" => disk[l] = IF w \in Patches THEN drafts[l] ELSE writes[w].value

\* A restore has not come to the file of a layer, has still to read it, or has replaced the layer.
Replaced(l) == {"proxy", "patch"} \cup (IF l = "verge" THEN {} ELSE {"verge"})
                                 \cup (IF l = "clash" THEN {"profiles"} ELSE {})

RestoreFits(work, l) ==
    /\ work.phase = "extract" /\ (l = work.file \/ l = "profiles" \/ work.file = "clash") => memory[l] = disk[l]
    /\ work.phase = l /\ l # "verge" => work.read \in {Nothing, disk[l]}
    /\ l = "verge" /\ work.phase \in {"clash", "profiles", "verge"} => work.before = disk[l]
    /\ work.phase \in Replaced(l) => memory[l] = disk[l]

LayersFit ==
    ~Failed => \A l \in Layers \ crossed :
        /\ (\A r \in Restores : restore[r].phase \notin Inside) =>
             /\ \A w \in Writers : Layer(w) = l => WriterFits(w)
             /\ (\A w \in Writers : Layer(w) = l => writes[w].phase # "saved") => memory[l] = disk[l]
        /\ \A r \in Restores : restore[r].phase \in Inside => RestoreFits(restore[r], l)

ProxyFits == \A r \in Restores : Stands(r, "proxy") => memory["verge"] = restore[r].before

\* The file is without credentials between its extraction and its repair.
Stripped(work) == work.phase = "read" \/ (work.phase = "extract" /\ work.file = "profiles")

CredentialsFit ==
    ~late =>
        /\ credentials.memory = saves
        /\ \A r \in Restores : Running(r) => restore[r].kept = saves
        /\ ~Failed /\ (\A r \in Restores : ~Stripped(restore[r])) => credentials.disk = saves
        /\ client \in {Nothing, saves} /\ asking \in {Nothing, saves}

RestoreInv ==
    /\ RestoreTypes /\ LocksFit /\ DraftsFit /\ BesideFits
    /\ LayersFit /\ ProxyFits /\ CredentialsFit

-----------------------------------------------------------------------------
(* Restores: what every step does *)

\* What a step notes: whoever writes inside a restore, and credentials stored beside one.
Noted ==
    /\ crossed \subseteq crossed'
    /\ \A r \in Restores : restore'[r].phase \in Inside =>
         \A w \in Writers \ {"delete_profile"} : writes'[w].phase # "idle" => Layer(w) \in crossed'
    /\ saves' # saves /\ (\E r \in Restores : Running(r)) => "verge" \in crossed'

LEMMA StepsAreNoted ==
  ASSUME RestoreNext
  PROVE  Noted
BY DEF RestoreNext, Noted, Beside, Running, Stands, Inside

LEMMA BesideAlwaysFits ==
  ASSUME RestoreBounds, Noted, LocksFit'
  PROVE  BesideFits'
<1> SUFFICES ASSUME NEW r \in Restores, restore'[r].phase \in Inside, NEW w \in Writers, writes'[w].phase # "idle"
    PROVE  Layer(w) \in crossed'
  BY DEF BesideFits, Writing
<1>1. w # "delete_profile"
  BY DEF LocksFit, Writing, RestoreBounds, Writers
<1> QED BY <1>1 DEF Noted

\* The layers and their writers.
LEMMA LayersOfWriters ==
  /\ \A w \in Writers : Layer(w) \in Layers
  /\ Patches \subseteq Writers /\ Writers = Patches \cup {"delete_profile", "append_item"}
  /\ \A w \in Writers : Layer(w) = "clash" <=> w = "patch_clash"
  /\ \A w \in Writers : Layer(w) = "verge" <=> w = "patch_verge"
  /\ \A w \in Writers : Layer(w) = "profiles" <=> w \notin Patches
BY DEF Layer, Layers, Writers, Patches

LEMMA ValuesFit ==
  ASSUME RestoreBounds
  PROVE  /\ Nothing \notin Values /\ Saved \in Values /\ 0 \in Values /\ 1 .. MaxWrites \subseteq Values
         /\ Nothing \notin 0 .. MaxSaves
BY DEF RestoreBounds, Values, Nothing, Saved

\* A restore that goes on leaves the other ones as they are.
LEMMA OneContinues ==
  ASSUME RestoreTypes, NEW r \in Restores, NEW work \in RestoreJob, Continue(r, work)
  PROVE  /\ restore' \in [Restores -> RestoreJob] /\ restore'[r] = work
         /\ \A s \in Restores \ {r} : restore'[s] = restore[s]
BY DEF RestoreTypes, RestoreTypeOK, Continue

\* What is known of a restore at one of its steps: it has the profiles to itself.
LEMMA RestoreIsKnown ==
  ASSUME RestoreBounds, RestoreInv, NEW r \in Restores
  PROVE  /\ restore[r] \in RestoreJob
         /\ restore[r].phase \in Inside =>
              /\ profile_write = r /\ \A s \in Restores \ {r} : restore[s].phase \notin Inside
              /\ \A w \in Writers : Writing(w) => Layer(w) \in crossed
              /\ ~Failed => \A l \in Layers \ crossed : RestoreFits(restore[r], l)
BY DEF RestoreInv, RestoreTypes, RestoreTypeOK, LocksFit, BesideFits, LayersFit

\* Inside a restore only what it does itself matters to the layers nobody else writes.
LEMMA InsideLayersFit ==
  ASSUME RestoreBounds, RestoreInv, Noted, NEW r \in Restores, restore[r].phase \in Inside,
         NEW work \in RestoreJob, Continue(r, work), work.phase \in Inside,
         ~Failed => \A l \in Layers \ crossed : RestoreFits(work, l)'
  PROVE  LayersFit'
<1>1. /\ restore'[r] = work /\ \A s \in Restores \ {r} : restore'[s] = restore[s] /\ restore[s].phase \notin Inside
  BY OneContinues, RestoreIsKnown DEF RestoreInv
<1>2. Failed => Failed'
  BY <1>1 DEF Failed, Stands, Inside
<1>3. crossed \subseteq crossed'
  BY DEF Noted
<1> QED BY <1>1, <1>2, <1>3 DEF LayersFit

-----------------------------------------------------------------------------
(* Restores: one lemma for each step *)

LEMMA FailFits ==
  ASSUME RestoreBounds, RestoreInv, Noted, NEW r \in Restores, restore[r].phase \in {"extract", "read", "proxy"}, Fail(r),
         UNCHANGED <<disk, memory, drafts, credentials, writes, webdav, written, saves, late>>
  PROVE  RestoreInv'
<1> DEFINE work == [restore[r] EXCEPT !.phase = "failed"]
<1>1. work \in RestoreJob /\ work.phase = "failed" /\ work.read = restore[r].read
  BY RestoreIsKnown DEF RestoreJob, RestorePhases
<1>0. restore[r].phase \in Inside
  BY DEF Inside
<1>2. Continue(r, work)
  BY DEF Fail, Proceed
<1> HIDE DEF work
<1>3. /\ restore' \in [Restores -> RestoreJob] /\ restore'[r] = work
      /\ \A s \in Restores \ {r} : restore'[s] = restore[s] /\ restore[s].phase \notin Inside
  BY <1>0, <1>1, <1>2, OneContinues, RestoreIsKnown DEF RestoreInv
<1>4. /\ profile_write = r /\ profile_write' = Nobody
      /\ config_write' = IF config_write = r THEN Nobody ELSE config_write
  BY <1>0, RestoreIsKnown DEF Fail, Unlock
<1>5. RestoreTypes'
  <2>1. restore'[r].phase = "failed" /\ restore'[r].read = restore[r].read
    BY <1>1, <1>3
  <2>2. restore[r].read = Nothing
    BY DEF RestoreInv, RestoreTypes
  <2>3. /\ \A s \in Restores :
             /\ restore'[s].phase \notin {"clash", "profiles"} => restore'[s].read = Nothing
             /\ restore'[s].phase \in {"idle", "lock"} => restore'[s].file = "clash"
    <3>1. \A s \in Restores :
             /\ restore[s].phase \notin {"clash", "profiles"} => restore[s].read = Nothing
             /\ restore[s].phase \in {"idle", "lock"} => restore[s].file = "clash"
      BY DEF RestoreInv, RestoreTypes
    <3>2. restore'[r].phase = "failed" /\ restore'[r].read = Nothing
      BY <1>1, <1>3, <2>1, <2>2
    <3> QED BY <1>3, <3>1, <3>2
  <2>4. RestoreTypeOK'
    BY <1>3, <1>4 DEF RestoreInv, RestoreTypes, RestoreTypeOK
  <2> QED BY <2>3, <2>4 DEF RestoreInv, RestoreTypes, Writing
<1>6. LocksFit'
  <2>1. \A s \in Restores : s \notin Writers /\ s # Nobody
    BY DEF RestoreBounds
  <2>2. \A w \in Writers : w # Nobody
    BY DEF Writers, Nobody
  <2>3. \A s \in Restores : restore'[s].phase \in Inside <=> profile_write' = s
    BY <1>1, <1>3, <1>4, <2>1 DEF Inside
  <2>4. \A s \in Restores : Stands(s, "proxy")' <=> config_write' = s
    BY <1>1, <1>3, <1>4, <2>1 DEF RestoreInv, LocksFit, Stands, Inside
  <2>5. \A w \in Patches : Writing(w)' <=> config_write' = w
    BY <1>4, <2>1, <2>2, LayersOfWriters DEF RestoreInv, LocksFit, Writing
  <2>6. Writing("delete_profile")' <=> profile_write' = "delete_profile"
    BY <1>4, <2>1, <2>2 DEF RestoreInv, LocksFit, Writing, Writers
  <2>7. ~(Writing("delete_profile") /\ Writing("append_item"))'
    BY DEF RestoreInv, LocksFit, Writing
  <2> QED BY <2>3, <2>4, <2>5, <2>6, <2>7 DEF LocksFit
<1>7. DraftsFit' /\ BesideFits'
  BY <1>6, BesideAlwaysFits DEF RestoreInv, DraftsFit, Writing
<1>8. Failed'
  BY <1>1, <1>3 DEF Failed, Stands
<1>9. LayersFit' /\ ProxyFits' /\ CredentialsFit'
  BY <1>1, <1>3, <1>8 DEF RestoreInv, LayersFit, ProxyFits, CredentialsFit, Stands, Running, webdav
<1> QED BY <1>5, <1>6, <1>7, <1>9 DEF RestoreInv

LEMMA StartFits ==
  ASSUME RestoreBounds, RestoreInv, Noted, NEW r \in Restores, Start(r)
  PROVE  RestoreInv'
<1> DEFINE work == [Fresh EXCEPT !.phase = "lock", !.kept = credentials.memory]
<1>1. /\ work \in RestoreJob /\ work.phase = "lock" /\ work.read = Nothing /\ work.file = "clash"
      /\ work.kept = credentials.memory
  BY ValuesFit DEF RestoreInv, RestoreTypes, RestoreJob, RestorePhases, Fresh, Layers
<1>2. Continue(r, work) /\ restore[r].phase = "idle"
  BY DEF Start, Stands
<1> HIDE DEF work
<1>3. /\ restore' \in [Restores -> RestoreJob] /\ restore'[r] = work
      /\ \A s \in Restores \ {r} : restore'[s] = restore[s]
  BY <1>1, <1>2, OneContinues DEF RestoreInv
<1>4. UNCHANGED <<disk, memory, drafts, credentials, writes, profile_write, config_write, client, asking, written, saves, late>>
  BY DEF Start, lockWords, webdav
<1>5. RestoreTypes'
  BY <1>1, <1>3, <1>4 DEF RestoreInv, RestoreTypes, RestoreTypeOK, Writing
<1>6. LocksFit'
  BY <1>1, <1>2, <1>3, <1>4 DEF RestoreInv, LocksFit, Stands, Writing, Inside
<1>7. DraftsFit' /\ BesideFits'
  BY <1>4, <1>6, BesideAlwaysFits DEF RestoreInv, DraftsFit, Writing
<1>8. Failed' <=> Failed
  BY <1>1, <1>2, <1>3 DEF Failed, Stands
<1>9. LayersFit'
  BY <1>1, <1>2, <1>3, <1>4, <1>8 DEF RestoreInv, LayersFit, WriterFits, Writing, RestoreFits, Noted, Inside
<1>10. ProxyFits' /\ CredentialsFit'
  BY <1>1, <1>2, <1>3, <1>4, <1>8 DEF RestoreInv, ProxyFits, CredentialsFit, Stands, Running, Stripped
<1> QED BY <1>5, <1>6, <1>7, <1>9, <1>10 DEF RestoreInv

LEMMA TakeLockFits ==
  ASSUME RestoreBounds, RestoreInv, Noted, NEW r \in Restores, TakeLock(r)
  PROVE  RestoreInv'
<1> DEFINE work == [restore[r] EXCEPT !.phase = "extract"]
<1>1. /\ work \in RestoreJob /\ work.phase = "extract" /\ work.read = Nothing /\ work.file = "clash"
      /\ work.kept = restore[r].kept
  BY RestoreIsKnown DEF RestoreInv, RestoreTypes, RestoreJob, RestorePhases, TakeLock, Stands
<1>2. Continue(r, work) /\ restore[r].phase = "lock"
  BY DEF TakeLock, Stands, Proceed
<1> HIDE DEF work
<1>3. /\ restore' \in [Restores -> RestoreJob] /\ restore'[r] = work
      /\ \A s \in Restores \ {r} : restore'[s] = restore[s]
  BY <1>1, <1>2, OneContinues DEF RestoreInv
<1>4. /\ UNCHANGED <<disk, memory, drafts, credentials, writes, config_write, client, asking, written, saves, late>>
      /\ profile_write = Nobody /\ profile_write' = r
  BY DEF TakeLock, TakeProfiles, webdav
<1>5. RestoreTypes'
  BY <1>1, <1>3, <1>4 DEF RestoreInv, RestoreTypes, RestoreTypeOK, Writing
<1>6. LocksFit'
  <2>1. \A s \in Restores : s \notin Writers /\ s # Nobody
    BY DEF RestoreBounds
  <2>2. \A s \in Restores : restore'[s].phase \in Inside <=> profile_write' = s
    BY <1>1, <1>2, <1>3, <1>4, <2>1 DEF RestoreInv, LocksFit, Inside
  <2>3. \A s \in Restores : Stands(s, "proxy")' <=> config_write' = s
    BY <1>1, <1>2, <1>3, <1>4 DEF RestoreInv, LocksFit, Stands
  <2>4. Writing("delete_profile")' <=> profile_write' = "delete_profile"
    BY <1>4, <2>1 DEF RestoreInv, LocksFit, Writing, Writers, Nobody
  <2> QED BY <1>4, <2>2, <2>3, <2>4 DEF RestoreInv, LocksFit, Writing
<1>7. DraftsFit' /\ BesideFits'
  BY <1>4, <1>6, BesideAlwaysFits DEF RestoreInv, DraftsFit, Writing
<1>8. Failed' <=> Failed
  BY <1>1, <1>2, <1>3 DEF Failed, Stands
<1>9. \A s \in Restores : restore[s].phase \notin Inside
  BY <1>4 DEF RestoreInv, LocksFit, RestoreBounds
<1>10. \A l \in Layers \ crossed' : \A w \in Writers : Layer(w) = l => writes[w].phase = "idle"
  BY <1>1, <1>3, <1>4, <1>7 DEF BesideFits, Writing, Inside
<1>11. LayersFit'
  BY <1>1, <1>3, <1>4, <1>8, <1>9, <1>10 DEF RestoreInv, LayersFit, RestoreFits, Noted, Inside, Replaced
<1>12. ProxyFits' /\ CredentialsFit'
  BY <1>1, <1>2, <1>3, <1>4, <1>8 DEF RestoreInv, ProxyFits, CredentialsFit, Stands, Running, Stripped
<1> QED BY <1>5, <1>6, <1>7, <1>11, <1>12 DEF RestoreInv

LEMMA ExtractFits ==
  ASSUME RestoreBounds, RestoreInv, Noted, NEW r \in Restores, Extract(r)
  PROVE  RestoreInv'
<1>1. CASE Fail(r) /\ UNCHANGED <<disk, credentials>>
  BY <1>1, FailFits DEF Extract, Stands
<1>2. CASE ~(Fail(r) /\ UNCHANGED <<disk, credentials>>)
  <2> DEFINE old == restore[r]
  <2>1. old \in RestoreJob /\ old.phase = "extract" /\ old.read = Nothing
    BY RestoreIsKnown DEF Extract, Stands, RestoreInv, RestoreTypes
  <2>2. PICK work : /\ Continue(r, work)
                   /\ work = IF old.file = "profiles" THEN [old EXCEPT !.phase = "read"]
                            ELSE [old EXCEPT !.file = Following(old.file)]
    BY <1>2 DEF Extract
  <2>3. /\ work \in RestoreJob /\ work.kept = old.kept /\ work.read = Nothing
        /\ \/ old.file = "profiles" /\ work.phase = "read"
           \/ old.file = "clash" /\ work.phase = "extract" /\ work.file = "verge"
           \/ old.file = "verge" /\ work.phase = "extract" /\ work.file = "profiles"
    BY <2>1, <2>2 DEF RestoreJob, RestorePhases, Layers, Following
  <2>4. /\ restore' \in [Restores -> RestoreJob] /\ restore'[r] = work
        /\ \A s \in Restores \ {r} : restore'[s] = restore[s] /\ restore[s].phase \notin Inside
    BY <2>1, <2>2, <2>3, OneContinues, RestoreIsKnown DEF RestoreInv, Inside
  <2>5. /\ UNCHANGED <<memory, drafts, writes, profile_write, config_write, client, asking, written, saves, late>>
        /\ disk' = [disk EXCEPT ![old.file] = Saved]
        /\ credentials' = [credentials EXCEPT !.disk = IF old.file = "verge" THEN Nothing ELSE @]
    BY <1>2 DEF Extract, lockWords, webdav
  <2>6. RestoreTypes'
    BY <2>1, <2>3, <2>4, <2>5, ValuesFit DEF RestoreInv, RestoreTypes, RestoreTypeOK, Writing
  <2>7. LocksFit'
    BY <2>1, <2>3, <2>4, <2>5 DEF RestoreInv, LocksFit, Stands, Writing, Inside
  <2>8. DraftsFit' /\ BesideFits'
    BY <2>5, <2>7, BesideAlwaysFits DEF RestoreInv, DraftsFit, Writing
  <2>9. LayersFit'
    <3>1. ASSUME ~Failed, NEW l \in Layers \ crossed PROVE RestoreFits(work, l)'
      <4>1. RestoreFits(old, l)
        BY <2>1, <3>1, RestoreIsKnown DEF Inside
      <4> QED BY <2>1, <2>3, <2>5, <3>1, <4>1 DEF RestoreInv, RestoreTypes, RestoreTypeOK, RestoreFits, Replaced, Layers
    <3> QED BY <2>1, <2>2, <2>3, <3>1, InsideLayersFit DEF Inside
  <2>10. Failed' <=> Failed
    BY <2>1, <2>3, <2>4 DEF Failed, Stands
  <2>11. ProxyFits' /\ CredentialsFit'
    BY <2>1, <2>3, <2>4, <2>5, <2>10 DEF RestoreInv, RestoreTypes, ProxyFits, CredentialsFit, Stands, Running, Stripped
  <2> QED BY <2>6, <2>7, <2>8, <2>9, <2>11 DEF RestoreInv
<1> QED BY <1>1, <1>2

LEMMA SaveVergeFits ==
  ASSUME RestoreBounds, RestoreInv, Noted, NEW r \in Restores, SaveVerge(r)
  PROVE  RestoreInv'
<1>1. CASE Fail(r) /\ UNCHANGED credentials
  BY <1>1, FailFits DEF SaveVerge, Stands
<1>2. CASE ~(Fail(r) /\ UNCHANGED credentials)
  <2> DEFINE old == restore[r]
  <2>1. old \in RestoreJob /\ old.phase = "read" /\ old.read = Nothing
    BY RestoreIsKnown DEF SaveVerge, Stands, RestoreInv, RestoreTypes
  <2>2. PICK work : Continue(r, work) /\ work = [old EXCEPT !.phase = "clash", !.before = disk["verge"]]
    BY <1>2 DEF SaveVerge
  <2>3. /\ work \in RestoreJob /\ work.kept = old.kept /\ work.read = Nothing
        /\ work.phase = "clash" /\ work.before = disk["verge"]
    BY <2>1, <2>2 DEF RestoreJob, RestorePhases, RestoreInv, RestoreTypes, RestoreTypeOK, Layers
  <2>4. /\ restore' \in [Restores -> RestoreJob] /\ restore'[r] = work
        /\ \A s \in Restores \ {r} : restore'[s] = restore[s] /\ restore[s].phase \notin Inside
    BY <2>1, <2>2, <2>3, OneContinues, RestoreIsKnown DEF RestoreInv, Inside
  <2>5. /\ UNCHANGED <<disk, memory, drafts, writes, profile_write, config_write, client, asking, written, saves, late>>
        /\ credentials' = [credentials EXCEPT !.disk = old.kept]
    BY <1>2 DEF SaveVerge, lockWords, webdav
  <2>6. RestoreTypes'
    BY <2>1, <2>3, <2>4, <2>5 DEF RestoreInv, RestoreTypes, RestoreTypeOK, Writing, RestoreJob
  <2>7. LocksFit'
    BY <2>1, <2>3, <2>4, <2>5 DEF RestoreInv, LocksFit, Stands, Writing, Inside
  <2>8. DraftsFit' /\ BesideFits'
    BY <2>5, <2>7, BesideAlwaysFits DEF RestoreInv, DraftsFit, Writing
  <2>9. LayersFit'
    <3>1. ASSUME ~Failed, NEW l \in Layers \ crossed PROVE RestoreFits(work, l)'
      <4>1. work.phase \notin Replaced(l) /\ work.phase # "extract"
        BY <2>3 DEF Replaced
      <4> QED BY <2>3, <2>5, <4>1 DEF RestoreFits, Replaced
    <3> QED BY <2>1, <2>2, <2>3, <3>1, InsideLayersFit DEF Inside
  <2>10. Failed' <=> Failed
    BY <2>1, <2>3, <2>4 DEF Failed, Stands
  <2>11. ProxyFits' /\ CredentialsFit'
    BY <2>1, <2>3, <2>4, <2>5, <2>10 DEF RestoreInv, RestoreTypes, ProxyFits, CredentialsFit, Stands, Running, Stripped
  <2> QED BY <2>6, <2>7, <2>8, <2>9, <2>11 DEF RestoreInv
<1> QED BY <1>1, <1>2

\* The two layers that are read from their files.
LEMMA ReloadLayerFits ==
  ASSUME RestoreBounds, RestoreInv, Noted, NEW r \in Restores, NEW l, NEW next, ReloadLayer(r, l, next),
         <<l, next>> \in {<<"clash", "profiles">>, <<"profiles", "verge">>}
  PROVE  RestoreInv'
<1> DEFINE old == restore[r]
<1>1. old \in RestoreJob /\ old.phase = l /\ l \in Layers /\ old.phase \in Inside
  BY RestoreIsKnown DEF ReloadLayer, Stands, Inside, Layers
<1>2. UNCHANGED <<disk, credentials, writes, profile_write, config_write, client, asking, written, saves, late>>
  BY DEF ReloadLayer, lockWords, webdav
<1>3. ASSUME NEW work \in RestoreJob, Continue(r, work), work.phase \in Inside \ {"proxy", "extract", "read"},
             work.kept = old.kept, work.phase \notin {"clash", "profiles"} => work.read = Nothing,
             memory' \in [Layers -> Values], memory'["verge"] = memory["verge"],
             drafts' \in [Layers -> Values \cup {Nothing}], \A m \in Layers : drafts'[m] \in {drafts[m], Nothing},
             \A m \in Layers : m # l => drafts'[m] = drafts[m],
             ~Failed => \A m \in Layers \ crossed : RestoreFits(work, m)'
      PROVE  RestoreInv'
  <2>1. /\ restore' \in [Restores -> RestoreJob] /\ restore'[r] = work
        /\ \A s \in Restores \ {r} : restore'[s] = restore[s] /\ restore[s].phase \notin Inside
    BY <1>1, <1>3, OneContinues, RestoreIsKnown DEF RestoreInv
  <2>2. /\ work.phase \notin {"idle", "lock", "failed", "restored", "proxy"}
        /\ old.phase \notin {"idle", "lock", "failed", "restored", "proxy"}
    BY <1>1, <1>3 DEF Inside, Layers
  <2>3. RestoreTypes'
    BY <1>2, <1>3, <2>1, <2>2 DEF RestoreInv, RestoreTypes, RestoreTypeOK, Writing
  <2>4. LocksFit'
    BY <1>1, <1>2, <1>3, <2>1, <2>2 DEF RestoreInv, LocksFit, Stands, Writing
  <2>5. DraftsFit' /\ BesideFits'
    BY <1>1, <1>2, <1>3, <2>4, BesideAlwaysFits DEF RestoreInv, DraftsFit, Writing, Layers, ReloadLayer
  <2>6. LayersFit'
    BY <1>1, <1>3, InsideLayersFit
  <2>7. Failed' <=> Failed
    BY <2>1, <2>2 DEF Failed, Stands
  <2>8. ProxyFits'
    BY <2>1, <2>2 DEF ProxyFits, Stands, Inside
  <2>9. CredentialsFit'
    BY <1>1, <1>2, <1>3, <2>1, <2>2, <2>7 DEF RestoreInv, CredentialsFit, Running, Stripped, Layers
  <2> QED BY <2>3, <2>4, <2>5, <2>6, <2>8, <2>9 DEF RestoreInv
<1>4. CASE old.read = Nothing
  <2>1. PICK work : Continue(r, work) /\ work = [old EXCEPT !.read = disk[l]]
    BY <1>4 DEF ReloadLayer
  <2>2. work \in RestoreJob /\ work.phase = l /\ work.kept = old.kept /\ work.read = disk[l] /\ work.before = old.before
    BY <1>1, <2>1 DEF RestoreInv, RestoreTypes, RestoreTypeOK, RestoreJob
  <2>3. UNCHANGED <<memory, drafts>>
    BY <1>4 DEF ReloadLayer
  <2>4. ~Failed => \A m \in Layers \ crossed : RestoreFits(work, m)'
    <3> SUFFICES ASSUME ~Failed, NEW m \in Layers \ crossed PROVE RestoreFits(work, m)'
      OBVIOUS
    <3>1. RestoreFits(old, m)
      BY <1>1, RestoreIsKnown
    <3> QED BY <1>1, <1>2, <2>2, <2>3, <3>1 DEF RestoreFits, Replaced, Layers
  <2>5. /\ memory' \in [Layers -> Values] /\ memory'["verge"] = memory["verge"]
        /\ drafts' \in [Layers -> Values \cup {Nothing}] /\ \A m \in Layers : drafts'[m] = drafts[m]
    BY <2>3 DEF RestoreInv, RestoreTypes, RestoreTypeOK
  <2>6. work.phase \in Inside \ {"proxy", "extract", "read"} /\ work.phase \in {"clash", "profiles"}
    BY <2>2 DEF Inside
  <2> QED BY <1>3, <2>1, <2>2, <2>4, <2>5, <2>6
<1>5. CASE old.read # Nothing
  <2>1. PICK work : Continue(r, work) /\ work = [old EXCEPT !.read = Nothing, !.phase = next]
    BY <1>5 DEF ReloadLayer
  <2>2. /\ work \in RestoreJob /\ work.phase = next /\ work.kept = old.kept /\ work.read = Nothing
        /\ work.before = old.before /\ old.read \in Values
    BY <1>1, <1>5, <2>1 DEF RestoreJob, RestorePhases
  <2>3. memory' = [memory EXCEPT ![l] = old.read] /\ drafts' = [drafts EXCEPT ![l] = Nothing]
    BY <1>5 DEF ReloadLayer, Replace
  <2>4. ~Failed => \A m \in Layers \ crossed : RestoreFits(work, m)'
    <3> SUFFICES ASSUME ~Failed, NEW m \in Layers \ crossed PROVE RestoreFits(work, m)'
      OBVIOUS
    <3>1. RestoreFits(old, m)
      BY <1>1, RestoreIsKnown
    <3>2. memory'[m] = IF m = l THEN old.read ELSE memory[m]
      BY <2>3 DEF RestoreInv, RestoreTypes, RestoreTypeOK
    <3> QED BY <1>1, <1>2, <1>5, <2>2, <3>1, <3>2 DEF RestoreFits, Replaced, Layers
  <2>5. /\ memory' \in [Layers -> Values] /\ memory'["verge"] = memory["verge"]
        /\ drafts' \in [Layers -> Values \cup {Nothing}] /\ \A m \in Layers : drafts'[m] = IF m = l THEN Nothing ELSE drafts[m]
    <3>1. l # "verge" /\ "verge" \in Layers
      BY DEF Layers
    <3>2. memory \in [Layers -> Values] /\ drafts \in [Layers -> Values \cup {Nothing}]
      BY DEF RestoreInv, RestoreTypes, RestoreTypeOK
    <3> QED BY <1>1, <2>2, <2>3, <3>1, <3>2
  <2> QED BY <1>1, <1>3, <2>1, <2>2, <2>4, <2>5 DEF Inside
<1> QED BY <1>4, <1>5

LEMMA ReplaceVergeFits ==
  ASSUME RestoreBounds, RestoreInv, Noted, NEW r \in Restores, ReplaceVerge(r)
  PROVE  RestoreInv'
<1> DEFINE old == restore[r]
<1>1. old \in RestoreJob /\ old.phase = "verge" /\ old.phase \in Inside /\ old.read = Nothing
  BY RestoreIsKnown DEF ReplaceVerge, Stands, Inside, RestoreInv, RestoreTypes
<1>2. PICK work : Continue(r, work) /\ work = [old EXCEPT !.phase = "proxy"]
  BY DEF ReplaceVerge, Proceed
<1>3. /\ work \in RestoreJob /\ work.phase = "proxy" /\ work.kept = old.kept /\ work.read = Nothing
      /\ work.before = old.before /\ old.before \in Values /\ old.kept \in 0 .. MaxSaves
  BY <1>1, <1>2 DEF RestoreJob, RestorePhases
<1>4. /\ restore' \in [Restores -> RestoreJob] /\ restore'[r] = work
      /\ \A s \in Restores \ {r} : restore'[s] = restore[s] /\ restore[s].phase \notin Inside
  BY <1>1, <1>2, <1>3, OneContinues, RestoreIsKnown DEF RestoreInv
<1>5. /\ UNCHANGED <<disk, writes, profile_write, client, asking, written, saves, late>>
      /\ memory' = [memory EXCEPT !["verge"] = old.before] /\ drafts' = [drafts EXCEPT !["verge"] = Nothing]
      /\ credentials' = [credentials EXCEPT !.memory = old.kept]
      /\ config_write = Nobody /\ config_write' = r
  BY DEF ReplaceVerge, Replace, TakeConfig, webdav
<1>6. RestoreTypes'
  <2>1. RestoreTypeOK'
    BY <1>3, <1>4, <1>5 DEF RestoreInv, RestoreTypes, RestoreTypeOK, Layers
  <2> QED BY <1>3, <1>4, <1>5, <2>1 DEF RestoreInv, RestoreTypes, Writing
<1>7. \A w \in Patches : ~Writing(w)
  BY <1>5 DEF RestoreInv, LocksFit, Patches, Nobody
<1>8. LocksFit'
  <2>1. \A s \in Restores : restore'[s].phase \in Inside <=> profile_write' = s
    BY <1>1, <1>3, <1>4, <1>5 DEF RestoreInv, LocksFit, Inside
  <2>2. \A s \in Restores : Stands(s, "proxy")' <=> config_write' = s
    BY <1>3, <1>4, <1>5 DEF Stands, Inside
  <2>3. \A w \in Patches : Writing(w)' <=> config_write' = w
    BY <1>5, <1>7, LayersOfWriters DEF Writing, RestoreBounds
  <2> QED BY <1>5, <2>1, <2>2, <2>3 DEF RestoreInv, LocksFit, Writing
<1>9. DraftsFit' /\ BesideFits'
  BY <1>5, <1>7, <1>8, BesideAlwaysFits DEF RestoreInv, RestoreTypes, RestoreTypeOK, DraftsFit, Writing, Layers, Patches
<1>10. LayersFit'
  <2>1. ASSUME ~Failed, NEW l \in Layers \ crossed PROVE RestoreFits(work, l)'
    <3>1. RestoreFits(old, l)
      BY <1>1, <2>1, RestoreIsKnown
    <3>2. memory'[l] = IF l = "verge" THEN old.before ELSE memory[l]
      BY <1>5 DEF RestoreInv, RestoreTypes, RestoreTypeOK
    <3> QED BY <1>1, <1>3, <1>5, <3>1, <3>2 DEF RestoreFits, Replaced, Layers
  <2> QED BY <1>1, <1>2, <1>3, <2>1, InsideLayersFit DEF Inside
<1>11. Failed' <=> Failed
  BY <1>1, <1>3, <1>4 DEF Failed, Stands
<1>12. ProxyFits'
  BY <1>3, <1>4, <1>5 DEF RestoreInv, RestoreTypes, RestoreTypeOK, ProxyFits, Stands, Inside, Layers
<1>13. CredentialsFit'
  BY <1>1, <1>3, <1>4, <1>5, <1>11 DEF RestoreInv, RestoreTypes, CredentialsFit, Running, Stripped
<1> QED BY <1>6, <1>8, <1>9, <1>10, <1>12, <1>13 DEF RestoreInv

LEMMA TurnProxyOffFits ==
  ASSUME RestoreBounds, RestoreInv, Noted, NEW r \in Restores, TurnProxyOff(r)
  PROVE  RestoreInv'
<1>1. CASE Fail(r)
  BY <1>1, FailFits DEF TurnProxyOff, Stands
<1>2. CASE ~Fail(r)
  <2> DEFINE old == restore[r]
  <2>1. old \in RestoreJob /\ old.phase = "proxy" /\ old.phase \in Inside /\ old.read = Nothing
    BY RestoreIsKnown DEF TurnProxyOff, Stands, Inside, RestoreInv, RestoreTypes
  <2>2. PICK work : Continue(r, work) /\ work = [old EXCEPT !.phase = "patch"]
    BY <1>2 DEF TurnProxyOff, Proceed
  <2>3. /\ work \in RestoreJob /\ work.phase = "patch" /\ work.kept = old.kept /\ work.read = Nothing /\ work.before = old.before
    BY <2>1, <2>2 DEF RestoreJob, RestorePhases
  <2>4. /\ restore' \in [Restores -> RestoreJob] /\ restore'[r] = work
        /\ \A s \in Restores \ {r} : restore'[s] = restore[s] /\ restore[s].phase \notin Inside
    BY <2>1, <2>2, <2>3, OneContinues, RestoreIsKnown DEF RestoreInv
  <2>5. /\ UNCHANGED <<disk, memory, drafts, credentials, writes, profile_write, client, asking, written, saves, late>>
        /\ config_write = r /\ config_write' = Nobody
    BY <1>2 DEF TurnProxyOff, webdav, Unlock, RestoreInv, LocksFit
  <2>6. RestoreTypes'
    BY <2>1, <2>3, <2>4, <2>5 DEF RestoreInv, RestoreTypes, RestoreTypeOK, Writing
  <2>7. LocksFit'
    <3>1. \A s \in Restores : s \notin Writers /\ s # Nobody
      BY DEF RestoreBounds
    <3>2. \A s \in Restores : restore'[s].phase \in Inside <=> profile_write' = s
      BY <2>1, <2>3, <2>4, <2>5 DEF RestoreInv, LocksFit, Inside
    <3>3. \A s \in Restores : Stands(s, "proxy")' <=> config_write' = s
      BY <2>3, <2>4, <2>5, <3>1 DEF Stands, Inside
    <3>4. \A w \in Patches : Writing(w)' <=> config_write' = w
      BY <2>5, <3>1, LayersOfWriters DEF RestoreInv, LocksFit, Writing, Patches, Nobody
    <3> QED BY <2>5, <3>2, <3>3, <3>4 DEF RestoreInv, LocksFit, Writing
  <2>8. DraftsFit' /\ BesideFits'
    BY <2>5, <2>7, BesideAlwaysFits DEF RestoreInv, DraftsFit, Writing
  <2>9. LayersFit'
    <3>1. ASSUME ~Failed, NEW l \in Layers \ crossed PROVE RestoreFits(work, l)'
      <4>1. RestoreFits(old, l)
        BY <2>1, <3>1, RestoreIsKnown
      <4> QED BY <2>1, <2>3, <2>5, <4>1 DEF RestoreFits, Replaced, Layers
    <3> QED BY <2>1, <2>2, <2>3, <3>1, InsideLayersFit DEF Inside
  <2>10. Failed' <=> Failed
    BY <2>1, <2>3, <2>4 DEF Failed, Stands
  <2>11. ProxyFits' /\ CredentialsFit'
    BY <2>1, <2>3, <2>4, <2>5, <2>10 DEF RestoreInv, ProxyFits, CredentialsFit, Stands, Running, Stripped
  <2> QED BY <2>6, <2>7, <2>8, <2>9, <2>11 DEF RestoreInv
<1> QED BY <1>1, <1>2

LEMMA ConcludeFits ==
  ASSUME RestoreBounds, RestoreInv, Noted, NEW r \in Restores, Conclude(r)
  PROVE  RestoreInv'
<1> DEFINE old == restore[r]
<1>1. old \in RestoreJob /\ old.phase = "patch" /\ old.phase \in Inside /\ old.read = Nothing
  BY RestoreIsKnown DEF Conclude, Stands, Inside, RestoreInv, RestoreTypes
<1>2. PICK work : Continue(r, work) /\ work = [old EXCEPT !.phase = "restored"]
  BY DEF Conclude, Proceed
<1>3. /\ work \in RestoreJob /\ work.phase = "restored" /\ work.kept = old.kept /\ work.read = Nothing /\ work.before = old.before
  BY <1>1, <1>2 DEF RestoreJob, RestorePhases
<1>4. /\ restore' \in [Restores -> RestoreJob] /\ restore'[r] = work
      /\ \A s \in Restores \ {r} : restore'[s] = restore[s] /\ restore[s].phase \notin Inside
  BY <1>1, <1>2, <1>3, OneContinues, RestoreIsKnown DEF RestoreInv
<1>5. /\ UNCHANGED <<disk, memory, drafts, credentials, writes, config_write, client, asking, written, saves, late>>
      /\ profile_write = r /\ profile_write' = Nobody
  BY <1>1, RestoreIsKnown DEF Conclude, webdav, Unlock
<1>6. RestoreTypes'
  BY <1>1, <1>3, <1>4, <1>5 DEF RestoreInv, RestoreTypes, RestoreTypeOK, Writing
<1>7. LocksFit'
  <2>1. \A s \in Restores : s \notin Writers /\ s # Nobody
    BY DEF RestoreBounds
  <2>2. \A s \in Restores : restore'[s].phase \in Inside <=> profile_write' = s
    BY <1>3, <1>4, <1>5, <2>1 DEF Inside
  <2>3. \A s \in Restores : Stands(s, "proxy")' <=> config_write' = s
    BY <1>1, <1>3, <1>4, <1>5 DEF RestoreInv, LocksFit, Stands
  <2>4. Writing("delete_profile")' <=> profile_write' = "delete_profile"
    BY <1>5, <2>1 DEF RestoreInv, LocksFit, Writing, Writers, Nobody
  <2> QED BY <1>5, <2>2, <2>3, <2>4 DEF RestoreInv, LocksFit, Writing
<1>8. DraftsFit' /\ BesideFits'
  BY <1>5, <1>7, BesideAlwaysFits DEF RestoreInv, DraftsFit, Writing
<1>9. Failed' <=> Failed
  BY <1>1, <1>3, <1>4 DEF Failed, Stands
<1>10. LayersFit'
  <2> SUFFICES ASSUME ~Failed, NEW l \in Layers \ crossed'
      PROVE  /\ memory[l] = disk[l] /\ \A w \in Writers : Layer(w) = l => ~Writing(w)
    BY <1>3, <1>4, <1>5, <1>9 DEF LayersFit, WriterFits, Writing, Inside
  <2>1. l \notin crossed
    BY DEF Noted
  <2>2. RestoreFits(old, l) /\ \A w \in Writers : Writing(w) => Layer(w) \in crossed
    BY <1>1, <2>1, RestoreIsKnown
  <2> QED BY <1>1, <2>1, <2>2 DEF RestoreFits, Replaced
<1>11. ProxyFits' /\ CredentialsFit'
  BY <1>1, <1>3, <1>4, <1>5, <1>9 DEF RestoreInv, ProxyFits, CredentialsFit, Stands, Running, Stripped
<1> QED BY <1>6, <1>7, <1>8, <1>10, <1>11 DEF RestoreInv

-----------------------------------------------------------------------------
(* Restores: the writers beside them *)

\* A writer leaves every restore where it is.
LEMMA RestoresStay ==
  ASSUME RestoreInv, UNCHANGED restore
  PROVE  /\ Failed' <=> Failed
         /\ \A r \in Restores : Stands(r, "proxy")' <=> Stands(r, "proxy")
         /\ \A r \in Restores : Running(r)' <=> Running(r)
BY DEF Failed, Stands, Running

\* Two writers of one layer do not overlap: the profiles have the permit.
LEMMA OneWriterALayer ==
  ASSUME RestoreBounds, RestoreInv, NEW v \in Writers, NEW w \in Writers, v # w, Layer(v) = Layer(w), Writing(v)
  PROVE  ~Writing(w)
<1>1. v \in {"delete_profile", "append_item"} /\ w \in {"delete_profile", "append_item"}
  BY LayersOfWriters DEF Patches, Writers, Layer
<1> QED BY <1>1 DEF RestoreInv, LocksFit

\* No restore is inside, or the layer of whoever writes is noted.
LEMMA WritersAreNoted ==
  ASSUME RestoreInv, NEW w \in Writers, Writing(w), Layer(w) \notin crossed
  PROVE  \A r \in Restores : restore[r].phase \notin Inside
BY DEF RestoreInv, BesideFits

LEMMA BeginFits ==
  ASSUME RestoreBounds, RestoreInv, Noted, NEW w \in Writers, Begin(w)
  PROVE  RestoreInv'
<1>1. /\ UNCHANGED <<disk, memory, credentials, restore, client, asking, saves, late>>
      /\ ~Writing(w) /\ written' = written + 1 /\ written < MaxWrites
      /\ writes' = [writes EXCEPT ![w] = [phase |-> "edits", value |-> written', base |-> memory[Layer(w)]]]
  BY DEF Begin, Writing, webdav
<1>2. /\ w \in Patches => /\ drafts[Layer(w)] = Nothing /\ drafts' = [drafts EXCEPT ![Layer(w)] = written']
                          /\ config_write = Nobody /\ config_write' = w /\ UNCHANGED profile_write
      /\ w \notin Patches => /\ Permit /\ UNCHANGED <<drafts, config_write>>
                             /\ w = "delete_profile" => profile_write = Nobody /\ profile_write' = w
                             /\ w # "delete_profile" => UNCHANGED profile_write
  BY DEF Begin
<1>3. written' \in 0 .. MaxWrites /\ written' \in Values /\ written' # Nothing /\ Layer(w) \in Layers
  BY <1>1, LayersOfWriters DEF RestoreInv, RestoreTypes, RestoreBounds, Values, Nothing
<1>4. memory[Layer(w)] \in Values
  BY <1>3 DEF RestoreInv, RestoreTypes, RestoreTypeOK
<1>5. /\ writes'[w] = [phase |-> "edits", value |-> written', base |-> memory[Layer(w)]]
      /\ \A v \in Writers \ {w} : writes'[v] = writes[v]
  BY <1>1 DEF RestoreInv, RestoreTypes
<1>6. RestoreTypes'
  <2>1. RestoreTypeOK'
    BY <1>1, <1>2, <1>3 DEF RestoreInv, RestoreTypes, RestoreTypeOK
  <2>2. writes' \in [Writers -> [phase : {"idle", "edits", "saved"}, value : Values \cup {Nothing},
                                 base : Values \cup {Nothing}]]
    BY <1>1, <1>3, <1>4 DEF RestoreInv, RestoreTypes
  <2>3. \A v \in Writers : Writing(v)' => writes'[v].value \in Values
    BY <1>3, <1>5 DEF RestoreInv, RestoreTypes, Writing
  <2> QED BY <1>1, <1>3, <2>1, <2>2, <2>3 DEF RestoreInv, RestoreTypes
<1>7. LocksFit'
  <2>1. \A r \in Restores : r \notin Writers /\ r # Nobody
    BY DEF RestoreBounds
  <2>2. \A r \in Restores : restore'[r].phase \in Inside <=> profile_write' = r
    BY <1>1, <1>2, <2>1 DEF RestoreInv, LocksFit
  <2>3. \A r \in Restores : Stands(r, "proxy")' <=> config_write' = r
    BY <1>1, <1>2, <2>1 DEF RestoreInv, LocksFit, Stands
  <2>4. Writing("delete_profile")' <=> profile_write' = "delete_profile"
    BY <1>2, <1>5, LayersOfWriters DEF RestoreInv, LocksFit, Writing, Patches
  <2>5. \A v \in Patches : Writing(v)' <=> config_write' = v
    BY <1>2, <1>5, LayersOfWriters DEF RestoreInv, LocksFit, Writing, Patches, Nobody
  <2>6. ~(Writing("delete_profile") /\ Writing("append_item"))'
    BY <1>2, <1>5, LayersOfWriters DEF RestoreInv, LocksFit, Writing, Permit, Patches
  <2> QED BY <2>2, <2>3, <2>4, <2>5, <2>6 DEF LocksFit
<1>8. DraftsFit' /\ BesideFits'
  <2>1. /\ Layer(w) = "clash" <=> w = "patch_clash"
        /\ Layer(w) = "verge" <=> w = "patch_verge"
        /\ w \in Patches <=> w \in {"patch_clash", "patch_verge"}
    BY LayersOfWriters DEF Patches
  <2>2. /\ Writing("patch_clash")' <=> Writing("patch_clash") \/ w = "patch_clash"
        /\ Writing("patch_verge")' <=> Writing("patch_verge") \/ w = "patch_verge"
    BY <1>5, LayersOfWriters DEF Writing, Patches
  <2>3. \A l \in Layers : drafts'[l] = IF w \in Patches /\ l = Layer(w) THEN written' ELSE drafts[l]
    BY <1>2, <1>3 DEF RestoreInv, RestoreTypes, RestoreTypeOK
  <2>4. DraftsFit'
    BY <1>3, <2>1, <2>2, <2>3 DEF RestoreInv, DraftsFit, Layers
  <2> QED BY <1>7, <2>4, BesideAlwaysFits
<1>9. LayersFit'
  <2> SUFFICES ASSUME ~Failed, NEW l \in Layers \ crossed'
      PROVE  /\ (\A r \in Restores : restore[r].phase \notin Inside) =>
                  /\ \A v \in Writers : Layer(v) = l => WriterFits(v)'
                  /\ (\A v \in Writers : Layer(v) = l => writes'[v].phase # "saved") => memory[l] = disk[l]
             /\ \A r \in Restores : restore[r].phase \in Inside => RestoreFits(restore[r], l)
    BY <1>1 DEF LayersFit, RestoreFits, Failed, Stands
  <2>1. l \in Layers \ crossed
    BY DEF Noted
  <2>2. ASSUME \A r \in Restores : restore[r].phase \notin Inside, NEW v \in Writers, Layer(v) = l
        PROVE  WriterFits(v)'
    <3>1. CASE v = w
      BY <1>1, <1>2, <1>3, <1>5, <2>1, <3>1, LayersOfWriters DEF RestoreInv, RestoreTypes, RestoreTypeOK, WriterFits, Writing
    <3>2. CASE v # w
      <4>1. WriterFits(v)
        BY <2>1, <2>2 DEF RestoreInv, LayersFit
      <4>2. Writing(v) /\ v \in Patches => Layer(v) # Layer(w)
        BY <3>2, LayersOfWriters DEF Layer, Patches
      <4> QED BY <1>1, <1>2, <1>3, <1>5, <3>2, <4>1, <4>2, LayersOfWriters
            DEF RestoreInv, RestoreTypes, RestoreTypeOK, WriterFits, Writing
    <3> QED BY <3>1, <3>2
  <2>3. (\A v \in Writers : Layer(v) = l => writes'[v].phase # "saved") =>
           \A v \in Writers : Layer(v) = l => writes[v].phase # "saved"
    BY <1>1, <1>5 DEF Writing
  <2> QED BY <2>1, <2>2, <2>3 DEF RestoreInv, LayersFit
<1>10. ProxyFits' /\ CredentialsFit'
  BY <1>1, RestoresStay DEF RestoreInv, ProxyFits, CredentialsFit, Stands, Running, Stripped
<1> QED BY <1>6, <1>7, <1>8, <1>9, <1>10 DEF RestoreInv

LEMMA SaveFits ==
  ASSUME RestoreBounds, RestoreInv, Noted, NEW w \in Writers, Save(w)
  PROVE  RestoreInv'
<1> DEFINE l == Layer(w)
           value == IF w \in Patches THEN latest(l) ELSE writes[w].value
<1>1. /\ UNCHANGED <<memory, drafts, restore, profile_write, config_write, client, asking, written, saves, late>>
      /\ writes[w].phase = "edits" /\ writes' = [writes EXCEPT ![w].phase = "saved"]
      /\ disk' = [disk EXCEPT ![l] = value]
      /\ credentials' = IF w = "patch_verge" THEN [credentials EXCEPT !.disk = credentials.memory] ELSE credentials
  BY DEF Save, lockWords, webdav, counts
<1>2. l \in Layers /\ Writing(w) /\ value \in Values
  BY <1>1, LayersOfWriters DEF RestoreInv, RestoreTypes, RestoreTypeOK, Writing, latest
<1>3. /\ writes'[w] = [writes[w] EXCEPT !.phase = "saved"] /\ \A v \in Writers \ {w} : writes'[v] = writes[v]
      /\ \A v \in Writers : Writing(v)' <=> Writing(v)
      /\ \A v \in Writers : writes'[v].base = writes[v].base /\ writes'[v].value = writes[v].value
  BY <1>1 DEF RestoreInv, RestoreTypes, Writing
<1>4. RestoreTypes'
  <2>1. RestoreTypeOK'
    BY <1>1, <1>2 DEF RestoreInv, RestoreTypes, RestoreTypeOK
  <2>2. /\ writes' \in [Writers -> [phase : {"idle", "edits", "saved"}, value : Values \cup {Nothing},
                                    base : Values \cup {Nothing}]]
        /\ credentials' \in [memory : 0 .. MaxSaves, disk : 0 .. MaxSaves \cup {Nothing}]
    BY <1>1 DEF RestoreInv, RestoreTypes
  <2> QED BY <1>1, <1>3, <2>1, <2>2 DEF RestoreInv, RestoreTypes
<1>5. LocksFit' /\ DraftsFit'
  BY <1>1, <1>3, LayersOfWriters DEF RestoreInv, LocksFit, DraftsFit, Stands, Patches
<1>6. BesideFits'
  BY <1>5, BesideAlwaysFits
<1>7. LayersFit'
  <2> SUFFICES ASSUME ~Failed, NEW m \in Layers \ crossed'
      PROVE  /\ (\A r \in Restores : restore[r].phase \notin Inside) =>
                  /\ \A v \in Writers : Layer(v) = m => WriterFits(v)'
                  /\ (\A v \in Writers : Layer(v) = m => writes'[v].phase # "saved") => memory[m] = disk'[m]
             /\ \A r \in Restores : restore[r].phase \in Inside => RestoreFits(restore[r], m)'
    BY <1>1 DEF LayersFit, RestoreFits, Failed, Stands
  <2>1. m \in Layers \ crossed
    BY DEF Noted
  <2>2. m # l => disk'[m] = disk[m]
    BY <1>1, <2>1 DEF RestoreInv, RestoreTypes, RestoreTypeOK
  <2>3. ASSUME NEW r \in Restores, restore[r].phase \in Inside
        PROVE  RestoreFits(restore[r], m)'
    <3>1. m # l
      BY <1>2, <2>1, <2>3, WritersAreNoted
    <3>2. RestoreFits(restore[r], m)
      BY <2>1, <2>3 DEF RestoreInv, LayersFit
    <3> QED BY <1>1, <2>2, <3>1, <3>2 DEF RestoreFits
  <2>4. ASSUME \A r \in Restores : restore[r].phase \notin Inside, NEW v \in Writers, Layer(v) = m
        PROVE  WriterFits(v)'
    <3>1. WriterFits(v)
      BY <2>1, <2>4 DEF RestoreInv, LayersFit
    <3>2. CASE v = w
      <4>1. disk'[l] = value
        BY <1>1, <1>2 DEF RestoreInv, RestoreTypes, RestoreTypeOK
      <4> QED BY <1>1, <1>2, <1>3, <3>1, <3>2, <4>1 DEF WriterFits, latest
    <3>3. CASE v # w
      <4>1. Writing(v) => m # l
        BY <1>2, <2>4, <3>3, OneWriterALayer
      <4>2. writes[v].phase = "saved" => Writing(v)
        BY DEF Writing
      <4> QED BY <1>1, <1>3, <2>2, <2>4, <3>1, <3>3, <4>1, <4>2 DEF WriterFits
    <3> QED BY <3>2, <3>3
  <2>5. ASSUME \A r \in Restores : restore[r].phase \notin Inside,
               \A v \in Writers : Layer(v) = m => writes'[v].phase # "saved"
        PROVE  memory[m] = disk'[m]
    <3>1. m # l
      BY <1>2, <1>3, <2>5 DEF RestoreInv, RestoreTypes
    <3> QED BY <1>3, <2>1, <2>2, <2>5, <3>1 DEF RestoreInv, LayersFit
  <2> QED BY <2>3, <2>4, <2>5
<1>8. ProxyFits'
  BY <1>1, RestoresStay DEF RestoreInv, ProxyFits
<1>9. CredentialsFit'
  BY <1>1, RestoresStay DEF RestoreInv, RestoreTypes, CredentialsFit, Stripped
<1> QED BY <1>4, <1>5, <1>6, <1>7, <1>8, <1>9 DEF RestoreInv

LEMMA CommitFits ==
  ASSUME RestoreBounds, RestoreInv, Noted, NEW w \in Writers, Commit(w)
  PROVE  RestoreInv'
<1> DEFINE l == Layer(w)
<1>1. /\ UNCHANGED <<disk, credentials, restore, client, asking, written, saves, late>>
      /\ writes[w].phase = "saved" /\ writes' = [writes EXCEPT ![w] = Resting]
      /\ profile_write' = Unlock(profile_write, w) /\ config_write' = Unlock(config_write, w)
  BY DEF Commit, webdav, counts
<1>2. /\ w \in Patches => memory' = [memory EXCEPT ![l] = latest(l)] /\ drafts' = [drafts EXCEPT ![l] = Nothing]
      /\ w \notin Patches => /\ UNCHANGED drafts /\ l = "profiles"
                             /\ memory' = [memory EXCEPT ![l] = IF memory[l] = writes[w].base THEN writes[w].value ELSE memory[l]]
  BY LayersOfWriters DEF Commit, Replace
<1>3. /\ l \in Layers /\ Writing(w) /\ writes[w].value \in Values /\ latest(l) \in Values
  BY <1>1, LayersOfWriters DEF RestoreInv, RestoreTypes, RestoreTypeOK, Writing, latest
<1>4. /\ ~Writing(w)' /\ writes'[w].phase = "idle" /\ \A v \in Writers \ {w} : writes'[v] = writes[v]
  BY <1>1 DEF RestoreInv, RestoreTypes, Writing, Resting
<1>5. /\ memory' \in [Layers -> Values] /\ drafts' \in [Layers -> Values \cup {Nothing}]
      /\ \A m \in Layers \ {l} : memory'[m] = memory[m] /\ drafts'[m] = drafts[m]
      /\ drafts'[l] = IF w \in Patches THEN Nothing ELSE drafts[l]
      /\ memory'[l] = IF w \in Patches THEN latest(l)
                      ELSE IF memory[l] = writes[w].base THEN writes[w].value ELSE memory[l]
  BY <1>2, <1>3 DEF RestoreInv, RestoreTypes, RestoreTypeOK
<1>6. RestoreTypes'
  <2>1. RestoreTypeOK'
    BY <1>1, <1>5 DEF RestoreInv, RestoreTypes, RestoreTypeOK, Unlock
  <2>2. writes' \in [Writers -> [phase : {"idle", "edits", "saved"}, value : Values \cup {Nothing},
                                 base : Values \cup {Nothing}]]
    BY <1>1 DEF RestoreInv, RestoreTypes, Resting
  <2> QED BY <1>1, <1>4, <2>1, <2>2 DEF RestoreInv, RestoreTypes, Writing
<1>7. LocksFit'
  <2>1. \A r \in Restores : r \notin Writers /\ r # Nobody
    BY DEF RestoreBounds
  <2>2. \A r \in Restores : restore'[r].phase \in Inside <=> profile_write' = r
    BY <1>1, <2>1 DEF RestoreInv, LocksFit, Unlock
  <2>3. \A r \in Restores : Stands(r, "proxy")' <=> config_write' = r
    BY <1>1, <2>1 DEF RestoreInv, LocksFit, Unlock, Stands
  <2>4. \A v \in Writers : v # Nobody
    BY DEF Writers, Nobody
  <2>5. \A v \in Patches \cup {"delete_profile", "append_item"} : Writing(v)' <=> Writing(v) /\ v # w
    BY <1>4, LayersOfWriters DEF Writing
  <2>6. \A v \in Patches : Writing(v)' <=> config_write' = v
    BY <1>1, <2>4, <2>5, LayersOfWriters DEF RestoreInv, LocksFit, Unlock
  <2>7. Writing("delete_profile")' <=> profile_write' = "delete_profile"
    BY <1>1, <2>4, <2>5, LayersOfWriters DEF RestoreInv, LocksFit, Unlock
  <2>8. ~(Writing("delete_profile") /\ Writing("append_item"))'
    BY <2>5 DEF RestoreInv, LocksFit
  <2> QED BY <2>2, <2>3, <2>6, <2>7, <2>8 DEF LocksFit
<1>8. DraftsFit'
  <2>1. l = "profiles" <=> w \notin Patches
    BY LayersOfWriters
  <2>2. /\ l = "clash" <=> w = "patch_clash"
        /\ l = "verge" <=> w = "patch_verge"
    BY LayersOfWriters
  <2>3. /\ Writing("patch_clash")' <=> Writing("patch_clash") /\ w # "patch_clash"
        /\ Writing("patch_verge")' <=> Writing("patch_verge") /\ w # "patch_verge"
    BY <1>4, LayersOfWriters DEF Writing, Patches
  <2> QED BY <1>5, <2>1, <2>2, <2>3 DEF RestoreInv, DraftsFit, Layers, Patches
<1>9. BesideFits'
  BY <1>7, BesideAlwaysFits
<1>10. LayersFit'
  <2> SUFFICES ASSUME ~Failed, NEW m \in Layers \ crossed'
      PROVE  /\ (\A r \in Restores : restore[r].phase \notin Inside) =>
                  /\ \A v \in Writers : Layer(v) = m => WriterFits(v)'
                  /\ (\A v \in Writers : Layer(v) = m => writes'[v].phase # "saved") => memory'[m] = disk[m]
             /\ \A r \in Restores : restore[r].phase \in Inside => RestoreFits(restore[r], m)'
    BY <1>1 DEF LayersFit, RestoreFits, Failed, Stands
  <2>1. m \in Layers \ crossed
    BY DEF Noted
  <2>2. ASSUME NEW r \in Restores, restore[r].phase \in Inside
        PROVE  RestoreFits(restore[r], m)'
    <3>1. m # l
      BY <1>3, <2>1, <2>2, WritersAreNoted
    <3>2. RestoreFits(restore[r], m)
      BY <2>1, <2>2 DEF RestoreInv, LayersFit
    <3> QED BY <1>1, <1>5, <2>1, <3>1, <3>2 DEF RestoreFits
  <2>3. ASSUME \A r \in Restores : restore[r].phase \notin Inside, NEW v \in Writers, Layer(v) = m
        PROVE  WriterFits(v)'
    <3>1. WriterFits(v)
      BY <2>1, <2>3 DEF RestoreInv, LayersFit
    <3>2. CASE v = w
      BY <1>4, <3>2 DEF WriterFits
    <3>3. CASE v # w
      <4>1. Writing(v) => m # l
        BY <1>3, <2>3, <3>3, OneWriterALayer
      <4>2. writes[v].phase = "saved" => Writing(v)
        BY DEF Writing
      <4> QED BY <1>1, <1>4, <1>5, <2>1, <2>3, <3>1, <3>3, <4>1, <4>2 DEF WriterFits, Writing
    <3> QED BY <3>2, <3>3
  <2>4. ASSUME \A r \in Restores : restore[r].phase \notin Inside,
               \A v \in Writers : Layer(v) = m => writes'[v].phase # "saved"
        PROVE  memory'[m] = disk[m]
    <3>1. CASE m = l
      <4>1. WriterFits(w)
        BY <2>1, <2>4, <3>1 DEF RestoreInv, LayersFit
      <4> QED BY <1>1, <1>3, <1>5, <3>1, <4>1 DEF WriterFits, latest
    <3>2. CASE m # l
      BY <1>4, <1>5, <2>1, <2>4, <3>2 DEF RestoreInv, LayersFit
    <3> QED BY <3>1, <3>2
  <2> QED BY <2>2, <2>3, <2>4
<1>11. ProxyFits'
  <2> SUFFICES ASSUME NEW r \in Restores, Stands(r, "proxy") PROVE memory'["verge"] = restore[r].before
    BY <1>1, RestoresStay DEF ProxyFits
  <2>1. w # "patch_verge"
    BY <1>3, LayersOfWriters DEF RestoreInv, LocksFit, RestoreBounds, Patches
  <2> QED BY <1>5, <2>1, LayersOfWriters DEF RestoreInv, ProxyFits, Layers
<1>12. CredentialsFit'
  BY <1>1, RestoresStay DEF RestoreInv, CredentialsFit
<1> QED BY <1>6, <1>7, <1>8, <1>9, <1>10, <1>11, <1>12 DEF RestoreInv

LEMMA SaveCredentialsFits ==
  ASSUME RestoreBounds, RestoreInv, Noted, SaveCredentials
  PROVE  RestoreInv'
<1>1. /\ UNCHANGED <<memory, drafts, restore, writes, profile_write, config_write, asking, written>>
      /\ saves < MaxSaves /\ saves' = saves + 1 /\ drafts["verge"] = Nothing /\ client' = Nothing
      /\ credentials' = [memory |-> saves', disk |-> saves'] /\ disk' = [disk EXCEPT !["verge"] = memory["verge"]]
      /\ late' = (late \/ asking # Nothing \/ \E r \in Restores : Running(r))
  BY DEF SaveCredentials, tasks, lockWords, reset
<1>2. saves' \in 0 .. MaxSaves /\ saves' # saves
  BY <1>1 DEF RestoreInv, RestoreTypes, RestoreBounds
<1>3. RestoreTypes'
  <2>1. RestoreTypeOK'
    BY <1>1 DEF RestoreInv, RestoreTypes, RestoreTypeOK, Layers
  <2> QED BY <1>1, <1>2, <2>1 DEF RestoreInv, RestoreTypes, Writing
<1>4. LocksFit' /\ DraftsFit'
  BY <1>1 DEF RestoreInv, LocksFit, DraftsFit, Stands, Writing
<1>5. BesideFits'
  BY <1>4, BesideAlwaysFits
<1>6. LayersFit'
  <2> SUFFICES ASSUME ~Failed, NEW m \in Layers \ crossed'
      PROVE  /\ (\A r \in Restores : restore[r].phase \notin Inside) =>
                  /\ \A v \in Writers : Layer(v) = m => WriterFits(v)'
                  /\ (\A v \in Writers : Layer(v) = m => writes[v].phase # "saved") => memory[m] = disk'[m]
             /\ \A r \in Restores : restore[r].phase \in Inside => RestoreFits(restore[r], m)'
    BY <1>1 DEF LayersFit, RestoreFits, Failed, Stands
  <2>1. m \in Layers \ crossed
    BY DEF Noted
  <2>2. disk'[m] = IF m = "verge" THEN memory["verge"] ELSE disk[m]
    BY <1>1, <2>1 DEF RestoreInv, RestoreTypes, RestoreTypeOK
  <2>3. ASSUME NEW r \in Restores, restore[r].phase \in Inside
        PROVE  RestoreFits(restore[r], m)'
    <3>1. m # "verge"
      BY <1>2, <2>3 DEF Noted, Running, Inside
    <3>2. RestoreFits(restore[r], m)
      BY <2>1, <2>3 DEF RestoreInv, LayersFit
    <3> QED BY <1>1, <2>2, <3>1, <3>2 DEF RestoreFits
  <2>4. ASSUME \A r \in Restores : restore[r].phase \notin Inside, NEW v \in Writers, Layer(v) = m
        PROVE  WriterFits(v)'
    <3>1. WriterFits(v)
      BY <2>1, <2>4 DEF RestoreInv, LayersFit
    <3>2. CASE m = "verge"
      <4>1. v = "patch_verge" /\ writes[v].phase = "idle"
        BY <1>1, <2>4, <3>2, LayersOfWriters DEF RestoreInv, DraftsFit, Writing
      <4> QED BY <1>1, <4>1 DEF WriterFits, Writing
    <3>3. CASE m # "verge"
      BY <1>1, <2>2, <2>4, <3>1, <3>3 DEF WriterFits, Writing
    <3> QED BY <3>2, <3>3
  <2> QED BY <2>1, <2>2, <2>3, <2>4 DEF RestoreInv, LayersFit
<1>7. ProxyFits'
  BY <1>1 DEF RestoreInv, ProxyFits, Stands
<1>8. CredentialsFit'
  BY <1>1 DEF RestoreInv, CredentialsFit, Running
<1> QED BY <1>3, <1>4, <1>5, <1>6, <1>7, <1>8 DEF RestoreInv

LEMMA ClientFits ==
  ASSUME RestoreBounds, RestoreInv, Noted, AskClient \/ Answer
  PROVE  RestoreInv'
<1>1. /\ UNCHANGED <<disk, memory, drafts, credentials, restore, writes, profile_write, config_write, written, saves, late>>
      /\ client' \in {client, asking, Nothing} /\ asking' \in {credentials.memory, Nothing}
  BY DEF AskClient, Answer, tasks, lockWords, counts
<1>2. RestoreTypes' /\ LocksFit' /\ DraftsFit'
  BY <1>1 DEF RestoreInv, RestoreTypes, RestoreTypeOK, LocksFit, DraftsFit, Stands, Writing
<1>3. BesideFits'
  BY <1>2, BesideAlwaysFits
<1>4. LayersFit'
  BY <1>1 DEF RestoreInv, LayersFit, Noted, Failed, Stands, WriterFits, Writing, RestoreFits
<1>5. ProxyFits' /\ CredentialsFit'
  BY <1>1 DEF RestoreInv, ProxyFits, CredentialsFit, Failed, Stands, Running, Stripped
<1> QED BY <1>2, <1>3, <1>4, <1>5 DEF RestoreInv

-----------------------------------------------------------------------------
(* Restores: the theorems *)

\* Restores, patches and profile writers keep the types, the locks, the drafts and, layer by
\* layer, what memory and file hold at every point of a restore, whatever their number.
THEOREM RestoresAreOrderly == RestoreBounds => (RestoreSpec => []RestoreInv)
<1> SUFFICES ASSUME RestoreBounds PROVE RestoreSpec => []RestoreInv
  OBVIOUS
<1>1. RestoreInit => RestoreInv
  <2> SUFFICES ASSUME RestoreInit PROVE RestoreInv
    OBVIOUS
  <2>1. RestoreTypes
    <3>1. 0 \in Values /\ 0 \in 0 .. MaxSaves /\ 0 \in 0 .. MaxWrites /\ Fresh \in RestoreJob
      BY ValuesFit DEF RestoreBounds, Fresh, RestoreJob, RestorePhases, Layers
    <3>2. RestoreTypeOK
      BY <3>1 DEF RestoreInit, RestoreTypeOK
    <3> QED BY <3>1, <3>2 DEF RestoreInit, RestoreTypes, Writing, Resting, Fresh
  <2>2. LocksFit
    <3>1. \A w \in Writers : w # Nobody
      BY DEF Writers, Nobody
    <3> QED BY <3>1, LayersOfWriters DEF RestoreInit, RestoreBounds, LocksFit, Stands, Writing, Resting, Fresh, Inside
  <2>3. DraftsFit /\ BesideFits
    BY LayersOfWriters DEF RestoreInit, DraftsFit, BesideFits, Writing, Resting, Fresh, Inside, Layers, Patches
  <2>4. LayersFit
    BY DEF RestoreInit, LayersFit, WriterFits, Writing, Resting, Fresh, Inside
  <2>5. ProxyFits /\ CredentialsFit
    BY DEF RestoreInit, ProxyFits, CredentialsFit, Stands, Running, Fresh
  <2> QED BY <2>1, <2>2, <2>3, <2>4, <2>5 DEF RestoreInv
<1>2. RestoreInv /\ [RestoreNext]_restoreVars => RestoreInv'
  <2> SUFFICES ASSUME RestoreInv, [RestoreNext]_restoreVars PROVE RestoreInv'
    OBVIOUS
  <2>1. CASE RestoreNext
    <3>1. Noted
      BY <2>1, StepsAreNoted
    <3>2. ASSUME NEW r \in Restores, RestoreStep(r) PROVE RestoreInv'
      BY <3>1, <3>2, StartFits, TakeLockFits, ExtractFits, SaveVergeFits, ReloadLayerFits, ReplaceVergeFits,
         TurnProxyOffFits, ConcludeFits DEF RestoreStep
    <3>3. ASSUME NEW w \in Writers, Begin(w) \/ Save(w) \/ Commit(w) PROVE RestoreInv'
      BY <3>1, <3>3, BeginFits, SaveFits, CommitFits
    <3> QED BY <2>1, <3>1, <3>2, <3>3, SaveCredentialsFits, ClientFits DEF RestoreNext
  <2>2. CASE UNCHANGED restoreVars
    <3>1. UNCHANGED <<disk, memory, drafts, credentials, restore, writes, profile_write, config_write, client,
                      asking, written, saves, crossed, late>>
      BY <2>2 DEF restoreVars, tasks, lockWords, webdav, counts
    <3> QED BY <3>1 DEF RestoreInv, RestoreTypes, RestoreTypeOK, LocksFit, DraftsFit, BesideFits, LayersFit, ProxyFits,
          CredentialsFit, Failed, Stands, Running, WriterFits, Writing, RestoreFits, Stripped
  <2> QED BY <2>1, <2>2
<1> QED BY <1>1, <1>2, PTL DEF RestoreSpec

\* When nobody is at work the layers are what the next start will read, the credentials are the
\* last ones stored and no client works with others, the exceptions the histories name apart.
THEOREM RestoresAlwaysAgree == RestoreBounds => (RestoreSpec => []RestoresAgree)
<1> SUFFICES ASSUME RestoreBounds PROVE RestoreSpec => []RestoresAgree
  OBVIOUS
<1>1. RestoreInv => RestoresAgree
  <2> SUFFICES ASSUME RestoreInv PROVE RestoresAgree
    OBVIOUS
  <2>1. RestoreTypeOK
    BY DEF RestoreInv, RestoreTypes
  <2>2. LayersFollowFiles
    <3> SUFFICES ASSUME AllQuiet, ~Failed, NEW l \in Layers \ crossed PROVE memory[l] = disk[l]
      BY DEF LayersFollowFiles
    <3>1. \A r \in Restores : restore[r].phase \notin Inside
      BY DEF AllQuiet, Running, Inside
    <3> QED BY <3>1 DEF RestoreInv, LayersFit, AllQuiet
  <2>3. ProxyReadsRestored
    <3> SUFFICES ASSUME NEW r \in Restores, Stands(r, "proxy") PROVE drafts["verge"] = Nothing
      BY DEF RestoreInv, ProxyFits, ProxyReadsRestored
    <3>1. config_write = r
      BY DEF RestoreInv, LocksFit
    <3>2. "patch_verge" \in Patches /\ r # "patch_verge"
      BY DEF RestoreBounds, Patches, Writers
    <3> QED BY <3>1, <3>2 DEF RestoreInv, LocksFit, DraftsFit
  <2>4. CredentialsAreKept /\ ClientIsCurrent
    BY DEF RestoreInv, CredentialsFit, CredentialsAreKept, ClientIsCurrent, AllQuiet, Running, Stripped
  <2> QED BY <2>1, <2>2, <2>3, <2>4 DEF RestoresAgree
<1> QED BY <1>1, RestoresAreOrderly, PTL

-----------------------------------------------------------------------------
(* Automatic backups: the inductive invariant *)

BackupSpec == AutoBackupInit /\ [][AutoBackupNext]_autoBackupVars

\* Backups are apart by at least one unit; no edit is the scheduler or the user.
BackupBounds ==
    /\ MinInterval \in Nat \ {0} /\ Period \in Nat /\ MaxKept \in Nat
    /\ Runner \notin Triggers /\ User \notin Triggers

BackupTypes ==
    /\ AutoBackupTypeOK
    /\ now \in Nat /\ last_backup \in Int /\ last_backup =< now /\ sent \in Nat /\ byHand \in Nat
    /\ runner \in [started : BOOLEAN, current : Settings, seen : Nat, wake : Int]
    /\ began \in [Makers -> Nat] /\ \A m \in Makers : began[m] =< now
    /\ archives \subseteq [auto : BOOLEAN, at : Nat, whole : BOOLEAN] /\ IsFiniteSet(archives)
    /\ made \subseteq [from : Nat, at : Nat] /\ IsFiniteSet(made)

\* Who makes an automatic backup has the lock; the user needs none.
LockHeld ==
    /\ \A m \in Makers \ {User} : maker[m] \in {"create", "pack", "torn", "clean"} <=> exec_lock = m
    /\ maker[User] \in {"idle", "create", "pack", "torn"}
    /\ maker[User] # "idle" => byHand > 0
    /\ \A m \in Makers : maker[m] = "torn" => byHand > 0

\* What was due under the lock is due until it is made.
StaysDue ==
    \A m \in Makers \ {User} :
        /\ maker[m] = "create" => now - last_backup >= MinInterval
        /\ maker[m] \in {"pack", "torn"} => began[m] - last_backup >= MinInterval

MadeFits == BackupsAreSpaced /\ \A a \in made : a.from =< a.at /\ a.at =< last_backup

Cleaning == \E m \in Makers \ {User} : maker[m] = "clean"

\* Of the archives that are there at most one is of each unit, and the oldest of those from any
\* unit on can be told.
OldestIsKnown(kept) ==
    /\ \A a \in kept, b \in kept : a.at = b.at => a = b
    /\ \A t \in Nat : (\E a \in kept : a.at >= t) => \E a \in kept : a.at >= t /\ \A b \in kept : b.at >= t => a.at =< b.at

\* One archive more than are kept is there between its packing and the cleanup.
KeptFits ==
    LET kept == Autos(archives)
        room == IF Cleaning THEN MaxKept + 1 ELSE MaxKept
    IN  /\ OldestIsKnown(kept)
        /\ \A a \in kept : \E m \in made : m.at = a.at
        /\ \A a \in kept, m \in made : (\A k \in kept : k.at # m.at) => m.at < a.at
        /\ Cardinality(kept) = IF Cardinality(made) < room THEN Cardinality(made) ELSE room

HearsFits == SchedulerHears /\ (refreshing # {} => refreshing = {verge})

BackupInv ==
    /\ BackupTypes /\ LockHeld /\ StaysDue /\ MadeFits /\ KeptFits
    /\ HearsFits /\ ArchivesAreWhole

-----------------------------------------------------------------------------
(* Automatic backups: the archives that go *)

LEMMA AutosFacts ==
  /\ \A dir : Autos(dir) \subseteq dir
  /\ \A dir, a : Autos(dir \cup {a}) = IF a.auto THEN Autos(dir) \cup {a} ELSE Autos(dir)
  /\ \A dir, a : Autos(dir \ {a}) = Autos(dir) \ {a}
BY DEF Autos

\* With one archive too many the cleanup takes the oldest.
LEMMA OldestGoes ==
  ASSUME MaxKept \in Nat, NEW kept, IsFiniteSet(kept), Cardinality(kept) = MaxKept + 1, OldestIsKnown(kept),
         \A a \in kept : a.at \in Nat
  PROVE  \E x \in kept : Oldest(kept) = {x} /\ \A b \in kept : x.at =< b.at
<1> DEFINE Old(s) == \A a \in s, b \in kept \ s : a.at =< b.at
<1>1. kSubset(Cardinality(kept) - MaxKept, kept) = {s \in SUBSET kept : Cardinality(s) = 1}
  BY DEF kSubset
<1>2. \E s \in kSubset(Cardinality(kept) - MaxKept, kept) : Old(s)
  <2>1. kept # {}
    BY FS_EmptySet
  <2>2. PICK x \in kept : \A b \in kept : x.at =< b.at
    BY <2>1 DEF OldestIsKnown
  <2>3. {x} \in kSubset(Cardinality(kept) - MaxKept, kept)
    BY <1>1, FS_Singleton
  <2> QED BY <2>2, <2>3
<1>3. Oldest(kept) \in kSubset(Cardinality(kept) - MaxKept, kept) /\ Old(Oldest(kept))
  BY <1>2 DEF Oldest
<1> HIDE DEF Old
<1>4. PICK x : Oldest(kept) = {x}
  <2>1. Oldest(kept) \in SUBSET kept /\ Cardinality(Oldest(kept)) = 1
    BY <1>1, <1>3
  <2> QED BY <2>1, FS_Subset, FS_Singleton
<1>5. x \in kept
  BY <1>1, <1>3, <1>4
<1>6. \A b \in kept : x.at =< b.at
  BY <1>3, <1>4, <1>5 DEF Old
<1> QED BY <1>4, <1>5, <1>6

LEMMA OldestAfterRemoval ==
  ASSUME NEW kept, OldestIsKnown(kept), \A a \in kept : a.at \in Nat,
         NEW x \in kept, \A b \in kept : x.at =< b.at
  PROVE  OldestIsKnown(kept \ {x})
<1>1. \A a \in kept \ {x} : a.at >= x.at + 1
  BY DEF OldestIsKnown
<1>2. ASSUME NEW t \in Nat, \E a \in kept \ {x} : a.at >= t
      PROVE  \E a \in kept \ {x} : a.at >= t /\ \A b \in kept \ {x} : b.at >= t => a.at =< b.at
  <2> DEFINE u == IF t > x.at THEN t ELSE x.at + 1
  <2>1. u \in Nat /\ u > x.at /\ \A a \in kept \ {x} : a.at >= t <=> a.at >= u
    BY <1>1
  <2> HIDE DEF u
  <2>2. PICK a \in kept : a.at >= u /\ \A b \in kept : b.at >= u => a.at =< b.at
    BY <1>2, <2>1 DEF OldestIsKnown
  <2>3. a # x
    BY <2>1, <2>2
  <2> QED BY <2>1, <2>2, <2>3
<1> QED BY <1>2 DEF OldestIsKnown

LEMMA OldestAfterAddition ==
  ASSUME NEW kept, OldestIsKnown(kept), \A a \in kept : a.at \in Nat,
         NEW x, x.at \in Nat, \A b \in kept : b.at < x.at
  PROVE  OldestIsKnown(kept \cup {x})
<1>1. \A a \in kept \cup {x}, b \in kept \cup {x} : a.at = b.at => a = b
  BY DEF OldestIsKnown
<1>2. ASSUME NEW t \in Nat, \E a \in kept \cup {x} : a.at >= t
      PROVE  \E a \in kept \cup {x} : a.at >= t /\ \A b \in kept \cup {x} : b.at >= t => a.at =< b.at
  <2>1. CASE \E a \in kept : a.at >= t
    <3>1. PICK a \in kept : a.at >= t /\ \A b \in kept : b.at >= t => a.at =< b.at
      BY <2>1 DEF OldestIsKnown
    <3> QED BY <3>1
  <2>2. CASE ~\E a \in kept : a.at >= t
    BY <1>2, <2>2
  <2> QED BY <2>1, <2>2
<1> QED BY <1>1, <1>2 DEF OldestIsKnown

-----------------------------------------------------------------------------
(* Automatic backups: what every step does *)

LEMMA MakersDiffer ==
  ASSUME BackupBounds
  PROVE  /\ Runner \in Makers \ {User} /\ User \in Makers
         /\ \A t \in Triggers : t \in Makers \ {User} /\ t # Runner
BY DEF BackupBounds, Makers, Runner, User

\* The state of the lock, of the archives and of the clock, which most steps leave alone.
Kept == <<now, exec_lock, last_backup, archives, made, byHand>>

LEMMA SettingsFit ==
  ASSUME BackupBounds, BackupInv, Patch \/ RefreshSettings \/ Changed
  PROVE  BackupInv'
<1>1. UNCHANGED <<Kept, maker, began>>
  BY DEF Patch, RefreshSettings, Changed, Kept
<1>2. BackupTypes' /\ HearsFits'
  <2>1. CASE Patch
    BY <1>1, <2>1 DEF Patch, BackupInv, BackupTypes, AutoBackupTypeOK, HearsFits, SchedulerHears, Kept
  <2>2. CASE RefreshSettings
    <3>1. settings' = verge /\ refreshing = {verge}
      BY <2>2 DEF RefreshSettings, BackupInv, HearsFits
    <3> QED BY <1>1, <2>2, <3>1 DEF RefreshSettings, Subscribed, BackupBounds, BackupInv, BackupTypes,
          AutoBackupTypeOK, HearsFits, SchedulerHears, Kept
  <2>3. CASE Changed
    <3>1. /\ UNCHANGED <<verge, settings, sent, refreshing>>
          /\ runner' = [runner EXCEPT !.current = settings, !.seen = sent, !.wake = now + Period]
      BY <2>3 DEF Changed
    <3>2. /\ runner \in [started : BOOLEAN, current : Settings, seen : Nat, wake : Int]
          /\ sent \in Nat /\ settings \in Settings /\ now + Period \in Int
      BY DEF BackupBounds, BackupInv, BackupTypes, AutoBackupTypeOK
    <3>3. /\ runner' \in [started : BOOLEAN, current : Settings, seen : Nat, wake : Int]
          /\ runner'.started = runner.started /\ runner'.current = settings /\ runner'.seen = sent
      BY <3>1, <3>2
    <3>4. BackupTypes'
      BY <1>1, <3>1, <3>2, <3>3 DEF BackupInv, BackupTypes, AutoBackupTypeOK, Kept
    <3> QED BY <3>1, <3>3, <3>4 DEF BackupInv, HearsFits, SchedulerHears
  <2> QED BY <2>1, <2>2, <2>3
<1>3. LockHeld' /\ StaysDue' /\ MadeFits'
  BY <1>1 DEF BackupInv, Kept, LockHeld, StaysDue, MadeFits, BackupsAreSpaced
<1>4. KeptFits' /\ ArchivesAreWhole'
  BY <1>1 DEF BackupInv, Kept, KeptFits, OldestIsKnown, Cleaning, ArchivesAreWhole
<1> QED BY <1>2, <1>3, <1>4 DEF BackupInv

\* Somebody asks for a backup, waits for the lock, or goes away without one.
LEMMA AskingFits ==
  ASSUME BackupBounds, BackupInv,
         \/ Wake \/ (\E t \in Triggers : Trigger(t)) \/ \E m \in Makers : AskBackup(m)
  PROVE  BackupInv'
<1>1. /\ UNCHANGED <<Kept, began, verge, settings, sent, refreshing>>
      /\ runner' \in [started : BOOLEAN, current : Settings, seen : Nat, wake : Int]
      /\ runner'.started = runner.started /\ runner'.current = runner.current /\ runner'.seen = runner.seen
  BY DEF Wake, Trigger, AskBackup, Kept, BackupInv, BackupTypes, BackupBounds
<1>2. PICK m \in Makers \ {User}, s \in {"asked", "wait", "sleep", "idle"} :
         maker[m] \in {"sleep", "idle", "asked"} /\ maker' = [maker EXCEPT ![m] = s]
  BY MakersDiffer DEF Wake, Trigger, AskBackup, MovesOn, Done, Sleeping, BackupInv, LockHeld
<1>3. maker \in [Makers -> {"sleep", "idle", "asked", "wait", "create", "pack", "torn", "clean"}]
  BY DEF BackupInv, BackupTypes, AutoBackupTypeOK
<1>4. maker'[m] = s /\ \A o \in Makers \ {m} : maker'[o] = maker[o]
  BY <1>2, <1>3
<1>5. BackupTypes' /\ HearsFits'
  BY <1>1, <1>2, <1>3 DEF BackupInv, BackupTypes, AutoBackupTypeOK, HearsFits, SchedulerHears, Kept
<1>6. LockHeld' /\ StaysDue'
  BY <1>1, <1>2, <1>4 DEF BackupInv, LockHeld, StaysDue, Kept
<1>7. MadeFits' /\ ArchivesAreWhole'
  BY <1>1 DEF BackupInv, MadeFits, BackupsAreSpaced, ArchivesAreWhole, Kept
<1>8. Cleaning' <=> Cleaning
  BY <1>2, <1>4 DEF Cleaning
<1>9. KeptFits'
  BY <1>1, <1>8 DEF BackupInv, KeptFits, OldestIsKnown, Kept
<1> QED BY <1>5, <1>6, <1>7, <1>9 DEF BackupInv

\* Under the lock it is looked at again whether the backup is due.
LEMMA LockFits ==
  ASSUME BackupBounds, BackupInv, NEW m \in Makers, Lock(m)
  PROVE  BackupInv'
<1>1. /\ UNCHANGED <<now, last_backup, archives, made, byHand, began, verge, settings, sent, refreshing, runner>>
      /\ maker[m] = "wait" /\ exec_lock = User /\ m # User
  BY DEF Lock, BackupInv, LockHeld
<1>2. \/ maker' = [maker EXCEPT ![m] = "create"] /\ exec_lock' = m /\ now - last_backup >= MinInterval
      \/ (\E s \in {"sleep", "idle"} : maker' = [maker EXCEPT ![m] = s]) /\ exec_lock' = User
  BY DEF Lock, MovesOn, Done, StillDue, should_run_now
<1>3. maker \in [Makers -> {"sleep", "idle", "asked", "wait", "create", "pack", "torn", "clean"}]
  BY DEF BackupInv, BackupTypes, AutoBackupTypeOK
<1>4. \A o \in Makers \ {m} : maker'[o] = maker[o]
  BY <1>2, <1>3
<1>5. \/ maker'[m] = "create" /\ exec_lock' = m /\ now - last_backup >= MinInterval
      \/ maker'[m] \in {"sleep", "idle"} /\ exec_lock' = User
  BY <1>2, <1>3
<1>6. BackupTypes' /\ HearsFits'
  <2>1. /\ maker' \in [Makers -> {"sleep", "idle", "asked", "wait", "create", "pack", "torn", "clean"}]
        /\ exec_lock' \in Makers
    BY <1>2, <1>3, MakersDiffer
  <2> QED BY <1>1, <2>1 DEF BackupInv, BackupTypes, AutoBackupTypeOK, HearsFits, SchedulerHears
<1>7. LockHeld'
  <2>1. \A o \in Makers \ {User} : maker'[o] \in {"create", "pack", "torn", "clean"} <=> exec_lock' = o
    BY <1>1, <1>4, <1>5 DEF BackupInv, LockHeld
  <2>2. maker'[User] = maker[User]
    BY <1>1, <1>4, MakersDiffer
  <2>3. \A o \in Makers : maker'[o] = "torn" => maker[o] = "torn"
    BY <1>4, <1>5
  <2> QED BY <1>1, <2>1, <2>2, <2>3 DEF BackupInv, LockHeld
<1>8. StaysDue'
  BY <1>1, <1>4, <1>5 DEF BackupInv, StaysDue
<1>9. MadeFits' /\ ArchivesAreWhole'
  BY <1>1 DEF BackupInv, MadeFits, BackupsAreSpaced, ArchivesAreWhole
<1>10. Cleaning' <=> Cleaning
  BY <1>1, <1>4, <1>5 DEF Cleaning
<1>11. KeptFits'
  BY <1>1, <1>10 DEF BackupInv, KeptFits, OldestIsKnown
<1> QED BY <1>6, <1>7, <1>8, <1>9, <1>11 DEF BackupInv

LEMMA CreateFits ==
  ASSUME BackupBounds, BackupInv, NEW m \in Makers, Create(m)
  PROVE  BackupInv'
<1>1. /\ UNCHANGED <<Kept, verge, settings, sent, refreshing, runner>> /\ maker[m] = "create"
      /\ maker' = [maker EXCEPT ![m] = "pack"] /\ began' = [began EXCEPT ![m] = now]
  BY DEF Create, MovesOn, Kept
<1>2. /\ maker \in [Makers -> {"sleep", "idle", "asked", "wait", "create", "pack", "torn", "clean"}]
      /\ began \in [Makers -> Nat] /\ now \in Nat /\ last_backup \in Int
  BY DEF BackupInv, BackupTypes, AutoBackupTypeOK
<1>3. maker'[m] = "pack" /\ began'[m] = now /\ \A o \in Makers \ {m} : maker'[o] = maker[o] /\ began'[o] = began[o]
  BY <1>1, <1>2
<1>4. BackupTypes' /\ HearsFits'
  BY <1>1, <1>2, <1>3 DEF BackupInv, BackupTypes, AutoBackupTypeOK, HearsFits, SchedulerHears, Kept
<1>5. LockHeld'
  BY <1>1, <1>3 DEF BackupInv, LockHeld, Kept
<1>6. StaysDue'
  BY <1>1, <1>3 DEF BackupInv, StaysDue, Kept
<1>7. MadeFits' /\ ArchivesAreWhole'
  BY <1>1 DEF BackupInv, MadeFits, BackupsAreSpaced, ArchivesAreWhole, Kept
<1>8. Cleaning' <=> Cleaning
  BY <1>1, <1>3 DEF Cleaning
<1>9. KeptFits'
  BY <1>1, <1>8 DEF BackupInv, KeptFits, OldestIsKnown, Kept
<1> QED BY <1>4, <1>5, <1>6, <1>7, <1>9 DEF BackupInv

LEMMA ByHandFits ==
  ASSUME BackupBounds, BackupInv, ByHand
  PROVE  BackupInv'
<1>1. /\ UNCHANGED <<now, exec_lock, last_backup, archives, made, began, verge, settings, sent, refreshing, runner>>
      /\ byHand' = byHand + 1 /\ maker' = [maker EXCEPT ![User] = "create"]
  BY DEF ByHand, MovesOn
<1>2. /\ maker \in [Makers -> {"sleep", "idle", "asked", "wait", "create", "pack", "torn", "clean"}]
      /\ byHand \in Nat
  BY DEF BackupInv, BackupTypes, AutoBackupTypeOK
<1>3. maker'[User] = "create" /\ \A o \in Makers \ {User} : maker'[o] = maker[o]
  BY <1>1, <1>2, MakersDiffer
<1>4. BackupTypes' /\ HearsFits'
  <2>1. /\ maker' \in [Makers -> {"sleep", "idle", "asked", "wait", "create", "pack", "torn", "clean"}]
        /\ byHand' \in Nat
    <3>1. byHand' \in Nat
      BY <1>1, <1>2
    <3> QED BY <1>1, <1>2, <3>1
  <2> QED BY <1>1, <2>1 DEF BackupInv, BackupTypes, AutoBackupTypeOK, HearsFits, SchedulerHears
<1>5. LockHeld' /\ StaysDue'
  BY <1>1, <1>2, <1>3 DEF BackupInv, LockHeld, StaysDue
<1>6. MadeFits' /\ ArchivesAreWhole'
  BY <1>1, <1>2 DEF BackupInv, MadeFits, BackupsAreSpaced, ArchivesAreWhole
<1>7. Cleaning' <=> Cleaning
  BY <1>3 DEF Cleaning
<1>8. KeptFits'
  BY <1>1, <1>7 DEF BackupInv, KeptFits, OldestIsKnown
<1> QED BY <1>4, <1>5, <1>6, <1>8 DEF BackupInv

LEMMA TickFits ==
  ASSUME BackupBounds, BackupInv, Tick
  PROVE  BackupInv'
<1>1. /\ UNCHANGED <<exec_lock, last_backup, archives, made, byHand, maker, began, verge, settings, sent, refreshing, runner>>
      /\ now' = now + 1
  BY DEF Tick
<1>2. BackupTypes' /\ HearsFits'
  BY <1>1 DEF BackupInv, BackupTypes, AutoBackupTypeOK, HearsFits, SchedulerHears
<1>3. LockHeld' /\ StaysDue' /\ MadeFits' /\ ArchivesAreWhole'
  BY <1>1 DEF BackupInv, BackupTypes, BackupBounds, LockHeld, StaysDue, MadeFits, BackupsAreSpaced, ArchivesAreWhole
<1>4. KeptFits'
  BY <1>1 DEF BackupInv, KeptFits, OldestIsKnown, Cleaning
<1> QED BY <1>2, <1>3, <1>4 DEF BackupInv

-----------------------------------------------------------------------------
(* Automatic backups: packing and cleaning up *)

\* Two makers pack at once only when one of them is the user.
LEMMA OneAutomatic ==
  ASSUME BackupBounds, BackupInv, NEW m \in Makers, NEW o \in Makers \ {m},
         maker[m] \in {"pack", "torn"}, maker[o] \in {"pack", "torn"}
  PROVE  byHand > 0
<1>1. m = User \/ o = User
  BY DEF BackupInv, LockHeld
<1> QED BY <1>1 DEF BackupInv, LockHeld

LEMMA PackFails ==
  ASSUME BackupBounds, BackupInv, NEW m \in Makers, maker[m] \in {"pack", "torn"}, Done(m), Unlocks(m),
         UNCHANGED <<archives, last_backup, made, now, verge, settings, sent, refreshing, runner, began, byHand>>
  PROVE  BackupInv'
<1>1. /\ maker \in [Makers -> {"sleep", "idle", "asked", "wait", "create", "pack", "torn", "clean"}]
      /\ exec_lock \in Makers
  BY DEF BackupInv, BackupTypes, AutoBackupTypeOK
<1>2. PICK s \in {"sleep", "idle"} : maker' = [maker EXCEPT ![m] = s] /\ (m = User => s = "idle")
  BY DEF Done, MovesOn, User, Runner
<1>3. maker'[m] = s /\ \A o \in Makers \ {m} : maker'[o] = maker[o]
  BY <1>1, <1>2
<1>4. exec_lock' = IF exec_lock = m THEN User ELSE exec_lock
  BY DEF Unlocks
<1>5. BackupTypes' /\ HearsFits'
  <2>1. /\ maker' \in [Makers -> {"sleep", "idle", "asked", "wait", "create", "pack", "torn", "clean"}]
        /\ exec_lock' \in Makers
    BY <1>1, <1>2, <1>4, MakersDiffer
  <2> QED BY <2>1 DEF BackupInv, BackupTypes, AutoBackupTypeOK, HearsFits, SchedulerHears
<1>6. LockHeld'
  BY <1>2, <1>3, <1>4 DEF BackupInv, LockHeld
<1>7. StaysDue' /\ MadeFits' /\ ArchivesAreWhole'
  BY <1>2, <1>3 DEF BackupInv, StaysDue, MadeFits, BackupsAreSpaced, ArchivesAreWhole
<1>8. Cleaning' <=> Cleaning
  BY <1>2, <1>3 DEF Cleaning
<1>9. KeptFits'
  BY <1>8 DEF BackupInv, KeptFits, OldestIsKnown
<1> QED BY <1>5, <1>6, <1>7, <1>9 DEF BackupInv

\* The archive of the user, or one more of the automatic ones, of which room is made next.
LEMMA PackFits ==
  ASSUME BackupBounds, BackupInv, NEW m \in Makers, Pack(m)
  PROVE  BackupInv'
<1>1. /\ maker[m] \in {"pack", "torn"}
      /\ UNCHANGED <<now, verge, settings, sent, refreshing, runner, began, byHand>>
  BY DEF Pack
<1>2. CASE Done(m) /\ Unlocks(m) /\ UNCHANGED <<archives, last_backup, made>>
  BY <1>1, <1>2, PackFails
<1>3. CASE ~(Done(m) /\ Unlocks(m) /\ UNCHANGED <<archives, last_backup, made>>)
  <2> DEFINE new == [auto |-> m # User, at |-> now, whole |-> maker[m] = "pack" /\ ~Shared(m)]
  <2>1. /\ maker' = [o \in Makers |-> IF o = m THEN (IF m = User THEN "idle" ELSE "clean")
                                    ELSE IF maker[o] = "pack" /\ began[o] = began[m] THEN "torn" ELSE maker[o]]
        /\ archives' = archives \cup {new}
        /\ IF m = User THEN UNCHANGED <<last_backup, made>>
           ELSE last_backup' = now /\ made' = made \cup {[from |-> began[m], at |-> now]}
        /\ UNCHANGED exec_lock
    BY <1>3 DEF Pack
  <2>2. /\ maker \in [Makers -> {"sleep", "idle", "asked", "wait", "create", "pack", "torn", "clean"}]
        /\ began[m] \in Nat /\ began[m] =< now /\ now \in Nat /\ last_backup \in Int /\ last_backup =< now
        /\ MinInterval \in Nat \ {0}
    BY DEF BackupInv, BackupTypes, AutoBackupTypeOK, BackupBounds
  <2>3. /\ maker'[m] = IF m = User THEN "idle" ELSE "clean"
        /\ \A o \in Makers \ {m} : maker'[o] = maker[o] \/ (maker[o] = "pack" /\ maker'[o] = "torn")
    BY <2>1
  <2>4. new \in [auto : BOOLEAN, at : Nat, whole : BOOLEAN] /\ new.at = now /\ (new.auto <=> m # User)
    BY <2>2
  <2>5. ~new.whole => byHand > 0
    <3>1. maker[m] = "torn" => byHand > 0
      BY DEF BackupInv, LockHeld
    <3>2. Shared(m) => byHand > 0
      BY <1>1, OneAutomatic DEF Shared
    <3> QED BY <1>1, <3>1, <3>2
  <2> HIDE DEF new
  <2>6. BackupTypes' /\ HearsFits'
    <3>1. maker' \in [Makers -> {"sleep", "idle", "asked", "wait", "create", "pack", "torn", "clean"}]
      BY <2>1, <2>2
    <3>2. IsFiniteSet(archives') /\ archives' \subseteq [auto : BOOLEAN, at : Nat, whole : BOOLEAN]
      BY <2>1, <2>4, FS_AddElement DEF BackupInv, BackupTypes
    <3>3. IsFiniteSet(made') /\ made' \subseteq [from : Nat, at : Nat]
      <4>1. [from |-> began[m], at |-> now] \in [from : Nat, at : Nat]
        BY <2>2
      <4>2. IsFiniteSet(made) /\ made \subseteq [from : Nat, at : Nat]
        BY DEF BackupInv, BackupTypes
      <4>3. IsFiniteSet(made \cup {[from |-> began[m], at |-> now]})
        BY <4>2, FS_AddElement
      <4> QED BY <2>1, <4>1, <4>2, <4>3
    <3>4. last_backup' \in Int /\ last_backup' =< now
      BY <2>1, <2>2
    <3> QED BY <1>1, <2>1, <3>1, <3>2, <3>3, <3>4 DEF BackupInv, BackupTypes, AutoBackupTypeOK, HearsFits, SchedulerHears
  <2>7. LockHeld'
    <3>1. \A o \in Makers \ {User} : maker'[o] \in {"create", "pack", "torn", "clean"} <=> exec_lock' = o
      BY <1>1, <2>1, <2>3 DEF BackupInv, LockHeld
    <3>2. maker'[User] \in {"idle", "create", "pack", "torn"} /\ (maker'[User] # "idle" => byHand' > 0)
      BY <1>1, <2>3, MakersDiffer DEF BackupInv, LockHeld
    <3>3. ASSUME NEW o \in Makers, maker'[o] = "torn" PROVE byHand' > 0
      <4>1. o # m
        BY <2>3, <3>3
      <4>2. maker[o] \in {"pack", "torn"}
        BY <2>3, <3>3, <4>1
      <4> QED BY <1>1, <4>1, <4>2, OneAutomatic
    <3> QED BY <3>1, <3>2, <3>3 DEF LockHeld
  <2>8. m # User => /\ began[m] - last_backup >= MinInterval
                    /\ exec_lock = m /\ \A o \in Makers \ {User} : maker[o] = "clean" => FALSE
    BY <1>1 DEF BackupInv, LockHeld, StaysDue
  <2>9. StaysDue'
    BY <1>1, <2>1, <2>3, <2>7 DEF BackupInv, StaysDue, LockHeld
  <2>10. MadeFits'
    <3>1. CASE m = User
      BY <2>1, <3>1 DEF BackupInv, MadeFits, BackupsAreSpaced
    <3>2. CASE m # User
      <4> DEFINE mark == [from |-> began[m], at |-> now]
      <4>1. made' = made \cup {mark} /\ last_backup' = now /\ mark.from = began[m] /\ mark.at = now
        BY <2>1, <3>2
      <4> HIDE DEF mark
      <4>2. \A a \in made : /\ a.from \in Nat /\ a.at \in Nat /\ a.from =< a.at /\ a.at =< now
                           /\ a.at + MinInterval =< mark.from
        BY <2>2, <2>8, <3>2, <4>1 DEF BackupInv, MadeFits, BackupTypes
      <4>3. BackupsAreSpaced'
        BY <4>1, <4>2 DEF BackupInv, MadeFits, BackupsAreSpaced
      <4> QED BY <2>2, <4>1, <4>2, <4>3 DEF MadeFits
    <3> QED BY <3>1, <3>2
  <2>11. ArchivesAreWhole'
    BY <1>1, <2>1, <2>5 DEF BackupInv, ArchivesAreWhole
  <2>12. KeptFits'
    <3>1. CASE m = User
      <4>1. Autos(archives') = Autos(archives) /\ UNCHANGED made
        BY <2>1, <2>4, <3>1, AutosFacts
      <4>2. Cleaning' <=> Cleaning
        BY <2>3, <3>1 DEF Cleaning
      <4> QED BY <4>1, <4>2 DEF BackupInv, KeptFits, OldestIsKnown
    <3>2. CASE m # User
      <4> DEFINE mark == [from |-> began[m], at |-> now]
                 kept == Autos(archives)
      <4>1. /\ made' = made \cup {mark} /\ mark.at = now /\ IsFiniteSet(made)
            /\ Autos(archives') = kept \cup {new} /\ IsFiniteSet(kept)
        BY <2>1, <2>4, <3>2, AutosFacts, FS_Subset DEF BackupInv, BackupTypes
      <4>2. ~Cleaning /\ Cleaning'
        BY <2>3, <2>8, <3>2 DEF Cleaning
      <4>3. \A a \in made : a.at \in Nat /\ a.at < now
        BY <2>2, <2>8, <3>2 DEF BackupInv, MadeFits, BackupTypes
      <4>4. /\ \A a \in kept : \E k \in made : k.at = a.at
            /\ \A a \in kept, k \in made : (\A b \in kept : b.at # k.at) => k.at < a.at
            /\ OldestIsKnown(kept)
            /\ Cardinality(kept) = IF Cardinality(made) < MaxKept THEN Cardinality(made) ELSE MaxKept
        BY <4>2 DEF BackupInv, KeptFits
      <4> HIDE DEF mark, kept
      <4>5. \A a \in kept : a.at \in Nat /\ a.at < now
        BY <4>3, <4>4
      <4>6. OldestIsKnown(kept \cup {new})
        BY <2>2, <2>4, <4>4, <4>5, OldestAfterAddition
      <4>7. \A a \in kept \cup {new} : \E k \in made' : k.at = a.at
        BY <2>4, <4>1, <4>4
      <4>8. ASSUME NEW a \in kept \cup {new}, NEW k \in made', \A b \in kept \cup {new} : b.at # k.at
            PROVE  k.at < a.at
        <5>1. k \in made
          BY <2>4, <4>1, <4>8
        <5> QED BY <2>4, <4>3, <4>4, <4>8, <5>1
      <4>9. /\ Cardinality(made') = Cardinality(made) + 1 /\ Cardinality(made) \in Nat
            /\ Cardinality(kept \cup {new}) = Cardinality(kept) + 1
        <5>1. mark \notin made /\ new \notin kept
          BY <2>2, <2>4, <4>1, <4>3, <4>5
        <5> QED BY <4>1, <5>1, FS_AddElement, FS_CardinalityType
      <4>10. Cardinality(kept \cup {new}) = IF Cardinality(made') < MaxKept + 1 THEN Cardinality(made') ELSE MaxKept + 1
        BY <4>4, <4>9 DEF BackupBounds
      <4> QED BY <4>1, <4>2, <4>6, <4>7, <4>8, <4>10 DEF KeptFits
    <3> QED BY <3>1, <3>2
  <2> QED BY <2>6, <2>7, <2>9, <2>10, <2>11, <2>12 DEF BackupInv
<1> QED BY <1>2, <1>3

LEMMA CleanupFits ==
  ASSUME BackupBounds, BackupInv, NEW m \in Makers, Cleanup(m)
  PROVE  BackupInv'
<1> DEFINE kept == Autos(archives)
<1>1. /\ UNCHANGED <<now, verge, settings, sent, refreshing, runner, began, last_backup, made, byHand>>
      /\ maker[m] = "clean" /\ m # User /\ Unlocks(m)
      /\ archives' = IF Cardinality(kept) =< MaxKept THEN archives ELSE archives \ Oldest(kept)
  BY DEF Cleanup, BackupInv, LockHeld
<1>2. /\ maker \in [Makers -> {"sleep", "idle", "asked", "wait", "create", "pack", "torn", "clean"}]
      /\ exec_lock = m /\ exec_lock' = User
  BY <1>1 DEF BackupInv, BackupTypes, AutoBackupTypeOK, LockHeld, Unlocks
<1>3. PICK s \in {"sleep", "idle"} : maker' = [maker EXCEPT ![m] = s]
  BY DEF Cleanup, Done, MovesOn
<1>4. maker'[m] = s /\ \A o \in Makers \ {m} : maker'[o] = maker[o]
  BY <1>2, <1>3
<1>5. /\ IsFiniteSet(archives) /\ IsFiniteSet(kept) /\ kept \subseteq archives /\ \A a \in kept : a.at \in Nat
      /\ Cardinality(kept) \in Nat /\ Cardinality(made) \in Nat
  BY AutosFacts, FS_Subset, FS_CardinalityType DEF BackupInv, BackupTypes
<1>6. Cleaning /\ ~Cleaning'
  BY <1>1, <1>2, <1>3, <1>4 DEF Cleaning, BackupInv, LockHeld
<1>7. /\ \A a \in kept : \E k \in made : k.at = a.at
      /\ \A a \in kept, k \in made : (\A b \in kept : b.at # k.at) => k.at < a.at
      /\ OldestIsKnown(kept)
      /\ Cardinality(kept) = IF Cardinality(made) < MaxKept + 1 THEN Cardinality(made) ELSE MaxKept + 1
  BY <1>6 DEF BackupInv, KeptFits
<1>8. archives' \subseteq archives
  BY <1>1
<1>9. BackupTypes' /\ HearsFits'
  <2>1. /\ maker' \in [Makers -> {"sleep", "idle", "asked", "wait", "create", "pack", "torn", "clean"}]
        /\ exec_lock' \in Makers
    BY <1>2, <1>3, MakersDiffer
  <2>2. IsFiniteSet(archives')
    BY <1>5, <1>8, FS_Subset
  <2> QED BY <1>1, <1>8, <2>1, <2>2 DEF BackupInv, BackupTypes, AutoBackupTypeOK, HearsFits, SchedulerHears
<1>10. LockHeld'
  BY <1>1, <1>2, <1>3, <1>4 DEF BackupInv, LockHeld
<1>11. StaysDue' /\ MadeFits' /\ ArchivesAreWhole'
  BY <1>1, <1>3, <1>4, <1>8 DEF BackupInv, StaysDue, MadeFits, BackupsAreSpaced, ArchivesAreWhole
<1>12. KeptFits'
  <2>1. CASE Cardinality(kept) =< MaxKept
    <3>1. UNCHANGED <<archives, made>>
      BY <1>1, <2>1
    <3> HIDE DEF kept
    <3>2. Cardinality(kept) = IF Cardinality(made) < MaxKept THEN Cardinality(made) ELSE MaxKept
      BY <1>5, <1>7, <2>1 DEF BackupBounds
    <3> USE DEF kept
    <3> QED BY <1>6, <1>7, <3>1, <3>2 DEF KeptFits, OldestIsKnown
  <2>2. CASE ~(Cardinality(kept) =< MaxKept)
    <3>1. Cardinality(kept) = MaxKept + 1 /\ Cardinality(made) >= MaxKept + 1
      BY <1>5, <1>7, <2>2 DEF BackupBounds
    <3>2. PICK x \in kept : Oldest(kept) = {x} /\ \A b \in kept : x.at =< b.at
      BY <1>5, <1>7, <3>1, OldestGoes DEF BackupBounds
    <3>3. Autos(archives') = kept \ {x}
      BY <1>1, <2>2, <3>2, AutosFacts
    <3> HIDE DEF kept
    <3>4. OldestIsKnown(kept \ {x})
      BY <1>5, <1>7, <3>2, OldestAfterRemoval
    <3>5. Cardinality(kept \ {x}) = MaxKept
      <4>1. IsFiniteSet(kept) /\ x \in kept
        BY <1>5, <3>2 DEF kept
      <4>2. Cardinality(kept \ {x}) = Cardinality(kept) - 1
        BY <4>1, FS_RemoveElement
      <4> QED BY <3>1, <4>2 DEF BackupBounds
    <3>6. \A b \in kept \ {x} : x.at < b.at
      BY <1>5, <1>7, <3>2 DEF OldestIsKnown
    <3>7. ASSUME NEW a \in kept \ {x}, NEW k \in made, \A b \in kept \ {x} : b.at # k.at
          PROVE  k.at < a.at
      <4>1. CASE x.at = k.at
        BY <3>6, <4>1
      <4>2. CASE x.at # k.at
        BY <1>7, <3>7, <4>2
      <4> QED BY <4>1, <4>2
    <3>8. Cardinality(kept \ {x}) = IF Cardinality(made) < MaxKept THEN Cardinality(made) ELSE MaxKept
      BY <1>5, <3>1, <3>5 DEF BackupBounds
    <3> QED BY <1>1, <1>6, <1>7, <3>3, <3>4, <3>7, <3>8 DEF KeptFits
  <2> QED BY <2>1, <2>2
<1> QED BY <1>9, <1>10, <1>11, <1>12 DEF BackupInv

-----------------------------------------------------------------------------
(* Automatic backups: the theorems *)

\* One automatic backup at a time, due when it is made and apart from the others; the archives
\* there are the newest, at most one more than are kept; the scheduler knows its settings.
THEOREM BackupsAreOrderly == BackupBounds => (BackupSpec => []BackupInv)
<1> SUFFICES ASSUME BackupBounds PROVE BackupSpec => []BackupInv
  OBVIOUS
<1>1. AutoBackupInit => BackupInv
  <2> SUFFICES ASSUME AutoBackupInit PROVE BackupInv
    OBVIOUS
  <2>1. BackupTypes /\ HearsFits
    <3>1. /\ maker \in [Makers -> {"sleep", "idle", "asked", "wait", "create", "pack", "torn", "clean"}]
          /\ exec_lock \in Makers /\ began \in [Makers -> Nat] /\ \A m \in Makers : began[m] = 0
      BY MakersDiffer DEF AutoBackupInit
    <3>2. /\ runner \in [started : BOOLEAN, current : Settings, seen : Nat, wake : Int]
          /\ runner.seen = 1 /\ runner.current = verge /\ runner.started = verge.schedule
      BY DEF AutoBackupInit, BackupBounds, Settings
    <3>3. last_backup \in Int /\ last_backup =< 0
      BY DEF AutoBackupInit, Never, BackupBounds
    <3>4. BackupTypes
      BY <3>1, <3>2, <3>3, FS_EmptySet DEF AutoBackupInit, BackupTypes, AutoBackupTypeOK
    <3>5. HearsFits
      BY <3>2 DEF AutoBackupInit, HearsFits, SchedulerHears
    <3> QED BY <3>4, <3>5
  <2>2. LockHeld /\ StaysDue /\ ~Cleaning
    BY MakersDiffer DEF AutoBackupInit, LockHeld, StaysDue, Cleaning, User, Runner
  <2>3. MadeFits /\ ArchivesAreWhole
    BY DEF AutoBackupInit, MadeFits, BackupsAreSpaced, ArchivesAreWhole
  <2>4. KeptFits
    <3>1. archives = {} /\ made = {} /\ Autos(archives) = {} /\ Cardinality(made) = 0 /\ Cardinality(Autos(archives)) = 0
      BY FS_EmptySet DEF AutoBackupInit, Autos
    <3> QED BY <2>2, <3>1 DEF BackupBounds, KeptFits, OldestIsKnown
  <2> QED BY <2>1, <2>2, <2>3, <2>4 DEF BackupInv
<1>2. BackupInv /\ [AutoBackupNext]_autoBackupVars => BackupInv'
  <2> SUFFICES ASSUME BackupInv, [AutoBackupNext]_autoBackupVars PROVE BackupInv'
    OBVIOUS
  <2>1. CASE AutoBackupNext
    BY <2>1, SettingsFit, AskingFits, LockFits, CreateFits, PackFits, CleanupFits, ByHandFits, TickFits DEF AutoBackupNext
  <2>2. CASE UNCHANGED autoBackupVars
    <3>1. UNCHANGED <<now, verge, settings, sent, refreshing, runner, maker, began, exec_lock, last_backup, archives, made, byHand>>
      BY <2>2 DEF autoBackupVars
    <3> QED BY <3>1 DEF BackupInv, BackupTypes, AutoBackupTypeOK, LockHeld, StaysDue, MadeFits, BackupsAreSpaced, KeptFits,
          OldestIsKnown, Cleaning, HearsFits, SchedulerHears, ArchivesAreWhole
  <2> QED BY <2>1, <2>2
<1> QED BY <1>1, <1>2, PTL DEF BackupSpec

\* Automatic backups are spaced, the newest stay, an archive nobody else packed beside is whole.
THEOREM BackupsAlwaysKept == BackupBounds => (BackupSpec => []AutoBackupsAreKept)
<1> SUFFICES ASSUME BackupBounds PROVE BackupSpec => []AutoBackupsAreKept
  OBVIOUS
<1>1. BackupInv => AutoBackupsAreKept
  <2> SUFFICES ASSUME BackupInv PROVE AutoBackupsAreKept
    OBVIOUS
  <2>1. ASSUME exec_lock = User PROVE ~Cleaning
    BY <2>1 DEF BackupInv, LockHeld, Cleaning
  <2>2. NewestAreKept
    BY <2>1 DEF BackupInv, KeptFits, NewestAreKept
  <2> QED BY <2>2 DEF BackupInv, BackupTypes, MadeFits, HearsFits, AutoBackupsAreKept
<1> QED BY <1>1, BackupsAreOrderly, PTL

-----------------------------------------------------------------------------
(* Backups and restores together *)

\* Automatic backups are made when they are due and kept while they are new; a restore leaves
\* layers, files and credentials that agree.
THEOREM BackupsAlwaysAgree ==
    BackupBounds /\ RestoreBounds => (BackupSpec /\ RestoreSpec => []BackupsAgree)
<1>1. AutoBackupsAreKept /\ RestoresAgree => BackupsAgree
  BY DEF BackupsAgree
<1> QED BY <1>1, BackupsAlwaysKept, RestoresAlwaysAgree, PTL

=============================================================================
