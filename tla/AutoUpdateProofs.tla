-------------------------- MODULE AutoUpdateProofs --------------------------
(***************************************************************************)
(* Theorems about what keeps profiles, core and application up to date:    *)
(* AutoUpdate, for every set of profiles, commands, keys, intervals and    *)
(* options; CoreUpgrade and AppUpdate, for every number of upgrades, of    *)
(* releases, of failures and of calls.                                     *)
(***************************************************************************)
EXTENDS AutoUpdate, Releases, SequenceTheorems, TLAPS

-----------------------------------------------------------------------------
(* Types *)

LEMMA MapType ==
    ASSUME NEW S \in SUBSET Profiles, NEW f \in [S -> Positive]
    PROVE  f \in Maps
BY DEF Maps

LEMMA MapFacts ==
    ASSUME NEW m \in Maps
    PROVE  /\ DOMAIN m \subseteq Profiles
           /\ \A u \in DOMAIN m : m[u] \in Positive
           /\ m = [u \in DOMAIN m |-> m[u]]
<1>1. PICK S \in SUBSET Profiles : m \in [S -> Positive]
  BY DEF Maps
<1>2. DOMAIN m = S /\ m = [u \in S |-> m[u]]
  BY <1>1
<1>3. \A u \in S : m[u] \in Positive
  BY <1>1
<1>. QED BY <1>2, <1>3

LEMMA NoMapType == NoMap \in Maps
<1>1. {} \in SUBSET Profiles /\ NoMap \in [{} -> Positive]
  BY DEF NoMap
<1>. QED BY <1>1, MapType

\* The schedule read from the options, for any set of enabled profiles.
LEMMA PlanType ==
    ASSUME TypeOK, NEW S \in SUBSET EnabledProfiles
    PROVE  [u \in S |-> config[u].interval] \in Maps
<1>1. \A u \in EnabledProfiles : config[u].interval \in Positive
  BY DEF TypeOK, EnabledProfiles, Enabled, Options, Positive
<1>2. S \subseteq Profiles /\ [u \in S |-> config[u].interval] \in [S -> Positive]
  BY <1>1 DEF EnabledProfiles
<1>. QED BY <1>2, MapType

\* The three kinds of command.
LEMMA CommandFacts ==
    /\ \A m \in Maps : Apply(m) \in Commands
    /\ \A u \in Profiles : RunNow(u) \in Commands /\ TaskFinished(u) \in Commands
    /\ \A x \in Commands :
          /\ x.kind = "Apply" => x.map \in Maps /\ \A u : x # TaskFinished(u)
          /\ x.kind \in {"RunNow", "TaskFinished"} => x.uid \in Profiles
          /\ x.kind = "RunNow" => \A u : x # TaskFinished(u)
          /\ x.kind = "TaskFinished" => x = TaskFinished(x.uid)
          /\ x.kind \in {"Apply", "RunNow", "TaskFinished"}
BY DEF Commands, Apply, RunNow, TaskFinished

\* What is left of the channel after the head was taken.
LEMMA TailFacts ==
    ASSUME commands \in Seq(Commands), commands # <<>>, commands' = Tail(commands)
    PROVE  /\ commands' \in Seq(Commands) /\ Head(commands) \in Commands
           /\ Head(commands) = commands[1]
           /\ Len(commands) \in Nat /\ Len(commands) > 0
           /\ DOMAIN commands = 1 .. Len(commands)
           /\ DOMAIN commands' = 1 .. Len(commands) - 1
           /\ \A i \in 1 .. Len(commands) - 1 : commands'[i] = commands[i + 1]
OBVIOUS

LEMMA AppendFacts ==
    ASSUME commands \in Seq(Commands), NEW x \in Commands, commands' = Append(commands, x)
    PROVE  /\ commands' \in Seq(Commands) /\ Len(commands) \in Nat
           /\ DOMAIN commands = 1 .. Len(commands)
           /\ DOMAIN commands' = 1 .. Len(commands) + 1
           /\ \A i \in 1 .. Len(commands) : commands'[i] = commands[i]
           /\ commands'[Len(commands) + 1] = x
OBVIOUS

LEMMA SetOptionType ==
    ASSUME TypeOK, NEW u \in Profiles, NEW option \in Options \cup {Deleted}, NEW r \in BOOLEAN,
           SetOption(u, option, r)
    PROVE  config' \in [Profiles -> Options \cup {Deleted}] /\ announced' \in [Profiles -> BOOLEAN]
<1>1. announced[u] \in BOOLEAN
  BY DEF TypeOK
<1>2. (r \/ (announced[u] /\ option = config[u])) \in BOOLEAN
  BY <1>1
<1>. QED BY <1>2 DEF TypeOK, SetOption

LEMMA LandType ==
    ASSUME TypeOK, NEW u \in Profiles, NEW captured \in Options,
           Land(u, captured) \/ UNCHANGED profileVars
    PROVE  config' \in [Profiles -> Options \cup {Deleted}] /\ announced' \in [Profiles -> BOOLEAN]
<1>1. CASE UNCHANGED profileVars
  BY <1>1 DEF profileVars, TypeOK
<1>2. CASE Land(u, captured) /\ config[u] # Deleted
  <2>1. PICK header \in Intervals \cup {None} :
            SetOption(u, Merge(config[u], Fetched(captured, header)), FALSE)
    BY <1>2 DEF Land
  <2>2. config[u] \in Options
    BY <1>2 DEF TypeOK
  <2>3. Fetched(captured, header) \in Options
    BY DEF Fetched, Options
  <2>4. Merge(config[u], Fetched(captured, header)) \in Options
    BY <2>2, <2>3 DEF Merge, Options
  <2>. QED BY <2>1, <2>4, SetOptionType
<1>. QED BY <1>1, <1>2 DEF Land

\* What a command or an update carries from one step to a later one.
CallersType ==
    /\ callers \in [Refreshers -> Caller]
    /\ \A c \in Refreshers : callers[c].phase \in {"patching", "fetching"} =>
          callers[c].uid \in Profiles /\ callers[c].option \in Options

JobsType ==
    /\ jobs \in [Profiles -> Seq(Job)]
    /\ \A u \in Profiles : \A i \in DOMAIN jobs[u] :
          jobs[u][i].phase = "fetching" => jobs[u][i].option \in Options

TypeInv == TypeOK /\ CallersType /\ JobsType

LEMMA GotoType ==
    ASSUME TypeInv, NEW c \in Refreshers, NEW phase \in CallerPhases \ {"patching", "fetching"},
           Goto(c, phase)
    PROVE  CallersType'
<1>1. callers' \in [Refreshers -> Caller]
  BY DEF TypeInv, TypeOK, Goto, Caller
<1>2. \A d \in Refreshers : d # c => callers'[d] = callers[d]
  BY DEF TypeInv, TypeOK, Goto
<1>3. callers'[c].phase = phase
  BY DEF TypeInv, TypeOK, Goto
<1>. QED BY <1>1, <1>2, <1>3 DEF TypeInv, CallersType

\* A command replaced by another record.
LEMMA CallerType ==
    ASSUME TypeInv, NEW c \in Refreshers, NEW r \in Caller, callers' = [callers EXCEPT ![c] = r],
           r.phase \in {"patching", "fetching"} => r.uid \in Profiles /\ r.option \in Options
    PROVE  CallersType'
BY DEF TypeInv, TypeOK, CallersType

LEMMA IdleType == Idle \in Caller
BY NoMapType DEF Idle, Caller, CallerPhases

LEMMA CommandPreservesType ==
    ASSUME TypeInv, NEW c \in Callers, Command(c) \/ PatchCommit(c) \/ ManualEnd(c)
    PROVE  TypeInv'
<1>. USE DEF Refreshers
<1>0. TypeOK
  BY DEF TypeInv
<1>1. ASSUME NEW u \in Profiles, NEW option \in Offered, PatchCompare(c, u, option) PROVE TypeInv'
  <2>1. option \in Options
    BY AutoUpdateAssumption
  <2>. DEFINE r == [Idle EXCEPT !.phase = "patching", !.uid = u, !.option = option,
                                !.refresh = config[u] # Deleted /\ config[u] # option]
  <2>2. r \in Caller /\ r.uid = u /\ r.option = option
    BY <2>1, IdleType DEF Caller, CallerPhases
  <2>4. callers' = [callers EXCEPT ![c] = r]
    BY <1>1 DEF PatchCompare
  <2>. HIDE DEF r
  <2>3. CallersType'
    BY <2>1, <2>2, <2>4, CallerType
  <2>. QED BY <1>1, <2>3 DEF PatchCompare, TypeInv, TypeOK, CallersType, JobsType, profileVars, schedulerVars
<1>2. ASSUME NEW u \in Profiles, DeleteProfile(c, u) PROVE TypeInv'
  <2>1. CallersType'
    BY <1>2, GotoType DEF DeleteProfile, CallerPhases
  <2>2. config' \in [Profiles -> Options \cup {Deleted}] /\ announced' \in [Profiles -> BOOLEAN]
    BY <1>2, <1>0, SetOptionType DEF DeleteProfile
  <2>. QED BY <1>2, <2>1, <2>2 DEF DeleteProfile, TypeInv, TypeOK, CallersType, JobsType, schedulerVars
<1>3. ASSUME NEW u \in Profiles, ManualStart(c, u) PROVE TypeInv'
  <2>1. config[u] \in Options
    BY <1>0, <1>3 DEF ManualStart, TypeOK
  <2>. DEFINE r == [Idle EXCEPT !.phase = "fetching", !.uid = u, !.option = config[u]]
  <2>2. r \in Caller /\ r.uid = u /\ r.option = config[u]
    BY <2>1, IdleType DEF Caller, CallerPhases
  <2>4. callers' = [callers EXCEPT ![c] = r]
    BY <1>3 DEF ManualStart
  <2>. HIDE DEF r
  <2>3. CallersType'
    BY <2>1, <2>2, <2>4, CallerType
  <2>. QED BY <1>3, <2>3 DEF ManualStart, TypeInv, TypeOK, CallersType, JobsType, profileVars, schedulerVars
<1>4. CASE CallRefresh(c)
  <2>1. CallersType'
    BY <1>4, GotoType DEF CallRefresh, CallerPhases
  <2>. QED BY <1>4, <2>1 DEF CallRefresh, TypeInv, TypeOK, CallersType, JobsType, profileVars, schedulerVars
<1>5. CASE PatchCommit(c)
  <2>1. CallersType'
    BY <1>5, GotoType DEF PatchCommit, CallerPhases
  <2>2. config' \in [Profiles -> Options \cup {Deleted}] /\ announced' \in [Profiles -> BOOLEAN]
    BY <1>5, <1>0, SetOptionType DEF PatchCommit, profileVars, TypeOK, TypeInv, CallersType, Caller, At
  <2>. QED BY <1>5, <2>1, <2>2 DEF PatchCommit, TypeInv, TypeOK, CallersType, JobsType, schedulerVars
<1>6. CASE ManualEnd(c)
  <2>1. CallersType'
    BY <1>6, GotoType DEF ManualEnd, CallerPhases
  <2>2. config' \in [Profiles -> Options \cup {Deleted}] /\ announced' \in [Profiles -> BOOLEAN]
    BY <1>6, <1>0, LandType DEF ManualEnd, TypeInv, CallersType, At
  <2>. QED BY <1>6, <2>1, <2>2 DEF ManualEnd, TypeInv, TypeOK, CallersType, JobsType, schedulerVars
<1>. QED BY <1>1, <1>2, <1>3, <1>4, <1>5, <1>6 DEF Command

LEMMA RefreshPreservesType ==
    ASSUME TypeInv, NEW c \in Refreshers, RefreshStep(c)
    PROVE  TypeInv'
<1>0. TypeOK /\ callers[c] \in Caller
  BY DEF TypeInv, TypeOK
<1>1. CASE LockRefresh(c)
  <2>1. CallersType'
    BY <1>1, GotoType DEF LockRefresh, CallerPhases
  <2>. QED BY <1>1, <2>1 DEF LockRefresh, TypeInv, TypeOK, CallersType, JobsType, profileVars, schedulerVars
<1>2. CASE GenMap(c)
  <2>1. PICK m \in Maps : m = [u \in EnabledProfiles |-> config[u].interval]
    BY <1>0, PlanType
  <2>. DEFINE r == [callers[c] EXCEPT !.phase = "planned", !.map = m]
  <2>2. r \in Caller /\ r.phase = "planned"
    BY <1>0, <2>1 DEF Caller, CallerPhases
  <2>3. callers' = [callers EXCEPT ![c] = r]
    BY <1>2, <2>1 DEF GenMap
  <2>. HIDE DEF r
  <2>4. CallersType'
    BY <2>2, <2>3, CallerType
  <2>. QED BY <1>2, <2>4 DEF GenMap, TypeInv, TypeOK, CallersType, JobsType, profileVars, schedulerVars
<1>3. CASE PublishMap(c)
  <2>1. CallersType'
    BY <1>3, GotoType DEF PublishMap, CallerPhases
  <2>2. callers[c].map \in Maps
    BY <1>0 DEF Caller
  <2>3. commands' \in Seq(Commands)
    BY <1>0, <1>3, <2>2, CommandFacts, AppendFacts DEF PublishMap, TypeOK
  <2>. QED BY <1>3, <2>1, <2>2, <2>3 DEF PublishMap, TypeInv, TypeOK, CallersType, JobsType, profileVars, schedulerVars
<1>. QED BY <1>1, <1>2, <1>3 DEF RefreshStep

LEMMA InitStepPreservesType ==
    ASSUME TypeInv, InitStep
    PROVE  TypeInv'
<1>0. TypeOK /\ Boot \in Refreshers /\ callers[Boot] \in Caller
  BY DEF TypeInv, TypeOK, Refreshers
<1>1. CASE StartInit
  <2>1. CallersType'
    BY <1>0, <1>1, GotoType DEF StartInit, CallerPhases
  <2>. QED BY <1>1, <2>1 DEF StartInit, TypeInv, TypeOK, CallersType, JobsType, profileVars, schedulerVars
<1>2. CASE FindOverdue
  <2>1. PICK due \in SUBSET EnabledProfiles :
            callers' = [callers EXCEPT ![Boot].phase = "running",
                                       ![Boot].map = [u \in due |-> config[u].interval]]
    BY <1>2 DEF FindOverdue
  <2>2. PICK m \in Maps : m = [u \in due |-> config[u].interval]
    BY <1>0, PlanType
  <2>. DEFINE r == [callers[Boot] EXCEPT !.phase = "running", !.map = m]
  <2>3. r \in Caller /\ r.phase = "running"
    BY <1>0, <2>2 DEF Caller, CallerPhases
  <2>4. callers' = [callers EXCEPT ![Boot] = r]
    BY <2>1, <2>2
  <2>. HIDE DEF r
  <2>5. CallersType'
    BY <1>0, <2>3, <2>4, CallerType
  <2>. QED BY <1>2, <2>5 DEF FindOverdue, TypeInv, TypeOK, CallersType, JobsType, profileVars, schedulerVars
<1>3. ASSUME NEW u \in Profiles, RunOverdue(u) PROVE TypeInv'
  <2>1. PICK due \in Maps : due = callers[Boot].map
    BY <1>0 DEF Caller
  <2>2. PICK m \in Maps : m = [v \in DOMAIN due \ {u} |-> due[v]]
    <3>1. DOMAIN due \ {u} \in SUBSET Profiles /\ \A v \in DOMAIN due \ {u} : due[v] \in Positive
      BY MapFacts
    <3>. QED BY <3>1, MapType
  <2>. DEFINE r == [callers[Boot] EXCEPT !.map = m]
  <2>3. r \in Caller /\ r.phase = "running"
    BY <1>0, <1>3, <2>2 DEF Caller, RunOverdue, At
  <2>4. callers' = [callers EXCEPT ![Boot] = r]
    BY <1>3, <2>1, <2>2 DEF RunOverdue
  <2>. HIDE DEF r
  <2>5. CallersType'
    BY <1>0, <2>3, <2>4, CallerType
  <2>6. commands' \in Seq(Commands)
    BY <1>0, <1>3, CommandFacts, AppendFacts DEF RunOverdue, TypeOK
  <2>. QED BY <1>3, <2>5, <2>6 DEF RunOverdue, TypeInv, TypeOK, CallersType, JobsType, profileVars, schedulerVars
<1>. QED BY <1>1, <1>2, <1>3 DEF InitStep

-----------------------------------------------------------------------------
(* The scheduler's queue and tasks.  A free key exists because a profile has at
   most one entry in the queue, so types and entries are shown together. *)

TaskFits(u) ==
    /\ queue[u] = {tasks[u].key} \ {None}
    /\ tasks[u].known => (tasks[u].key = None <=> tasks[u].running)
    /\ tasks[u].retired => tasks[u].running
    /\ ~tasks[u].known => tasks[u] = NoTask

QueueInv == \A u \in Profiles : TaskFits(u)

LEMMA FreshKeyFacts ==
    ASSUME QueueInv, NEW u \in Profiles
    PROVE  FreshKey(u) \in Keys /\ FreshKey(u) \notin queue[u] /\ FreshKey(u) # None
<1>1. \E k \in Keys : k \notin queue[u]
  BY AutoUpdateAssumption DEF QueueInv, TaskFits
<1>. QED BY <1>1, AutoUpdateAssumption DEF FreshKey

LEMMA NoTaskFacts ==
    /\ NoTask \in Task /\ NoTask.key = None /\ ~NoTask.known /\ ~NoTask.running /\ ~NoTask.retired
BY DEF NoTask, Task

\* Every branch of a new map leaves a task that fits.
LEMMA RescheduledFits ==
    ASSUME TypeInv, QueueInv, NEW m \in Maps, NEW u \in Profiles
    PROVE  LET t == Rescheduled(u, m) IN
           /\ t \in Task
           /\ t.known => (t.key = None <=> t.running)
           /\ t.retired => t.running
           /\ ~t.known => t = NoTask
           /\ t.running <=> tasks[u].running
<1>. USE NoTaskFacts
<1>0. tasks[u] \in Task /\ TaskFits(u)
  BY DEF TypeInv, TypeOK, QueueInv
<1>1. FreshKey(u) \in Keys /\ FreshKey(u) # None
  BY FreshKeyFacts
<1>2. CASE u \notin DOMAIN m
  BY <1>0, <1>2 DEF Rescheduled, Removed, Task, TaskFits
<1>3. CASE u \in DOMAIN m /\ ~tasks[u].known
  <2>1. m[u] \in Intervals \cup {None}
    BY <1>3, MapFacts DEF Positive
  <2>. QED BY <1>0, <1>1, <1>3, <2>1 DEF Rescheduled, Inserted, Task, TaskFits
<1>4. CASE u \in DOMAIN m /\ tasks[u].known
  <2>1. m[u] \in Intervals \cup {None}
    BY <1>4, MapFacts DEF Positive
  <2>2. PICK k \in Keys \cup {None} :
            /\ Rescheduled(u, m) = [tasks[u] EXCEPT !.retired = FALSE, !.interval = m[u], !.key = k]
            /\ k = None <=> tasks[u].key = None
    <3>1. tasks[u].key = None => tasks[u].running
      BY <1>0, <1>4 DEF TaskFits
    <3>2. Rescheduled(u, m) = [tasks[u] EXCEPT !.retired = FALSE, !.interval = m[u], !.key = tasks[u].key]
      BY <1>0, <1>4, <3>1 DEF Rescheduled, Task
    <3>. QED BY <1>0, <3>2 DEF Task
  <2>. QED BY <1>0, <1>4, <2>1, <2>2 DEF Task, TaskFits
<1>. QED BY <1>2, <1>3, <1>4

\* A step that changes the task and the entries of one profile.
LEMMA OneTaskFits ==
    ASSUME TypeInv, QueueInv, NEW u \in Profiles, NEW t \in Task, NEW q \in SUBSET Keys,
           tasks' = [tasks EXCEPT ![u] = t], queue' = [queue EXCEPT ![u] = q],
           q = {t.key} \ {None}, t.known => (t.key = None <=> t.running),
           t.retired => t.running, ~t.known => t = NoTask
    PROVE  QueueInv' /\ tasks' \in [Profiles -> Task] /\ queue' \in [Profiles -> SUBSET Keys]
<1>1. tasks' \in [Profiles -> Task] /\ queue' \in [Profiles -> SUBSET Keys]
  BY DEF TypeInv, TypeOK
<1>2. ASSUME NEW v \in Profiles PROVE TaskFits(v)'
  <2>1. CASE v = u
    BY <2>1 DEF TypeInv, TypeOK, TaskFits
  <2>2. CASE v # u
    BY <2>2 DEF TypeInv, TypeOK, TaskFits, QueueInv
  <2>. QED BY <2>1, <2>2
<1>. QED BY <1>1, <1>2 DEF QueueInv

LEMMA ApplyFits ==
    ASSUME TypeInv, QueueInv, ReceiveApply
    PROVE  QueueInv' /\ tasks' \in [Profiles -> Task] /\ queue' \in [Profiles -> SUBSET Keys]
<1>1. PICK m \in Maps : m = Head(commands).map
  BY CommandFacts, TailFacts DEF ReceiveApply, Receive, TypeInv, TypeOK
<1>2. ASSUME NEW u \in Profiles
      PROVE  /\ tasks'[u] = Rescheduled(u, m)
             /\ queue'[u] = (queue[u] \ {tasks[u].key}) \cup ({Rescheduled(u, m).key} \ {None})
  BY <1>1 DEF ReceiveApply
<1>3. ASSUME NEW u \in Profiles
      PROVE  TaskFits(u)' /\ tasks'[u] \in Task /\ queue'[u] \in SUBSET Keys
  <2>1. queue[u] \ {tasks[u].key} = {}
    BY DEF QueueInv, TaskFits
  <2>2. queue'[u] = {tasks'[u].key} \ {None}
    BY <1>2, <2>1
  <2>3. tasks'[u] \in Task
    BY <1>2, RescheduledFits
  <2>4. PICK t \in Task : t = Rescheduled(u, m) /\ tasks'[u] = t
    BY <1>2, <2>3
  <2>5. /\ t.known => (t.key = None <=> t.running)
        /\ t.retired => t.running
        /\ ~t.known => t = NoTask
    BY <2>4, RescheduledFits
  <2>6. TaskFits(u)'
    BY <2>2, <2>4, <2>5 DEF TaskFits, NoTask
  <2>. QED BY <2>2, <2>3, <2>6 DEF Task
<1>4. /\ tasks' = [u \in Profiles |-> tasks'[u]]
      /\ queue' = [u \in Profiles |-> queue'[u]]
  BY DEF ReceiveApply
<1>. QED BY <1>3, <1>4 DEF QueueInv

\* A task that runs is known and has no entry.
LEMMA RunningTask ==
    ASSUME TypeInv, QueueInv, NEW u \in Profiles
    PROVE  /\ tasks[u] \in Task /\ queue[u] = {tasks[u].key} \ {None}
           /\ tasks[u].running => tasks[u].known /\ tasks[u].key = None /\ queue[u] = {}
           /\ ~tasks[u].known => ~tasks[u].running /\ queue[u] = {}
<1>1. tasks[u] \in Task /\ TaskFits(u)
  BY DEF TypeInv, TypeOK, QueueInv
<1>2. tasks[u].running \in BOOLEAN /\ tasks[u].known \in BOOLEAN
  BY <1>1 DEF Task
<1>. QED BY <1>1, <1>2, NoTaskFacts DEF TaskFits

LEMMA RunNowFits ==
    ASSUME TypeInv, QueueInv, ReceiveRunNow
    PROVE  QueueInv' /\ tasks' \in [Profiles -> Task] /\ queue' \in [Profiles -> SUBSET Keys]
<1>1. PICK u \in Profiles : u = Head(commands).uid
  BY CommandFacts, TailFacts DEF ReceiveRunNow, Receive, TypeInv, TypeOK
<1>2. CASE tasks[u].known /\ ~tasks[u].running
  <2>. DEFINE t == [tasks[u] EXCEPT !.running = TRUE, !.key = None]
              q == queue[u] \ {tasks[u].key}
  <2>1. t \in Task /\ t.known /\ t.running /\ t.key = None /\ q = {}
    BY <1>2, RunningTask DEF Task
  <2>2. tasks' = [tasks EXCEPT ![u] = t] /\ queue' = [queue EXCEPT ![u] = q]
    BY <1>1, <1>2 DEF ReceiveRunNow
  <2>. HIDE DEF t, q
  <2>. QED BY <2>1, <2>2, OneTaskFits
<1>3. CASE ~(tasks[u].known /\ ~tasks[u].running)
  <2>1. UNCHANGED schedulerVars
    BY <1>1, <1>3 DEF ReceiveRunNow
  <2>. QED BY <2>1 DEF schedulerVars, QueueInv, TaskFits, TypeInv, TypeOK
<1>. QED BY <1>2, <1>3

LEMMA FinishedFits ==
    ASSUME TypeInv, QueueInv, ReceiveTaskFinished,
           NEW u \in Profiles, u = Head(commands).uid, tasks[u].running
    PROVE  QueueInv' /\ tasks' \in [Profiles -> Task] /\ queue' \in [Profiles -> SUBSET Keys]
<1>1. tasks[u] \in Task /\ tasks[u].known /\ queue[u] = {}
  BY RunningTask
<1>2. CASE tasks[u].retired
  <2>1. tasks' = [tasks EXCEPT ![u] = NoTask] /\ queue' = [queue EXCEPT ![u] = {}]
    BY <1>1, <1>2 DEF ReceiveTaskFinished, TypeInv, TypeOK
  <2>. QED BY <2>1, NoTaskFacts, OneTaskFits
<1>3. CASE ~tasks[u].retired
  <2>1. PICK k \in Keys : k = FreshKey(u) /\ k # None
    BY FreshKeyFacts
  <2>. DEFINE t == [tasks[u] EXCEPT !.running = FALSE, !.key = k]
  <2>2. t \in Task /\ t.known /\ ~t.running /\ ~t.retired /\ t.key = k
    BY <1>1, <1>3, <2>1 DEF Task
  <2>3. tasks' = [tasks EXCEPT ![u] = t] /\ queue' = [queue EXCEPT ![u] = {k}]
    BY <1>1, <1>3, <2>1 DEF ReceiveTaskFinished
  <2>. HIDE DEF t
  <2>4. {k} \in SUBSET Keys /\ {k} = {t.key} \ {None} /\ (t.known => (t.key = None <=> t.running))
    BY <2>1, <2>2
  <2>5. t.retired => t.running
    BY <2>2
  <2>6. ~t.known => t = NoTask
    BY <2>2
  <2>. QED BY <2>2, <2>3, <2>4, <2>5, <2>6, OneTaskFits
<1>. QED BY <1>2, <1>3

\* An entry that fires belongs to a task that does not run.
LEMMA ExpireFits ==
    ASSUME TypeInv, QueueInv, NEW u \in Profiles, NEW k \in Keys, Expire(u, k)
    PROVE  /\ QueueInv' /\ tasks' \in [Profiles -> Task] /\ queue' \in [Profiles -> SUBSET Keys]
           /\ tasks[u].known /\ ~tasks[u].running
<1>1. k \in queue[u] /\ tasks[u] \in Task /\ tasks[u].known /\ ~tasks[u].running /\ queue[u] = {k}
  BY RunningTask DEF Expire
<1>. DEFINE t == [tasks[u] EXCEPT !.key = None, !.running = TRUE]
<1>2. t \in Task /\ t.known /\ t.running /\ t.key = None
  BY <1>1 DEF Task
<1>3. tasks' = [tasks EXCEPT ![u] = t] /\ queue' = [queue EXCEPT ![u] = {}]
  BY <1>1 DEF Expire
<1>. HIDE DEF t
<1>. QED BY <1>1, <1>2, <1>3, OneTaskFits

-----------------------------------------------------------------------------
(* One update at a time *)

Reports(u) == {i \in DOMAIN commands : commands[i] = TaskFinished(u)}

OneFor(u) ==
    /\ Len(jobs[u]) <= 1
    /\ \A i, j \in Reports(u) : i = j
    /\ Reports(u) # {} => jobs[u] = <<>>
    /\ tasks[u].running <=> (jobs[u] # <<>> \/ Reports(u) # {})

LEMMA OneUpdateFor == OneUpdateAtATime <=> \A u \in Profiles : OneFor(u)
BY DEF OneUpdateAtATime, OneFor, Reports

\* A command taken that is no report of u leaves its reports, one place further on.
LEMMA ReportsTail ==
    ASSUME TypeInv, NEW u \in Profiles, OneFor(u), commands # <<>>, commands' = Tail(commands),
           Head(commands) # TaskFinished(u)
    PROVE  /\ Reports(u)' = {} <=> Reports(u) = {}
           /\ (\A i, j \in Reports(u) : i = j)'
<1>1. commands \in Seq(Commands)
  BY DEF TypeInv, TypeOK
<1>2. \A i \in Reports(u)' : i \in Nat /\ i + 1 \in Reports(u)
  BY <1>1, TailFacts DEF Reports
<1>3. \A i \in Reports(u) : i \in Nat /\ i - 1 \in Reports(u)'
  <2>1. ASSUME NEW i \in Reports(u) PROVE i \in Nat /\ i - 1 \in Reports(u)'
    <3>1. i \in 1 .. Len(commands) /\ i # 1 /\ commands[i] = TaskFinished(u)
      BY <1>1, TailFacts DEF Reports
    <3>2. i - 1 \in 1 .. Len(commands) - 1 /\ (i - 1) + 1 = i
      BY <1>1, <3>1, TailFacts
    <3>. QED BY <1>1, <3>1, <3>2, TailFacts DEF Reports
  <2>. QED BY <2>1
<1>4. \A i, j \in Reports(u)' : i = j
  <2>1. ASSUME NEW i \in Reports(u)', NEW j \in Reports(u)' PROVE i = j
    <3>1. i + 1 = j + 1 /\ i \in Nat /\ j \in Nat
      BY <1>2 DEF OneFor
    <3>. QED BY <3>1
  <2>. QED BY <2>1
<1>. QED BY <1>2, <1>3, <1>4

\* The report taken was the only one.
LEMMA ReportTaken ==
    ASSUME TypeInv, NEW u \in Profiles, OneFor(u), commands # <<>>, commands' = Tail(commands),
           Head(commands) = TaskFinished(u)
    PROVE  Reports(u) # {} /\ Reports(u)' = {}
<1>1. commands \in Seq(Commands)
  BY DEF TypeInv, TypeOK
<1>2. 1 \in Reports(u)
  BY <1>1, TailFacts DEF Reports
<1>3. ASSUME NEW i \in Reports(u)' PROVE FALSE
  <2>1. i \in Nat /\ i > 0 /\ i + 1 \in Reports(u)
    BY <1>1, <1>3, TailFacts DEF Reports
  <2>. QED BY <1>2, <2>1 DEF OneFor
<1>. QED BY <1>2, <1>3

LEMMA ReportsAppend ==
    ASSUME TypeInv, NEW u \in Profiles, NEW x \in Commands, commands' = Append(commands, x)
    PROVE  /\ x # TaskFinished(u) => Reports(u)' = Reports(u)
           /\ x = TaskFinished(u) => Reports(u)' = Reports(u) \cup {Len(commands) + 1}
<1>1. commands \in Seq(Commands)
  BY DEF TypeInv, TypeOK
<1>. QED BY <1>1, AppendFacts DEF Reports

\* A step that leaves the update of u where it stands.
LEMMA OneKept ==
    ASSUME NEW u \in Profiles, OneFor(u), jobs'[u] = jobs[u], tasks'[u].running <=> tasks[u].running,
           Reports(u)' = {} <=> Reports(u) = {}, (\A i, j \in Reports(u) : i = j)'
    PROVE  OneFor(u)'
BY DEF OneFor

LEMMA SpawnFacts ==
    ASSUME JobsType, NEW u \in Profiles, Spawn(u)
    PROVE  /\ JobsType' /\ jobs' \in [Profiles -> Seq(Job)]
           /\ \A v \in Profiles : v # u => jobs'[v] = jobs[v]
           /\ jobs[u] = <<>> => Len(jobs'[u]) = 1 /\ jobs'[u] # <<>>
<1>. DEFINE j == [phase |-> "starting", option |-> None]
<1>1. j \in Job /\ j.phase # "fetching"
  BY DEF Job
<1>2. jobs' = [jobs EXCEPT ![u] = Append(@, j)]
  BY DEF Spawn
<1>. HIDE DEF j
<1>3. jobs[u] \in Seq(Job)
  BY DEF JobsType
<1>4. /\ Append(jobs[u], j) \in Seq(Job)
      /\ DOMAIN Append(jobs[u], j) = 1 .. Len(jobs[u]) + 1
      /\ DOMAIN jobs[u] = 1 .. Len(jobs[u])
      /\ \A i \in 1 .. Len(jobs[u]) : Append(jobs[u], j)[i] = jobs[u][i]
      /\ Append(jobs[u], j)[Len(jobs[u]) + 1] = j
      /\ Len(jobs[u]) \in Nat
      /\ Len(Append(jobs[u], j)) = Len(jobs[u]) + 1
  BY <1>1, <1>3
<1>5. jobs' \in [Profiles -> Seq(Job)]
  BY <1>2, <1>4 DEF JobsType
<1>6. \A v \in Profiles : v # u => jobs'[v] = jobs[v]
  BY <1>2 DEF JobsType
<1>7. jobs'[u] = Append(jobs[u], j)
  BY <1>2 DEF JobsType
<1>8. ASSUME NEW v \in Profiles, NEW i \in DOMAIN jobs'[v], jobs'[v][i].phase = "fetching"
      PROVE  jobs'[v][i].option \in Options
  <2>1. CASE v # u
    BY <1>6, <1>8, <2>1 DEF JobsType
  <2>2. CASE v = u
    <3>1. i \in 1 .. Len(jobs[u]) + 1
      BY <1>4, <1>7, <2>2
    <3>2. i # Len(jobs[u]) + 1
      BY <1>1, <1>4, <1>7, <1>8, <2>2
    <3>3. i \in 1 .. Len(jobs[u])
      BY <1>4, <3>1, <3>2
    <3>. QED BY <1>4, <1>7, <1>8, <2>2, <3>3 DEF JobsType
  <2>. QED BY <2>1, <2>2
<1>9. jobs[u] = <<>> => Len(jobs'[u]) = 1 /\ jobs'[u] # <<>>
  BY <1>4, <1>7
<1>. QED BY <1>5, <1>6, <1>8, <1>9 DEF JobsType

-----------------------------------------------------------------------------
(* Types, entries and single updates, together *)

CoreInv == TypeInv /\ QueueInv /\ OneUpdateAtATime

\* A step that leaves the profiles and the refreshes alone.
LEMMA OthersKeepType ==
    ASSUME TypeInv, UNCHANGED <<profileVars, refreshVars>>, commands' \in Seq(Commands),
           tasks' \in [Profiles -> Task], queue' \in [Profiles -> SUBSET Keys], JobsType'
    PROVE  TypeInv'
BY DEF TypeInv, TypeOK, CallersType, JobsType, profileVars, refreshVars

LEMMA ApplyKeeps ==
    ASSUME CoreInv, ReceiveApply
    PROVE  CoreInv'
<1>0. TypeInv /\ QueueInv /\ commands \in Seq(Commands)
  BY DEF CoreInv, TypeInv, TypeOK
<1>1. QueueInv' /\ tasks' \in [Profiles -> Task] /\ queue' \in [Profiles -> SUBSET Keys]
  BY <1>0, ApplyFits
<1>2. commands # <<>> /\ commands' = Tail(commands) /\ commands' \in Seq(Commands)
  BY <1>0, TailFacts DEF ReceiveApply, Receive
<1>3. TypeInv'
  <2>1. JobsType'
    BY <1>0 DEF ReceiveApply, TypeInv, JobsType
  <2>. QED BY <1>0, <1>1, <1>2, <2>1, OthersKeepType DEF ReceiveApply, Receive
<1>4. ASSUME NEW u \in Profiles PROVE OneFor(u)'
  <2>1. Head(commands) # TaskFinished(u)
    BY <1>0, <1>2, TailFacts, CommandFacts DEF ReceiveApply, Receive
  <2>2. PICK m \in Maps : m = Head(commands).map
    BY <1>0, <1>2, TailFacts, CommandFacts DEF ReceiveApply, Receive
  <2>3. tasks'[u] = Rescheduled(u, m)
    BY <2>2 DEF ReceiveApply
  <2>4. tasks'[u].running <=> tasks[u].running
    BY <1>0, <2>3, RescheduledFits
  <2>5. jobs'[u] = jobs[u] /\ OneFor(u)
    BY OneUpdateFor DEF ReceiveApply, CoreInv
  <2>6. (Reports(u)' = {} <=> Reports(u) = {}) /\ (\A i, j \in Reports(u) : i = j)'
    BY <1>0, <1>2, <2>1, <2>5, ReportsTail
  <2>. QED BY <2>4, <2>5, <2>6, OneKept
<1>5. OneUpdateAtATime'
  BY <1>4, OneUpdateFor DEF OneUpdateAtATime, OneFor, Reports
<1>. QED BY <1>1, <1>3, <1>5 DEF CoreInv

LEMMA RunNowKeeps ==
    ASSUME CoreInv, ReceiveRunNow
    PROVE  CoreInv'
<1>0. TypeInv /\ QueueInv /\ JobsType /\ commands \in Seq(Commands)
  BY DEF CoreInv, TypeInv, TypeOK
<1>1. QueueInv' /\ tasks' \in [Profiles -> Task] /\ queue' \in [Profiles -> SUBSET Keys]
  BY <1>0, RunNowFits
<1>2. commands # <<>> /\ commands' = Tail(commands) /\ commands' \in Seq(Commands)
  BY <1>0, TailFacts DEF ReceiveRunNow, Receive
<1>3. PICK u \in Profiles : u = Head(commands).uid
  BY <1>0, <1>2, CommandFacts, TailFacts DEF ReceiveRunNow, Receive
<1>4. CASE tasks[u].known /\ ~tasks[u].running
  <2>1. Spawn(u) /\ tasks' = [tasks EXCEPT ![u].running = TRUE, ![u].key = None]
    BY <1>3, <1>4 DEF ReceiveRunNow
  <2>2. TypeInv'
    <3>1. JobsType'
      BY <1>0, <2>1, SpawnFacts
    <3>. QED BY <1>0, <1>1, <1>2, <3>1, OthersKeepType DEF ReceiveRunNow, Receive
  <2>3. ASSUME NEW v \in Profiles PROVE OneFor(v)'
    <3>1. Head(commands) # TaskFinished(v)
      BY <1>0, <1>2, TailFacts, CommandFacts DEF ReceiveRunNow, Receive
    <3>2. OneFor(v)
      BY OneUpdateFor DEF CoreInv
    <3>3. (Reports(v)' = {} <=> Reports(v) = {}) /\ (\A i, j \in Reports(v) : i = j)'
      BY <1>0, <1>2, <3>1, <3>2, ReportsTail
    <3>4. CASE v # u
      <4>1. jobs'[v] = jobs[v] /\ tasks'[v] = tasks[v]
        BY <1>0, <2>1, <3>4, SpawnFacts DEF TypeInv, TypeOK
      <4>. QED BY <3>2, <3>3, <4>1, OneKept
    <3>5. CASE v = u
      <4>1. jobs[u] = <<>> /\ Reports(u) = {}
        BY <1>4, <3>2, <3>5 DEF OneFor
      <4>2. Len(jobs'[u]) = 1 /\ jobs'[u] # <<>>
        BY <1>0, <2>1, <4>1, SpawnFacts
      <4>3. tasks'[u].running
        BY <1>0, <2>1 DEF TypeInv, TypeOK, Task
      <4>4. Reports(u)' = {}
        BY <3>3, <3>5, <4>1
      <4>. QED BY <3>5, <4>2, <4>3, <4>4 DEF OneFor
    <3>. QED BY <3>4, <3>5
  <2>4. OneUpdateAtATime'
    BY <2>3 DEF OneUpdateAtATime, OneFor, Reports
  <2>. QED BY <1>1, <2>2, <2>4 DEF CoreInv
<1>5. CASE ~(tasks[u].known /\ ~tasks[u].running)
  <2>1. UNCHANGED <<queue, tasks, jobs>>
    BY <1>3, <1>5 DEF ReceiveRunNow, schedulerVars
  <2>2. TypeInv'
    <3>1. JobsType'
      BY <1>0, <2>1 DEF JobsType
    <3>. QED BY <1>0, <1>1, <1>2, <3>1, OthersKeepType DEF ReceiveRunNow, Receive
  <2>3. ASSUME NEW v \in Profiles PROVE OneFor(v)'
    <3>1. Head(commands) # TaskFinished(v)
      BY <1>0, <1>2, TailFacts, CommandFacts DEF ReceiveRunNow, Receive
    <3>2. OneFor(v)
      BY OneUpdateFor DEF CoreInv
    <3>. QED BY <1>0, <1>2, <2>1, <3>1, <3>2, ReportsTail, OneKept
  <2>4. OneUpdateAtATime'
    BY <2>3 DEF OneUpdateAtATime, OneFor, Reports
  <2>. QED BY <1>1, <2>2, <2>4 DEF CoreInv
<1>. QED BY <1>4, <1>5

\* The only report of an update finds its task running.
LEMMA FinishedKeeps ==
    ASSUME CoreInv, ReceiveTaskFinished
    PROVE  CoreInv'
<1>0. TypeInv /\ QueueInv /\ JobsType /\ commands \in Seq(Commands)
  BY DEF CoreInv, TypeInv, TypeOK
<1>2. commands # <<>> /\ commands' = Tail(commands) /\ commands' \in Seq(Commands)
  BY <1>0, TailFacts DEF ReceiveTaskFinished, Receive
<1>3. PICK u \in Profiles : u = Head(commands).uid /\ Head(commands) = TaskFinished(u)
  BY <1>0, <1>2, CommandFacts, TailFacts DEF ReceiveTaskFinished, Receive
<1>4. OneFor(u) /\ Reports(u) # {} /\ Reports(u)' = {}
  BY <1>0, <1>2, <1>3, OneUpdateFor, ReportTaken DEF CoreInv
<1>5. tasks[u].running /\ jobs[u] = <<>>
  BY <1>4 DEF OneFor
<1>6. tasks[u] \in Task /\ tasks[u].known
  BY <1>0, <1>5, RunningTask
<1>1. QueueInv' /\ tasks' \in [Profiles -> Task] /\ queue' \in [Profiles -> SUBSET Keys]
  BY <1>0, <1>3, <1>5, FinishedFits
<1>7. ~tasks'[u].running /\ \A v \in Profiles : v # u => tasks'[v] = tasks[v]
  <2>1. CASE tasks[u].retired
    <3>1. tasks' = [tasks EXCEPT ![u] = NoTask]
      BY <1>3, <1>6, <2>1 DEF ReceiveTaskFinished
    <3>. QED BY <1>0, <3>1, NoTaskFacts DEF TypeInv, TypeOK
  <2>2. CASE ~tasks[u].retired
    <3>1. tasks' = [tasks EXCEPT ![u].running = FALSE, ![u].key = FreshKey(u)]
      BY <1>3, <1>6, <2>2 DEF ReceiveTaskFinished
    <3>. QED BY <1>0, <1>6, <3>1 DEF TypeInv, TypeOK, Task
  <2>. QED BY <2>1, <2>2
<1>8. TypeInv'
  <2>1. JobsType'
    BY <1>0 DEF ReceiveTaskFinished, JobsType
  <2>. QED BY <1>0, <1>1, <1>2, <2>1, OthersKeepType DEF ReceiveTaskFinished, Receive
<1>9. ASSUME NEW v \in Profiles PROVE OneFor(v)'
  <2>1. jobs'[v] = jobs[v] /\ OneFor(v)
    BY OneUpdateFor DEF ReceiveTaskFinished, CoreInv
  <2>2. CASE v = u
    BY <1>4, <1>5, <1>7, <2>1, <2>2 DEF OneFor
  <2>3. CASE v # u
    <3>1. Head(commands) # TaskFinished(v)
      BY <1>3, <2>3 DEF TaskFinished
    <3>2. tasks'[v].running <=> tasks[v].running
      BY <1>7, <2>3
    <3>. QED BY <1>0, <1>2, <2>1, <3>1, <3>2, ReportsTail, OneKept
  <2>. QED BY <2>2, <2>3
<1>10. OneUpdateAtATime'
  BY <1>9 DEF OneUpdateAtATime, OneFor, Reports
<1>. QED BY <1>1, <1>8, <1>10 DEF CoreInv

LEMMA ExpireKeeps ==
    ASSUME CoreInv, NEW u \in Profiles, NEW k \in Keys, Expire(u, k)
    PROVE  CoreInv'
<1>0. TypeInv /\ QueueInv /\ JobsType /\ commands \in Seq(Commands)
  BY DEF CoreInv, TypeInv, TypeOK
<1>1. /\ QueueInv' /\ tasks' \in [Profiles -> Task] /\ queue' \in [Profiles -> SUBSET Keys]
      /\ tasks[u].known /\ ~tasks[u].running
  BY <1>0, ExpireFits
<1>2. Spawn(u) /\ tasks' = [tasks EXCEPT ![u].key = None, ![u].running = TRUE] /\ commands' = commands
  BY <1>1 DEF Expire
<1>3. JobsType' /\ \A v \in Profiles : v # u => jobs'[v] = jobs[v]
  BY <1>0, <1>2, SpawnFacts
<1>4. TypeInv'
  BY <1>0, <1>1, <1>2, <1>3, OthersKeepType DEF Expire
<1>5. ASSUME NEW v \in Profiles PROVE OneFor(v)'
  <2>1. OneFor(v) /\ Reports(v)' = Reports(v)
    BY <1>2, OneUpdateFor DEF CoreInv, Reports
  <2>2. CASE v # u
    <3>1. tasks'[v] = tasks[v]
      BY <1>0, <1>2, <2>2 DEF TypeInv, TypeOK
    <3>. QED BY <1>3, <2>1, <2>2, <3>1 DEF OneFor
  <2>3. CASE v = u
    <3>1. jobs[u] = <<>> /\ Reports(u) = {}
      BY <1>1, <2>1, <2>3 DEF OneFor
    <3>2. Len(jobs'[u]) = 1 /\ jobs'[u] # <<>>
      BY <1>0, <1>2, <3>1, SpawnFacts
    <3>3. tasks'[u].running
      BY <1>0, <1>2 DEF TypeInv, TypeOK, Task
    <3>. QED BY <2>1, <2>3, <3>1, <3>2, <3>3 DEF OneFor
  <2>. QED BY <2>2, <2>3
<1>6. OneUpdateAtATime'
  BY <1>5 DEF OneUpdateAtATime, OneFor, Reports
<1>. QED BY <1>1, <1>4, <1>6 DEF CoreInv

-----------------------------------------------------------------------------
(* Update tasks *)

\* A job moves on with the options it holds, or that it captured.
LEMMA JobMoves ==
    ASSUME JobsType, NEW u \in Profiles, NEW i \in DOMAIN jobs[u], NEW r \in Job,
           r.phase = "fetching" => r.option \in Options,
           jobs' = [jobs EXCEPT ![u][i] = r]
    PROVE  /\ JobsType'
           /\ \A v \in Profiles : Len(jobs'[v]) = Len(jobs[v]) /\ (jobs'[v] = <<>> <=> jobs[v] = <<>>)
<1>1. jobs[u] \in Seq(Job) /\ i \in 1 .. Len(jobs[u]) /\ Len(jobs[u]) \in Nat
  BY DEF JobsType
<1>2. PICK s \in Seq(Job) : s = [jobs[u] EXCEPT ![i] = r] /\ Len(s) = Len(jobs[u])
  <2>. DEFINE e == [jobs[u] EXCEPT ![i] = r]
  <2>1. e \in Seq(Job) /\ Len(e) = Len(jobs[u])
    BY <1>1, ExceptSeq, Zenon
  <2>. QED BY <2>1, Zenon
<1>3. /\ Len(s) = Len(jobs[u]) /\ DOMAIN s = DOMAIN jobs[u] /\ s[i] = r
      /\ \A j \in DOMAIN s : j # i => s[j] = jobs[u][j]
  BY <1>1, <1>2
<1>4. jobs' = [jobs EXCEPT ![u] = s]
  BY <1>2
<1>5. jobs' \in [Profiles -> Seq(Job)] /\ jobs'[u] = s /\ \A v \in Profiles : v # u => jobs'[v] = jobs[v]
  BY <1>4 DEF JobsType
<1>6. ASSUME NEW v \in Profiles, NEW j \in DOMAIN jobs'[v], jobs'[v][j].phase = "fetching"
      PROVE  jobs'[v][j].option \in Options
  BY <1>3, <1>5, <1>6 DEF JobsType
<1>7. s = <<>> <=> jobs[u] = <<>>
  BY <1>1, <1>3
<1>. QED BY <1>3, <1>5, <1>6, <1>7 DEF JobsType

LEMMA StartUpdateKeeps ==
    ASSUME CoreInv, NEW u \in Profiles, NEW i \in DOMAIN jobs[u], StartUpdate(u, i)
    PROVE  CoreInv'
<1>0. TypeInv /\ QueueInv /\ JobsType /\ jobs[u][i] \in Job
  BY DEF CoreInv, TypeInv, TypeOK, JobsType
<1>1. PICK r \in Job : (r.phase = "fetching" => r.option \in Options) /\ jobs' = [jobs EXCEPT ![u][i] = r]
  <2>1. CASE config[u] = Deleted \/ ~config[u].allow
    <3>. DEFINE r == [jobs[u][i] EXCEPT !.phase = "reporting"]
    <3>1. r \in Job /\ r.phase # "fetching"
      BY <1>0 DEF Job
    <3>2. jobs' = [jobs EXCEPT ![u][i] = r]
      BY <2>1 DEF StartUpdate, JobGoto
    <3>. QED BY <3>1, <3>2
  <2>2. CASE ~(config[u] = Deleted \/ ~config[u].allow)
    <3>. DEFINE r == [phase |-> "fetching", option |-> config[u]]
    <3>1. r \in Job /\ r.option \in Options
      BY <1>0, <2>2 DEF Job, TypeInv, TypeOK
    <3>2. jobs' = [jobs EXCEPT ![u][i] = r]
      BY <2>2 DEF StartUpdate
    <3>. QED BY <3>1, <3>2
  <2>. QED BY <2>1, <2>2
<1>2. /\ JobsType'
      /\ \A v \in Profiles : Len(jobs'[v]) = Len(jobs[v]) /\ (jobs'[v] = <<>> <=> jobs[v] = <<>>)
  BY <1>0, <1>1, JobMoves
<1>3. UNCHANGED <<profileVars, refreshVars, commands, queue, tasks>>
  BY DEF StartUpdate, schedulerVars
<1>4. TypeInv'
  BY <1>0, <1>2, <1>3, OthersKeepType DEF TypeInv, TypeOK
<1>5. QueueInv'
  BY <1>0, <1>3 DEF QueueInv, TaskFits
<1>6. OneUpdateAtATime'
  BY <1>2, <1>3 DEF CoreInv, OneUpdateAtATime
<1>. QED BY <1>4, <1>5, <1>6 DEF CoreInv

LEMMA EndUpdateKeeps ==
    ASSUME CoreInv, NEW u \in Profiles, NEW i \in DOMAIN jobs[u], EndUpdate(u, i)
    PROVE  CoreInv'
<1>0. TypeInv /\ TypeOK /\ QueueInv /\ JobsType /\ jobs[u][i] \in Job /\ jobs[u][i].option \in Options
  BY DEF CoreInv, TypeInv, TypeOK, JobsType, EndUpdate, JobAt
<1>. DEFINE r == [jobs[u][i] EXCEPT !.phase = "reporting"]
<1>1. r \in Job /\ r.phase # "fetching"
  BY <1>0 DEF Job
<1>9. jobs' = [jobs EXCEPT ![u][i] = r]
  BY DEF EndUpdate, JobGoto
<1>. HIDE DEF r
<1>2. /\ JobsType'
      /\ \A v \in Profiles : Len(jobs'[v]) = Len(jobs[v]) /\ (jobs'[v] = <<>> <=> jobs[v] = <<>>)
  BY <1>0, <1>1, <1>9, JobMoves
<1>3. UNCHANGED <<refreshVars, commands, queue, tasks>>
  BY DEF EndUpdate, schedulerVars
<1>4. config' \in [Profiles -> Options \cup {Deleted}] /\ announced' \in [Profiles -> BOOLEAN]
  BY <1>0, LandType DEF EndUpdate
<1>5. TypeInv'
  BY <1>0, <1>2, <1>3, <1>4 DEF TypeInv, TypeOK, CallersType, JobsType, refreshVars
<1>6. QueueInv'
  BY <1>0, <1>3 DEF QueueInv, TaskFits
<1>7. OneUpdateAtATime'
  BY <1>2, <1>3 DEF CoreInv, OneUpdateAtATime
<1>. QED BY <1>5, <1>6, <1>7 DEF CoreInv

LEMMA OnlyIndex == \A n \in Nat : \A i \in 1 .. n : n <= 1 => n = 1 /\ i = 1
OBVIOUS

\* The report of the one update that was alive.
LEMMA ReportUpdateKeeps ==
    ASSUME CoreInv, NEW u \in Profiles, NEW i \in DOMAIN jobs[u], ReportUpdate(u, i)
    PROVE  CoreInv'
<1>0. TypeInv /\ QueueInv /\ JobsType /\ commands \in Seq(Commands) /\ OneFor(u)
  BY OneUpdateFor DEF CoreInv, TypeInv, TypeOK
<1>1. jobs[u] \in Seq(Job) /\ Len(jobs[u]) = 1 /\ i = 1
  <2>1. jobs[u] \in Seq(Job) /\ Len(jobs[u]) \in Nat /\ Len(jobs[u]) <= 1 /\ DOMAIN jobs[u] = 1 .. Len(jobs[u])
    BY <1>0 DEF JobsType, OneFor
  <2>2. i \in 1 .. Len(jobs[u])
    BY <2>1, Zenon
  <2>. QED BY <2>1, <2>2, OnlyIndex, Zenon
<1>2. RemoveAt(jobs[u], i) = <<>>
  BY <1>1 DEF RemoveAt
<1>3. jobs' = [jobs EXCEPT ![u] = <<>>] /\ commands' = Append(commands, TaskFinished(u))
  BY <1>2 DEF ReportUpdate
<1>4. JobsType' /\ jobs'[u] = <<>> /\ \A v \in Profiles : v # u => jobs'[v] = jobs[v]
  BY <1>0, <1>3 DEF JobsType
<1>5. UNCHANGED <<profileVars, refreshVars, queue, tasks>>
  BY DEF ReportUpdate, schedulerVars
<1>6. TypeInv'
  BY <1>0, <1>3, <1>4, <1>5, AppendFacts, CommandFacts, OthersKeepType DEF TypeInv, TypeOK
<1>7. QueueInv'
  BY <1>0, <1>5 DEF QueueInv, TaskFits
<1>8. jobs[u] # <<>> /\ Reports(u) = {} /\ tasks[u].running
  BY <1>0, <1>1 DEF OneFor
<1>9. Len(commands) \in Nat
  BY <1>0
<1>10. ASSUME NEW v \in Profiles PROVE OneFor(v)'
  <2>1. CASE v = u
    <3>1. Reports(u)' = {Len(commands) + 1}
      BY <1>0, <1>3, <1>8, CommandFacts, ReportsAppend
    <3>. QED BY <1>4, <1>5, <1>8, <2>1, <3>1 DEF OneFor
  <2>2. CASE v # u
    <3>1. TaskFinished(u) # TaskFinished(v)
      BY <2>2 DEF TaskFinished
    <3>2. Reports(v)' = Reports(v) /\ OneFor(v)
      BY <1>0, <1>3, <3>1, CommandFacts, ReportsAppend, OneUpdateFor DEF CoreInv
    <3>. QED BY <1>4, <1>5, <2>2, <3>2 DEF OneFor
  <2>. QED BY <2>1, <2>2
<1>11. OneUpdateAtATime'
  BY <1>10 DEF OneUpdateAtATime, OneFor, Reports
<1>. QED BY <1>6, <1>7, <1>11 DEF CoreInv

\* Commands and refreshes touch neither tasks nor updates, and send no reports.
LEMMA OutsideKeeps ==
    ASSUME CoreInv, TypeInv', UNCHANGED <<queue, tasks, jobs>>,
           \/ commands' = commands
           \/ \E x \in Commands : commands' = Append(commands, x) /\ x.kind # "TaskFinished"
    PROVE  CoreInv'
<1>1. QueueInv'
  BY DEF CoreInv, QueueInv, TaskFits
<1>2. ASSUME NEW u \in Profiles PROVE Reports(u)' = Reports(u)
  <2>1. CASE commands' = commands
    BY <2>1 DEF Reports
  <2>2. ASSUME NEW x \in Commands, commands' = Append(commands, x), x.kind # "TaskFinished"
        PROVE  Reports(u)' = Reports(u)
    <3>1. x # TaskFinished(u)
      BY <2>2 DEF TaskFinished
    <3>. QED BY <2>2, <3>1, ReportsAppend DEF CoreInv
  <2>. QED BY <2>1, <2>2
<1>3. ASSUME NEW u \in Profiles PROVE OneFor(u)'
  BY <1>2, OneUpdateFor DEF CoreInv, OneFor
<1>4. OneUpdateAtATime'
  BY <1>3 DEF OneUpdateAtATime, OneFor, Reports
<1>. QED BY <1>1, <1>4 DEF CoreInv

LEMMA CommandKeeps ==
    ASSUME CoreInv, NEW c \in Callers, Command(c) \/ PatchCommit(c) \/ ManualEnd(c)
    PROVE  CoreInv'
<1>1. UNCHANGED <<queue, tasks, jobs, commands>>
  BY DEF Command, PatchCompare, DeleteProfile, ManualStart, CallRefresh, PatchCommit, ManualEnd, schedulerVars
<1>2. TypeInv'
  BY CommandPreservesType DEF CoreInv
<1>. QED BY <1>1, <1>2, OutsideKeeps

LEMMA RefreshKeeps ==
    ASSUME CoreInv, NEW c \in Refreshers, RefreshStep(c)
    PROVE  CoreInv'
<1>1. UNCHANGED <<queue, tasks, jobs>>
  BY DEF RefreshStep, LockRefresh, GenMap, PublishMap, schedulerVars
<1>2. TypeInv'
  BY RefreshPreservesType DEF CoreInv
<1>3. callers[c].map \in Maps
  BY DEF CoreInv, TypeInv, TypeOK, Caller
<1>4. Apply(callers[c].map) \in Commands /\ Apply(callers[c].map).kind # "TaskFinished"
  BY <1>3, CommandFacts DEF Apply
<1>5. commands' = commands \/ commands' = Append(commands, Apply(callers[c].map))
  BY DEF RefreshStep, LockRefresh, GenMap, PublishMap
<1>. QED BY <1>1, <1>2, <1>4, <1>5, OutsideKeeps

LEMMA InitStepKeeps ==
    ASSUME CoreInv, InitStep
    PROVE  CoreInv'
<1>1. UNCHANGED <<queue, tasks, jobs>>
  BY DEF InitStep, StartInit, FindOverdue, RunOverdue, schedulerVars
<1>2. TypeInv'
  BY InitStepPreservesType DEF CoreInv
<1>3. \A u \in Profiles : RunNow(u) \in Commands /\ RunNow(u).kind # "TaskFinished"
  BY CommandFacts DEF RunNow
<1>4. commands' = commands \/ \E u \in Profiles : commands' = Append(commands, RunNow(u))
  BY DEF InitStep, StartInit, FindOverdue, RunOverdue
<1>. QED BY <1>1, <1>2, <1>3, <1>4, OutsideKeeps

LEMMA InitCore == Init => CoreInv
<1>. SUFFICES ASSUME Init PROVE CoreInv
  OBVIOUS
<1>1. Idle \in Caller /\ Idle.phase = "idle" /\ NoMap \in Maps
  BY IdleType, NoMapType DEF Idle
<1>2. TypeOK
  BY <1>1, NoTaskFacts, AutoUpdateAssumption DEF Init, TypeOK
<1>3. CallersType /\ JobsType
  BY <1>1, <1>2 DEF Init, CallersType, JobsType, TypeOK
<1>4. QueueInv
  BY NoTaskFacts DEF Init, QueueInv, TaskFits
<1>5. OneUpdateAtATime
  BY NoTaskFacts DEF Init, OneUpdateAtATime
<1>. QED BY <1>2, <1>3, <1>4, <1>5 DEF CoreInv, TypeInv

LEMMA NextCore == CoreInv /\ [Next]_vars => CoreInv'
<1>. SUFFICES ASSUME CoreInv, [Next]_vars PROVE CoreInv'
  OBVIOUS
<1>1. CASE UNCHANGED vars
  BY <1>1 DEF vars, CoreInv, TypeInv, TypeOK, CallersType, JobsType, QueueInv, TaskFits, OneUpdateAtATime
<1>2. CASE \E c \in Callers : Command(c) \/ PatchCommit(c) \/ ManualEnd(c)
  BY <1>2, CommandKeeps
<1>3. CASE \E c \in Refreshers : RefreshStep(c)
  BY <1>3, RefreshKeeps
<1>4. CASE InitStep
  BY <1>4, InitStepKeeps
<1>5. CASE Scheduler
  BY <1>5, ApplyKeeps, RunNowKeeps, FinishedKeeps DEF Scheduler
<1>6. CASE \E u \in Profiles : \E k \in Keys : Expire(u, k)
  BY <1>6, ExpireKeeps
<1>7. CASE \E u \in Profiles : UpdateStep(u)
  BY <1>7, StartUpdateKeeps, EndUpdateKeeps, ReportUpdateKeeps DEF UpdateStep
<1>. QED BY <1>1, <1>2, <1>3, <1>4, <1>5, <1>6, <1>7 DEF Next

LEMMA CoreAlways == Spec => []CoreInv
BY InitCore, NextCore, PTL DEF Spec

\* Every variable keeps its type.
THEOREM TypeCorrect == Spec => []TypeOK
<1>1. CoreInv => TypeOK
  BY DEF CoreInv, TypeInv
<1>. QED BY <1>1, CoreAlways, PTL

\* A task is armed exactly while it does not run, under the only entry its profile has
\* in the delay queue.
THEOREM QueueAlwaysMatchesTasks == Spec => []QueueMatchesTasks
<1>1. CoreInv => QueueMatchesTasks
  BY DEF CoreInv, QueueInv, TaskFits, QueueMatchesTasks
<1>. QED BY <1>1, CoreAlways, PTL

\* A profile has one scheduled update at a time, whatever is disabled, enabled, run
\* immediately or deleted meanwhile.
THEOREM OneUpdateAlways == Spec => []OneUpdateAtATime
<1>1. CoreInv => OneUpdateAtATime
  BY DEF CoreInv
<1>. QED BY <1>1, CoreAlways, PTL

-----------------------------------------------------------------------------
(* The scheduler follows the cache *)

Sent == {i \in DOMAIN commands : commands[i].kind = "Apply"}

Follows(m) ==
    \A u \in Profiles :
        /\ u \in DOMAIN m <=> tasks[u].known /\ ~tasks[u].retired
        /\ u \in DOMAIN m => m[u] = tasks[u].interval

Newest(i) == i \in Sent /\ \A j \in Sent : j <= i

\* The last schedule in the channel is the cached one; with none there, the tasks are.
FollowInv ==
    /\ Sent = {} => Follows(timerMap)
    /\ Sent # {} => \E i \in Sent : Newest(i) /\ commands[i].map = timerMap

\* A command that is no schedule leaves the channel.
LEMMA SentTail ==
    ASSUME commands \in Seq(Commands), commands # <<>>, commands' = Tail(commands)
    PROVE  /\ \A i \in Sent' : i \in Nat /\ i + 1 \in Sent /\ commands'[i] = commands[i + 1]
           /\ \A i \in Sent : i \in Nat /\ (i # 1 => i - 1 \in Sent' /\ commands'[i - 1] = commands[i])
           /\ Head(commands).kind = "Apply" <=> 1 \in Sent
<1>1. \A i \in Sent' : i \in Nat /\ i + 1 \in Sent /\ commands'[i] = commands[i + 1]
  BY TailFacts DEF Sent
<1>2. ASSUME NEW i \in Sent PROVE i \in Nat /\ (i # 1 => i - 1 \in Sent' /\ commands'[i - 1] = commands[i])
  <2>1. i \in 1 .. Len(commands) /\ i \in Nat
    BY TailFacts DEF Sent
  <2>2. ASSUME i # 1 PROVE i - 1 \in Sent' /\ commands'[i - 1] = commands[i]
    <3>1. i - 1 \in 1 .. Len(commands) - 1 /\ (i - 1) + 1 = i
      BY <2>1, <2>2, TailFacts
    <3>. QED BY <3>1, TailFacts DEF Sent
  <2>. QED BY <2>1, <2>2
<1>3. Head(commands).kind = "Apply" <=> 1 \in Sent
  BY TailFacts DEF Sent
<1>. QED BY <1>1, <1>2, <1>3

\* Unless it was taken, the newest schedule stays the newest.
LEMMA NewestTail ==
    ASSUME commands \in Seq(Commands), commands # <<>>, commands' = Tail(commands),
           FollowInv, Sent' # {}, timerMap' = timerMap
    PROVE  \E i \in Sent' : Newest(i)' /\ commands'[i].map = timerMap'
<1>1. PICK k \in Sent' : k \in Nat /\ k + 1 \in Sent
  BY SentTail
<1>2. PICK i \in Sent : Newest(i) /\ commands[i].map = timerMap
  BY <1>1 DEF FollowInv
<1>3. i \in Nat /\ k + 1 <= i
  BY <1>1, <1>2, SentTail DEF Newest
<1>4. i # 1
  <2>1. k > 0
    BY TailFacts DEF Sent
  <2>. QED BY <1>1, <1>3, <2>1
<1>5. i - 1 \in Sent' /\ commands'[i - 1] = commands[i]
  BY <1>4, SentTail
<1>6. \A j \in Sent' : j <= i - 1
  <2>1. ASSUME NEW j \in Sent' PROVE j <= i - 1
    <3>1. j \in Nat /\ j + 1 \in Sent
      BY SentTail
    <3>2. j + 1 <= i
      BY <1>2, <3>1 DEF Newest
    <3>. QED BY <1>3, <3>1, <3>2
  <2>. QED BY <2>1
<1>. QED BY <1>2, <1>5, <1>6 DEF Newest

\* A task under a new map is what the map says.
LEMMA RescheduledFollows ==
    ASSUME TypeInv, QueueInv, NEW m \in Maps, NEW u \in Profiles
    PROVE  LET t == Rescheduled(u, m) IN
           /\ u \in DOMAIN m <=> t.known /\ ~t.retired
           /\ u \in DOMAIN m => m[u] = t.interval
<1>0. tasks[u] \in Task /\ TaskFits(u)
  BY DEF TypeInv, TypeOK, QueueInv
<1>1. CASE u \notin DOMAIN m
  BY <1>0, <1>1, NoTaskFacts DEF Rescheduled, Removed, Task
<1>2. CASE u \in DOMAIN m /\ ~tasks[u].known
  BY <1>2 DEF Rescheduled, Inserted
<1>3. CASE u \in DOMAIN m /\ tasks[u].known
  BY <1>0, <1>3 DEF Rescheduled, Task
<1>. QED BY <1>1, <1>2, <1>3

LEMMA ApplyFollows ==
    ASSUME CoreInv, FollowInv, ReceiveApply
    PROVE  FollowInv'
<1>0. TypeInv /\ QueueInv /\ commands \in Seq(Commands) /\ timerMap \in Maps
  BY DEF CoreInv, TypeInv, TypeOK
<1>1. /\ commands # <<>> /\ commands' = Tail(commands) /\ timerMap' = timerMap
      /\ Head(commands).kind = "Apply" /\ Head(commands) = commands[1]
  BY <1>0, TailFacts DEF ReceiveApply, Receive, refreshVars
<1>2. ASSUME Sent' = {} PROVE Follows(timerMap)'
  <2>1. 1 \in Sent
    BY <1>0, <1>1, SentTail
  <2>2. PICK i \in Sent : Newest(i) /\ commands[i].map = timerMap
    BY <2>1 DEF FollowInv
  <2>3. i = 1
    BY <1>0, <1>1, <1>2, SentTail
  <2>4. Head(commands).map = timerMap
    BY <1>1, <2>2, <2>3
  <2>5. \A u \in Profiles : tasks'[u] = Rescheduled(u, timerMap)
    BY <2>4 DEF ReceiveApply
  <2>. QED BY <1>0, <1>1, <2>5, RescheduledFollows DEF Follows
<1>3. ASSUME Sent' # {} PROVE \E i \in Sent' : Newest(i)' /\ commands'[i].map = timerMap'
  BY <1>0, <1>1, <1>3, NewestTail
<1>. QED BY <1>2, <1>3 DEF FollowInv

\* Another command leaves the active tasks and their intervals as they are.
LEMMA TakenFollows ==
    ASSUME CoreInv, FollowInv, commands # <<>>, commands' = Tail(commands), timerMap' = timerMap,
           Head(commands).kind # "Apply",
           \A u \in Profiles : /\ tasks'[u].known /\ ~tasks'[u].retired <=> tasks[u].known /\ ~tasks[u].retired
                               /\ tasks[u].known /\ ~tasks[u].retired => tasks'[u].interval = tasks[u].interval
    PROVE  FollowInv'
<1>0. commands \in Seq(Commands)
  BY DEF CoreInv, TypeInv, TypeOK
<1>1. ASSUME Sent' = {} PROVE Follows(timerMap)'
  <2>1. Sent = {}
    BY <1>0, <1>1, SentTail
  <2>. QED BY <2>1 DEF FollowInv, Follows
<1>2. ASSUME Sent' # {} PROVE \E i \in Sent' : Newest(i)' /\ commands'[i].map = timerMap'
  BY <1>0, <1>2, NewestTail
<1>. QED BY <1>1, <1>2 DEF FollowInv

LEMMA SchedulerFollows ==
    ASSUME CoreInv, FollowInv, Scheduler
    PROVE  FollowInv'
<1>0. TypeInv /\ QueueInv /\ commands \in Seq(Commands) /\ tasks \in [Profiles -> Task]
  BY DEF CoreInv, TypeInv, TypeOK
<1>1. CASE ReceiveApply
  BY <1>1, ApplyFollows
<1>2. CASE ReceiveRunNow
  <2>1. /\ commands # <<>> /\ commands' = Tail(commands) /\ timerMap' = timerMap
        /\ Head(commands).kind # "Apply"
    BY <1>2 DEF ReceiveRunNow, Receive, refreshVars
  <2>2. PICK u \in Profiles : u = Head(commands).uid
    BY <1>0, <1>2, <2>1, CommandFacts, TailFacts DEF ReceiveRunNow, Receive
  <2>3. tasks' = tasks \/ tasks' = [tasks EXCEPT ![u].running = TRUE, ![u].key = None]
    BY <1>2, <2>2 DEF ReceiveRunNow, schedulerVars
  <2>4. \A v \in Profiles : /\ tasks'[v].known = tasks[v].known /\ tasks'[v].retired = tasks[v].retired
                            /\ tasks'[v].interval = tasks[v].interval
    BY <1>0, <2>3 DEF Task
  <2>. QED BY <2>1, <2>4, TakenFollows
<1>3. CASE ReceiveTaskFinished
  <2>1. /\ commands # <<>> /\ commands' = Tail(commands) /\ timerMap' = timerMap
        /\ Head(commands).kind # "Apply"
    BY <1>3 DEF ReceiveTaskFinished, Receive, refreshVars
  <2>2. PICK u \in Profiles : u = Head(commands).uid
    BY <1>0, <1>3, <2>1, CommandFacts, TailFacts DEF ReceiveTaskFinished, Receive
  <2>3. \/ tasks' = tasks
        \/ tasks[u].retired /\ tasks' = [tasks EXCEPT ![u] = NoTask]
        \/ tasks' = [tasks EXCEPT ![u].running = FALSE, ![u].key = FreshKey(u)]
    BY <1>3, <2>2 DEF ReceiveTaskFinished, schedulerVars
  <2>4. \A v \in Profiles :
            /\ tasks'[v].known /\ ~tasks'[v].retired <=> tasks[v].known /\ ~tasks[v].retired
            /\ tasks[v].known /\ ~tasks[v].retired => tasks'[v].interval = tasks[v].interval
    <3>1. CASE tasks' = tasks
      BY <3>1
    <3>2. CASE tasks[u].retired /\ tasks' = [tasks EXCEPT ![u] = NoTask]
      BY <1>0, <3>2, NoTaskFacts
    <3>3. CASE tasks' = [tasks EXCEPT ![u].running = FALSE, ![u].key = FreshKey(u)]
      BY <1>0, <3>3 DEF Task
    <3>. QED BY <2>3, <3>1, <3>2, <3>3
  <2>. QED BY <2>1, <2>4, TakenFollows
<1>. QED BY <1>1, <1>2, <1>3 DEF Scheduler

\* A schedule or another command is sent.
LEMMA PublishFollows ==
    ASSUME CoreInv, FollowInv, NEW c \in Refreshers, PublishMap(c)
    PROVE  FollowInv'
<1>0. commands \in Seq(Commands) /\ callers[c].map \in Maps
  BY DEF CoreInv, TypeInv, TypeOK, Caller
<1>1. CASE timerMap = callers[c].map
  BY <1>1 DEF PublishMap, FollowInv, Sent, Newest, Follows, schedulerVars
<1>2. CASE timerMap # callers[c].map
  <2>1. PICK x \in Commands : x.kind = "Apply" /\ x.map = callers[c].map /\ x = Apply(callers[c].map)
    BY <1>0, CommandFacts DEF Apply
  <2>2. commands' = Append(commands, x) /\ timerMap' = x.map
    BY <1>2, <2>1 DEF PublishMap
  <2>3. Sent' = Sent \cup {Len(commands) + 1} /\ commands'[Len(commands) + 1] = x
    BY <1>0, <2>1, <2>2, AppendFacts DEF Sent
  <2>4. \A j \in Sent' : j <= Len(commands) + 1
    BY <1>0, <2>2, <2>3, AppendFacts DEF Sent
  <2>. QED BY <2>2, <2>3, <2>4 DEF FollowInv, Newest
<1>. QED BY <1>1, <1>2

LEMMA RunOverdueFollows ==
    ASSUME CoreInv, FollowInv, NEW u \in Profiles, RunOverdue(u)
    PROVE  FollowInv'
<1>0. commands \in Seq(Commands)
  BY DEF CoreInv, TypeInv, TypeOK
<1>1. PICK x \in Commands : x.kind # "Apply" /\ commands' = Append(commands, x)
  BY CommandFacts DEF RunOverdue, RunNow
<1>2. Sent' = Sent /\ \A i \in Sent : commands'[i] = commands[i]
  BY <1>0, <1>1, AppendFacts DEF Sent
<1>3. timerMap' = timerMap /\ tasks' = tasks
  BY DEF RunOverdue, schedulerVars
<1>. QED BY <1>2, <1>3 DEF FollowInv, Newest, Follows

LEMMA InitFollows == Init => FollowInv
<1>1. NoMap = [u \in {} |-> 1] /\ DOMAIN NoMap = {}
  BY DEF NoMap
<1>. QED BY <1>1, NoTaskFacts DEF Init, FollowInv, Sent, Follows

LEMMA NextFollows == CoreInv /\ FollowInv /\ [Next]_vars => FollowInv'
<1>. SUFFICES ASSUME CoreInv, FollowInv, [Next]_vars PROVE FollowInv'
  OBVIOUS
<1>0. ASSUME UNCHANGED <<timerMap, commands, tasks>> PROVE FollowInv'
  BY <1>0 DEF FollowInv, Sent, Newest, Follows
<1>1. CASE UNCHANGED vars
  BY <1>0, <1>1 DEF vars
<1>2. ASSUME NEW c \in Callers, Command(c) \/ PatchCommit(c) \/ ManualEnd(c) PROVE FollowInv'
  BY <1>0, <1>2 DEF Command, PatchCompare, DeleteProfile, ManualStart, CallRefresh, PatchCommit,
                    ManualEnd, schedulerVars
<1>3. ASSUME NEW c \in Refreshers, RefreshStep(c) PROVE FollowInv'
  <2>1. CASE PublishMap(c)
    BY <2>1, PublishFollows
  <2>2. CASE LockRefresh(c) \/ GenMap(c)
    BY <1>0, <2>2 DEF LockRefresh, GenMap, schedulerVars
  <2>. QED BY <1>3, <2>1, <2>2 DEF RefreshStep
<1>4. CASE InitStep
  <2>1. CASE StartInit \/ FindOverdue
    BY <1>0, <2>1 DEF StartInit, FindOverdue, schedulerVars
  <2>. QED BY <1>4, <2>1, RunOverdueFollows DEF InitStep
<1>5. CASE Scheduler
  BY <1>5, SchedulerFollows
<1>6. ASSUME NEW u \in Profiles, NEW k \in Keys, Expire(u, k) PROVE FollowInv'
  <2>1. tasks' = tasks \/ tasks' = [tasks EXCEPT ![u].key = None, ![u].running = TRUE]
    BY <1>6 DEF Expire
  <2>2. \A v \in Profiles : /\ tasks'[v].known = tasks[v].known /\ tasks'[v].retired = tasks[v].retired
                            /\ tasks'[v].interval = tasks[v].interval
    <3>1. tasks \in [Profiles -> Task]
      BY DEF CoreInv, TypeInv, TypeOK
    <3>. QED BY <2>1, <3>1 DEF Task
  <2>3. timerMap' = timerMap /\ commands' = commands
    BY <1>6 DEF Expire, refreshVars
  <2>. QED BY <2>2, <2>3 DEF FollowInv, Sent, Newest, Follows
<1>7. ASSUME NEW u \in Profiles, UpdateStep(u) PROVE FollowInv'
  <2>1. PICK i \in DOMAIN jobs[u] : StartUpdate(u, i) \/ EndUpdate(u, i) \/ ReportUpdate(u, i)
    BY <1>7 DEF UpdateStep
  <2>2. CASE StartUpdate(u, i) \/ EndUpdate(u, i)
    BY <1>0, <2>2 DEF StartUpdate, EndUpdate, refreshVars, schedulerVars
  <2>3. CASE ReportUpdate(u, i)
    <3>0. commands \in Seq(Commands)
      BY DEF CoreInv, TypeInv, TypeOK
    <3>1. PICK x \in Commands : x.kind # "Apply" /\ commands' = Append(commands, x)
      BY <2>3, CommandFacts DEF ReportUpdate, TaskFinished
    <3>2. Sent' = Sent /\ \A j \in Sent : commands'[j] = commands[j]
      BY <3>0, <3>1, AppendFacts DEF Sent
    <3>3. timerMap' = timerMap /\ tasks' = tasks
      BY <2>3 DEF ReportUpdate, refreshVars, schedulerVars
    <3>. QED BY <3>2, <3>3 DEF FollowInv, Newest, Follows
  <2>. QED BY <2>1, <2>2, <2>3
<1>. QED BY <1>1, <1>2, <1>3, <1>4, <1>5, <1>6, <1>7 DEF Next

\* What is in the channel and the cache agree with the scheduler.
LEMMA FollowPlanned ==
    ASSUME CoreInv, FollowInv
    PROVE  SchedulerFollowsCache
<1>0. timerMap \in Maps /\ commands \in Seq(Commands)
  BY DEF CoreInv, TypeInv, TypeOK
<1>1. CASE Sent = {}
  <2>1. DOMAIN timerMap = {v \in Profiles : tasks[v].known /\ ~tasks[v].retired}
    BY <1>0, <1>1, MapFacts DEF FollowInv, Follows
  <2>2. timerMap = [u \in DOMAIN timerMap |-> timerMap[u]]
    BY <1>0, MapFacts
  <2>3. \A u \in DOMAIN timerMap : timerMap[u] = tasks[u].interval
    BY <1>0, <1>1, MapFacts DEF FollowInv, Follows
  <2>4. timerMap = [u \in {v \in Profiles : tasks[v].known /\ ~tasks[v].retired} |-> tasks[u].interval]
    BY <2>1, <2>2, <2>3
  <2>. QED BY <1>1, <2>4 DEF SchedulerFollowsCache, Planned, Sent
<1>2. CASE Sent # {}
  <2>1. PICK i \in Sent : Newest(i) /\ commands[i].map = timerMap
    BY <1>2 DEF FollowInv
  <2>2. \A j \in Sent : (\A l \in Sent : l <= j) => j = i
    <3>1. \A j \in Sent : j \in Nat
      BY <1>0 DEF Sent
    <3>. QED BY <2>1, <3>1 DEF Newest
  <2>3. (CHOOSE j \in Sent : \A l \in Sent : l <= j) = i
    BY <2>1, <2>2 DEF Newest
  <2>. QED BY <1>2, <2>1, <2>3 DEF SchedulerFollowsCache, Planned, Sent
<1>. QED BY <1>1, <1>2

\* The cached schedule is the one the scheduler follows once it took its commands, so
\* that a refresh that finds nothing changed may stay silent.
THEOREM SchedulerAlwaysFollowsCache == Spec => []SchedulerFollowsCache
<1>1. CoreInv /\ FollowInv => SchedulerFollowsCache
  BY FollowPlanned
<1>. QED BY <1>1, InitCore, NextCore, InitFollows, NextFollows, PTL DEF Spec

-----------------------------------------------------------------------------
(* The cache follows the options *)

\* refresh_lock is held from reading the options to publishing the map.
LockInv ==
    \A c \in Refreshers : refreshLock = c <=> callers[c].phase \in {"locked", "planned"}

Fresh(m) ==
    \A u \in Profiles : announced[u] =>
        /\ u \in DOMAIN m <=> Enabled(config[u])
        /\ Enabled(config[u]) => m[u] = config[u].interval

\* No announced change still waits for a refresh to read it.
Read ==
    /\ callers[Boot].phase # "idle"
    /\ \A c \in Refreshers : callers[c].phase \notin {"waiting", "locked"}

CacheInv ==
    Read => /\ \A c \in Refreshers : callers[c].phase = "planned" => Fresh(callers[c].map)
            /\ (\A c \in Refreshers : callers[c].phase # "planned") => Fresh(timerMap)

\* A change nobody refreshes for.
SilentChange ==
    \A u \in Profiles : announced'[u] => announced[u] /\ config'[u] = config[u]

LEMMA SilentFresh ==
    ASSUME SilentChange, NEW m, Fresh(m)
    PROVE  /\ \A u \in Profiles : announced'[u] =>
                 /\ u \in DOMAIN m <=> Enabled(config'[u])
                 /\ Enabled(config'[u]) => m[u] = config'[u].interval
BY DEF SilentChange, Fresh

LEMMA SetOptionSilent ==
    ASSUME TypeOK, NEW u \in Profiles, NEW option, SetOption(u, option, FALSE)
    PROVE  SilentChange
<1>1. /\ announced'[u] <=> announced[u] /\ option = config[u]
      /\ config'[u] = option
      /\ \A v \in Profiles : v # u => announced'[v] = announced[v] /\ config'[v] = config[v]
  BY DEF TypeOK, SetOption
<1>. QED BY <1>1 DEF SilentChange

LEMMA LandSilent ==
    ASSUME TypeOK, NEW u \in Profiles, NEW captured, Land(u, captured) \/ UNCHANGED profileVars
    PROVE  SilentChange
<1>1. CASE UNCHANGED profileVars
  BY <1>1 DEF profileVars, SilentChange
<1>2. ASSUME NEW header \in Intervals \cup {None},
             SetOption(u, Merge(config[u], Fetched(captured, header)), FALSE)
      PROVE  SilentChange
  BY <1>2, SetOptionSilent
<1>. QED BY <1>1, <1>2 DEF Land

Aside == {"patching", "fetching", "overdue", "running", "done", "failed"}

\* A step of a caller that holds no map before and after, and that changes no options
\* somebody waits to be read.
LEMMA BystanderCache ==
    ASSUME CoreInv, LockInv, CacheInv, NEW c \in Refreshers, SilentChange,
           \A d \in Refreshers : d # c => callers'[d] = callers[d],
           callers[c].phase \in Aside \cup {"idle"}, callers[c].phase = "idle" => c # Boot,
           callers'[c].phase \in Aside,
           timerMap' = timerMap, refreshLock' = refreshLock
    PROVE  LockInv' /\ CacheInv'
<1>1. LockInv'
  BY DEF LockInv, Aside
<1>2. ASSUME Read' PROVE Read
  BY <1>2 DEF Read, Refreshers, Aside
<1>3. ASSUME Read', NEW d \in Refreshers, callers'[d].phase = "planned"
      PROVE  Fresh(callers[d].map)'
  <2>1. d # c /\ callers'[d] = callers[d] /\ Fresh(callers[d].map)
    BY <1>2, <1>3 DEF CacheInv, Aside
  <2>. QED BY <2>1, SilentFresh DEF Fresh
<1>4. ASSUME Read', \A d \in Refreshers : callers'[d].phase # "planned"
      PROVE  Fresh(timerMap)'
  <2>1. \A d \in Refreshers : callers[d].phase # "planned"
    BY <1>4 DEF Aside
  <2>2. Fresh(timerMap)
    BY <1>2, <1>4, <2>1 DEF CacheInv
  <2>. QED BY <2>2, SilentFresh DEF Fresh
<1>. QED BY <1>1, <1>3, <1>4 DEF CacheInv

\* A step that calls for a refresh.
LEMMA AnnouncedCache ==
    ASSUME TypeInv, LockInv, NEW c \in Refreshers, Goto(c, "waiting"), refreshLock' = refreshLock,
           callers[c].phase \notin {"locked", "planned"}
    PROVE  LockInv' /\ CacheInv'
<1>1. callers'[c].phase = "waiting" /\ \A d \in Refreshers : d # c => callers'[d] = callers[d]
  BY DEF TypeInv, TypeOK, Goto
<1>. QED BY <1>1 DEF LockInv, CacheInv, Read

LEMMA CommandCache ==
    ASSUME CoreInv, LockInv, CacheInv, NEW c \in Callers, Command(c) \/ PatchCommit(c) \/ ManualEnd(c)
    PROVE  LockInv' /\ CacheInv'
<1>0. TypeInv /\ TypeOK /\ c \in Refreshers /\ c # Boot /\ callers \in [Refreshers -> Caller]
  BY AutoUpdateAssumption DEF CoreInv, TypeInv, TypeOK, Refreshers
<1>1. timerMap' = timerMap /\ refreshLock' = refreshLock
  BY DEF Command, PatchCompare, DeleteProfile, ManualStart, CallRefresh, PatchCommit, ManualEnd
<1>2. ASSUME NEW u \in Profiles, NEW option \in Offered, PatchCompare(c, u, option)
      PROVE  LockInv' /\ CacheInv'
  <2>1. /\ callers[c].phase = "idle" /\ callers'[c].phase = "patching"
        /\ \A d \in Refreshers : d # c => callers'[d] = callers[d]
    BY <1>0, <1>2 DEF PatchCompare, At, Idle
  <2>2. SilentChange
    BY <1>2 DEF PatchCompare, profileVars, SilentChange
  <2>3. callers'[c].phase \in Aside
    BY <2>1 DEF Aside
  <2>. QED BY <1>0, <1>1, <2>1, <2>2, <2>3, BystanderCache
<1>3. ASSUME NEW u \in Profiles, DeleteProfile(c, u) PROVE LockInv' /\ CacheInv'
  BY <1>0, <1>1, <1>3, AnnouncedCache DEF DeleteProfile, At
<1>4. ASSUME NEW u \in Profiles, ManualStart(c, u) PROVE LockInv' /\ CacheInv'
  <2>1. /\ callers[c].phase = "idle" /\ callers'[c].phase = "fetching"
        /\ \A d \in Refreshers : d # c => callers'[d] = callers[d]
    BY <1>0, <1>4 DEF ManualStart, At, Idle
  <2>2. SilentChange
    BY <1>4 DEF ManualStart, profileVars, SilentChange
  <2>3. callers'[c].phase \in Aside
    BY <2>1 DEF Aside
  <2>. QED BY <1>0, <1>1, <2>1, <2>2, <2>3, BystanderCache
<1>5. CASE CallRefresh(c)
  BY <1>0, <1>1, <1>5, AnnouncedCache DEF CallRefresh, At
<1>6. CASE PatchCommit(c)
  <2>1. callers[c].phase = "patching" /\ callers[c].uid \in Profiles /\ callers[c].refresh \in BOOLEAN
    BY <1>0, <1>6 DEF PatchCommit, At, TypeInv, CallersType, Caller
  <2>2. CASE Goto(c, "waiting")
    BY <1>0, <1>1, <2>1, <2>2, AnnouncedCache
  <2>3. CASE ~Goto(c, "waiting")
    <3>1. PICK x \in {"failed", "done"} : Goto(c, x)
      BY <1>6, <2>3 DEF PatchCommit
    <3>2. callers'[c].phase \in {"failed", "done"} /\ \A d \in Refreshers : d # c => callers'[d] = callers[d]
      BY <1>0, <3>1 DEF Goto
    <3>3. UNCHANGED profileVars \/ SetOption(callers[c].uid, callers[c].option, FALSE)
      <4>1. CASE callers[c].refresh
        BY <1>6, <2>3, <4>1 DEF PatchCommit
      <4>2. CASE callers[c].refresh = FALSE
        BY <1>6, <2>3, <4>2 DEF PatchCommit
      <4>. QED BY <2>1, <4>1, <4>2
    <3>4. SilentChange
      BY <1>0, <2>1, <3>3, SetOptionSilent DEF profileVars, SilentChange
    <3>5. callers[c].phase \in Aside /\ callers'[c].phase \in Aside
      BY <2>1, <3>2 DEF Aside
    <3>. QED BY <1>0, <1>1, <3>2, <3>4, <3>5, BystanderCache
  <2>. QED BY <2>2, <2>3
<1>7. CASE ManualEnd(c)
  <2>1. callers[c].phase = "fetching" /\ callers[c].uid \in Profiles
    BY <1>0, <1>7 DEF ManualEnd, At, TypeInv, CallersType
  <2>2. callers'[c].phase = "done" /\ \A d \in Refreshers : d # c => callers'[d] = callers[d]
    BY <1>0, <1>7 DEF ManualEnd, Goto
  <2>3. SilentChange
    BY <1>0, <1>7, <2>1, LandSilent DEF ManualEnd
  <2>4. callers[c].phase \in Aside /\ callers'[c].phase \in Aside
    BY <2>1, <2>2 DEF Aside
  <2>. QED BY <1>0, <1>1, <2>2, <2>3, <2>4, BystanderCache
<1>. QED BY <1>2, <1>3, <1>4, <1>5, <1>6, <1>7 DEF Command

\* Only the holder of refresh_lock has read the options or is about to.
LEMMA RefreshCache ==
    ASSUME CoreInv, LockInv, CacheInv, NEW c \in Refreshers, RefreshStep(c)
    PROVE  LockInv' /\ CacheInv'
<1>0. TypeOK /\ callers \in [Refreshers -> Caller] /\ None \notin Refreshers
  BY AutoUpdateAssumption DEF CoreInv, TypeInv, TypeOK
<1>1. \A d \in Refreshers : d # c => callers'[d] = callers[d]
  BY <1>0 DEF RefreshStep, LockRefresh, GenMap, PublishMap, Goto
<1>2. config' = config /\ announced' = announced
  BY DEF RefreshStep, LockRefresh, GenMap, PublishMap, profileVars
<1>3. CASE LockRefresh(c)
  <2>1. callers'[c].phase = "locked" /\ refreshLock = None /\ refreshLock' = c
    BY <1>0, <1>3 DEF LockRefresh, Goto
  <2>2. \A d \in Refreshers : callers[d].phase \notin {"locked", "planned"}
    BY <1>0, <2>1 DEF LockInv
  <2>3. LockInv'
    BY <1>1, <2>1, <2>2 DEF LockInv
  <2>4. ~Read'
    BY <2>1 DEF Read
  <2>. QED BY <2>3, <2>4 DEF CacheInv
<1>4. CASE GenMap(c)
  <2>1. /\ callers[c].phase = "locked" /\ callers'[c].phase = "planned"
        /\ callers'[c].map = [u \in EnabledProfiles |-> config[u].interval]
        /\ refreshLock' = refreshLock
    BY <1>0, <1>4 DEF GenMap, At, Caller
  <2>2. refreshLock = c
    BY <2>1 DEF LockInv
  <2>3. LockInv'
    BY <1>1, <2>1, <2>2 DEF LockInv
  <2>4. Fresh(callers[c].map)'
    BY <1>2, <2>1 DEF Fresh, EnabledProfiles
  <2>5. \A d \in Refreshers : callers'[d].phase = "planned" => d = c
    BY <2>1, <2>2, <2>3 DEF LockInv
  <2>6. callers'[c].phase = "planned"
    BY <2>1
  <2>. QED BY <2>3, <2>4, <2>5, <2>6 DEF CacheInv
<1>5. CASE PublishMap(c)
  <2>1. /\ callers[c].phase = "planned" /\ callers'[c].phase \in {"overdue", "done"}
        /\ timerMap' = callers[c].map /\ refreshLock' = None
    BY <1>0, <1>5 DEF PublishMap, At, Goto
  <2>2. refreshLock = c
    BY <2>1 DEF LockInv
  <2>3. \A d \in Refreshers : callers'[d].phase \notin {"locked", "planned"}
    BY <1>1, <2>1, <2>2 DEF LockInv
  <2>4. LockInv'
    BY <1>0, <2>1, <2>3 DEF LockInv
  <2>5. ASSUME Read' PROVE Fresh(timerMap)'
    <3>1. Read
      BY <1>1, <2>1, <2>5 DEF Read, Refreshers
    <3>2. Fresh(callers[c].map)
      BY <2>1, <3>1 DEF CacheInv
    <3>. QED BY <1>2, <2>1, <3>2 DEF Fresh
  <2>. QED BY <2>3, <2>4, <2>5 DEF CacheInv
<1>. QED BY <1>3, <1>4, <1>5 DEF RefreshStep

LEMMA InitStepCache ==
    ASSUME CoreInv, LockInv, CacheInv, InitStep
    PROVE  LockInv' /\ CacheInv'
<1>0. /\ TypeInv /\ Boot \in Refreshers /\ callers \in [Refreshers -> Caller]
      /\ timerMap' = timerMap /\ refreshLock' = refreshLock /\ UNCHANGED profileVars
  BY DEF CoreInv, TypeInv, TypeOK, Refreshers, InitStep, StartInit, FindOverdue, RunOverdue
<1>1. SilentChange
  BY <1>0 DEF profileVars, SilentChange
<1>2. CASE StartInit
  BY <1>0, <1>2, AnnouncedCache DEF StartInit, At
<1>3. CASE FindOverdue
  <2>1. callers[Boot].phase = "overdue" /\ \A d \in Refreshers : d # Boot => callers'[d] = callers[d]
    BY <1>0, <1>3 DEF FindOverdue, At
  <2>2. callers'[Boot].phase = "running"
    BY <1>0, <1>3 DEF FindOverdue, Caller
  <2>3. callers[Boot].phase \in Aside /\ callers'[Boot].phase \in Aside
    BY <2>1, <2>2 DEF Aside
  <2>. QED BY <1>0, <1>1, <2>1, <2>3, BystanderCache
<1>4. ASSUME NEW u \in Profiles, RunOverdue(u) PROVE LockInv' /\ CacheInv'
  <2>1. callers[Boot].phase = "running" /\ \A d \in Refreshers : d # Boot => callers'[d] = callers[d]
    BY <1>0, <1>4 DEF RunOverdue, At
  <2>2. callers'[Boot].phase = "running"
    BY <1>0, <1>4, <2>1 DEF RunOverdue, Caller
  <2>3. callers[Boot].phase \in Aside /\ callers'[Boot].phase \in Aside
    BY <2>1, <2>2 DEF Aside
  <2>. QED BY <1>0, <1>1, <2>1, <2>3, BystanderCache
<1>. QED BY <1>2, <1>3, <1>4 DEF InitStep

\* Whatever only updates profiles' contents, or the scheduler's state.
LEMMA ElsewhereCache ==
    ASSUME LockInv, CacheInv, SilentChange, UNCHANGED refreshVars
    PROVE  LockInv' /\ CacheInv'
<1>1. callers' = callers /\ refreshLock' = refreshLock /\ timerMap' = timerMap
  BY DEF refreshVars
<1>2. LockInv' /\ (Read' <=> Read)
  BY <1>1 DEF LockInv, Read
<1>3. ASSUME Read, NEW d \in Refreshers, callers[d].phase = "planned" PROVE Fresh(callers[d].map)'
  <2>1. Fresh(callers[d].map)
    BY <1>3 DEF CacheInv
  <2>. QED BY <1>1, <2>1, SilentFresh DEF Fresh
<1>4. ASSUME Read, \A d \in Refreshers : callers[d].phase # "planned" PROVE Fresh(timerMap)'
  <2>1. Fresh(timerMap)
    BY <1>4 DEF CacheInv
  <2>. QED BY <1>1, <2>1, SilentFresh DEF Fresh
<1>. QED BY <1>1, <1>2, <1>3, <1>4 DEF CacheInv

LEMMA InitCache == Init => LockInv /\ CacheInv
BY IdleType, AutoUpdateAssumption DEF Init, Idle, LockInv, CacheInv, Read, Refreshers

LEMMA NextCache == CoreInv /\ LockInv /\ CacheInv /\ [Next]_vars => LockInv' /\ CacheInv'
<1>. SUFFICES ASSUME CoreInv, LockInv, CacheInv, [Next]_vars PROVE LockInv' /\ CacheInv'
  OBVIOUS
<1>0. ASSUME UNCHANGED <<profileVars, refreshVars>> PROVE LockInv' /\ CacheInv'
  <2>1. SilentChange
    BY <1>0 DEF profileVars, SilentChange
  <2>. QED BY <1>0, <2>1, ElsewhereCache
<1>1. CASE UNCHANGED vars
  BY <1>0, <1>1 DEF vars, profileVars, refreshVars
<1>2. CASE \E c \in Callers : Command(c) \/ PatchCommit(c) \/ ManualEnd(c)
  BY <1>2, CommandCache
<1>3. CASE \E c \in Refreshers : RefreshStep(c)
  BY <1>3, RefreshCache
<1>4. CASE InitStep
  BY <1>4, InitStepCache
<1>5. CASE Scheduler
  BY <1>0, <1>5 DEF Scheduler, ReceiveApply, ReceiveRunNow, ReceiveTaskFinished, Receive
<1>6. ASSUME NEW u \in Profiles, NEW k \in Keys, Expire(u, k) PROVE LockInv' /\ CacheInv'
  BY <1>0, <1>6 DEF Expire
<1>7. ASSUME NEW u \in Profiles, UpdateStep(u) PROVE LockInv' /\ CacheInv'
  <2>1. PICK i \in DOMAIN jobs[u] : StartUpdate(u, i) \/ EndUpdate(u, i) \/ ReportUpdate(u, i)
    BY <1>7 DEF UpdateStep
  <2>2. CASE StartUpdate(u, i) \/ ReportUpdate(u, i)
    BY <1>0, <2>2 DEF StartUpdate, ReportUpdate
  <2>3. CASE EndUpdate(u, i)
    <3>1. TypeOK /\ UNCHANGED refreshVars
      BY <2>3 DEF EndUpdate, CoreInv, TypeInv
    <3>2. SilentChange
      BY <2>3, <3>1, LandSilent DEF EndUpdate
    <3>. QED BY <3>1, <3>2, ElsewhereCache
  <2>. QED BY <2>1, <2>2, <2>3
<1>. QED BY <1>1, <1>2, <1>3, <1>4, <1>5, <1>6, <1>7 DEF Next

\* Once every refresh has ended, the cache holds the options of each profile whose last
\* change was announced, however the refreshes overlapped.
THEOREM CacheAlwaysFollowsOptions == Spec => []CacheFollowsOptions
<1>1. CoreInv /\ CacheInv => CacheFollowsOptions
  <2>. SUFFICES ASSUME CacheInv, callers[Boot].phase \in {"overdue", "running"},
                       \A c \in Callers : callers[c].phase \notin {"waiting", "locked", "planned"}
                PROVE  Fresh(timerMap)
    BY DEF CacheFollowsOptions, Fresh
  <2>1. Read /\ \A c \in Refreshers : callers[c].phase # "planned"
    BY DEF Read, Refreshers
  <2>. QED BY <2>1 DEF CacheInv
<1>. QED BY <1>1, InitCore, NextCore, InitCache, NextCache, PTL DEF Spec

(* Each profile has one entry in the queue or one update under way. *)
THEOREM QueueAlwaysServesOneUpdate == Spec => []QueueServesOneUpdate
BY QueueAlwaysMatchesTasks, OneUpdateAlways, PTL DEF QueueServesOneUpdate

(* What the scheduler follows is the cache, and the cache what was announced. *)
THEOREM ScheduleAlwaysFollowsOptions == Spec => []ScheduleFollowsOptions
BY SchedulerAlwaysFollowsCache, CacheAlwaysFollowsOptions, PTL DEF ScheduleFollowsOptions

-----------------------------------------------------------------------------
(* Upgrades of the core: the inductive invariant *)

UpgradeSpec == UpgradeInit /\ [][UpgradeNext]_upgradeVars

\* Calls are not the mark of a free lock, and releases are counted from one.
UpgradeBounds == Missing \notin Upgrades /\ MaxRelease \in Nat \ {0}

Versions == 1 .. MaxRelease
Over     == {"idle", "upgraded", "current", "failed"}
Before   == {"resolve", "download", "link", "publish", "swap"}
Underway(u) == upgrade[u].phase \notin Over

\* The call that is under way holds the lock, and nobody else does.
OneUpgrade == \A u \in Upgrades : Underway(u) <=> upgradeLock = u

\* What a call has found out: the version it read is the managed core's, the core it keeps is
\* that one, it has staged and published what it asked for, and the Service has approved it.
JobFits(job) ==
    /\ job.phase = "idle" => job = FreshUpgrade
    /\ job.phase \in Before => job.staging = "NotAttempted"
    /\ job.phase \notin {"clean", "upgraded", "current", "failed"} => job.ran = Missing
    /\ job.phase \in {"resolve", "download", "link"} =>
         ~job.restorable /\ (job.installed # Missing => target = job.installed /\ target \in Versions)
    /\ job.phase \in {"publish", "swap", "stage", "restart", "recover"} /\ job.restorable => rollback \in Versions
    /\ job.phase \in {"download", "link", "publish", "swap"} => job.wanted \in Versions
    /\ job.phase \in {"link", "publish", "swap"} => job.staged = job.wanted
    /\ job.phase \in {"stage", "restart"} =>
         /\ target = job.wanted /\ job.wanted \in Versions
         /\ job.staging = IF job.phase = "restart" /\ job.service THEN "Succeeded" ELSE "NotAttempted"
    /\ job.phase = "restart" /\ job.service => approved = job.wanted
    /\ job.phase \in {"restage", "again"} => target \in Versions

\* What the call has started in the end is what it asked for.
RanFits(job) ==
    /\ job.phase = "upgraded" => job.ran # Missing
    /\ job.phase \in {"clean", "upgraded", "current", "failed"} /\ job.ran # Missing /\ job.service =>
         job.ran = job.wanted

\* While the managed core is moved aside there is the displaced one, and the last step of a call
\* that leaves without a core keeps it.
CopyFits(job) ==
    /\ job.phase = "swap" => target = Missing /\ displaced # Missing
    /\ job.phase = "clean" /\ target = Missing =>
         /\ job.ran = Missing
         /\ job.restorable => upgradeFailures >= 1 /\ (accidents = 0 => upgradeFailures >= 3)

\* A core is as approved, or `apart` says why it is not.
Agreed(file) == file = approved \/ apart # {}

\* The managed core is as approved but between the moment one of them is replaced and the moment
\* the other follows; then the copy that may come back is.
FollowFits(job) ==
    /\ job.phase \in {"resolve", "download", "link", "publish", "restart", "again", "clean"} => Agreed(target)
    /\ job.phase = "swap" => Agreed(displaced)
    /\ job.phase \in {"publish", "swap", "stage", "restart", "recover"} /\ job.restorable /\ job.staging # "Succeeded" =>
         Agreed(rollback)
    /\ job.phase = "recover" => Agreed(target) \/ target = Missing \/ job.staging = "Refused"

CallFits(job) == JobFits(job) /\ RanFits(job) /\ CopyFits(job) /\ FollowFits(job)

\* Without a kill, only a failed publication that could not be undone leaves no managed core.
CoreFits ==
    /\ target = Missing => platform = "windows"
    /\ target = Missing /\ accidents = 0 /\ (\A u \in Upgrades : ~Doing(u, "swap")) => upgradeFailures >= 2
    /\ upgradeLock = Missing => Agreed(target)

UpgradeTypes ==
    /\ UpgradeTypeOK /\ release \in Versions /\ upgradeFailures \in Nat /\ accidents \in Nat
    /\ coreMode = "Sidecar" => runs # Missing

UpgradeInv ==
    /\ UpgradeTypes /\ OneUpgrade /\ CoreFits /\ ACoreIsThere
    /\ \A u \in Upgrades : CallFits(upgrade[u])

-----------------------------------------------------------------------------
(* Upgrades of the core: what every step does *)

\* The call that moves holds the lock, or takes it while it is free: all others rest.
LEMMA OthersRest ==
  ASSUME UpgradeBounds, UpgradeInv, NEW u \in Upgrades, Underway(u) \/ upgradeLock = Missing,
         NEW job, Become(u, job)
  PROVE  /\ upgrade'[u] = job
         /\ \A w \in Upgrades \ {u} :
              upgrade'[w] = upgrade[w] /\ ~Underway(w) /\ CallFits(upgrade[w])'
<1>1. upgrade'[u] = job /\ \A w \in Upgrades \ {u} : upgrade'[w] = upgrade[w] /\ ~Underway(w)
  BY DEF UpgradeInv, UpgradeTypes, UpgradeTypeOK, OneUpgrade, UpgradeBounds, Become
<1>2. ASSUME NEW w \in Upgrades \ {u} PROVE CallFits(upgrade[w])'
  <2>1. CallFits(upgrade[w]) /\ upgrade'[w] = upgrade[w] /\ upgrade[w].phase \in Over
    BY <1>1, <1>2 DEF UpgradeInv, Underway
  <2> QED BY <2>1 DEF CallFits, JobFits, CopyFits, FollowFits, Over
<1> QED BY <1>1, <1>2

\* So a step of a call is right when it is right for the call itself.
LEMMA CallSteps ==
  ASSUME UpgradeBounds, UpgradeInv, NEW u \in Upgrades, Underway(u) \/ upgradeLock = Missing,
         NEW job \in UpgradeJob, Become(u, job),
         upgradeLock' = IF job.phase \in Over THEN Missing ELSE u,
         CallFits(job)'
  PROVE  OneUpgrade' /\ upgrade' \in [Upgrades -> UpgradeJob] /\ \A w \in Upgrades : CallFits(upgrade[w])'
<1>1. upgrade' \in [Upgrades -> UpgradeJob]
  BY DEF Become, UpgradeInv, UpgradeTypes, UpgradeTypeOK
<1>2. OneUpgrade'
  BY OthersRest DEF OneUpgrade, Underway, UpgradeBounds
<1> QED BY <1>1, <1>2, OthersRest

\* What is known of a call at one of its steps.
LEMMA CallIsKnown ==
  ASSUME UpgradeBounds, UpgradeInv, NEW u \in Upgrades
  PROVE  /\ upgrade[u] \in UpgradeJob /\ CallFits(upgrade[u])
         /\ upgrade[u].phase \notin Over <=> upgradeLock = u
         /\ UpgradeTypes /\ CoreFits /\ ACoreIsThere
BY DEF UpgradeInv, UpgradeTypes, UpgradeTypeOK, OneUpgrade, Underway

\* The numbers.
LEMMA FilesFit ==
  ASSUME UpgradeBounds, UpgradeTypes
  PROVE  /\ release \in 0 .. MaxRelease /\ 0 .. MaxRelease \subseteq Files /\ Missing \in Files
         /\ target \in Files /\ rollback \in Files /\ displaced \in Files /\ upgradeFailures \in Nat
         /\ approved \in Files /\ runs \in Files
         /\ \A v \in Versions : v # Missing /\ v \in Files
         /\ \A f \in Files : Readable(f) <=> f \in Versions
BY DEF UpgradeTypes, UpgradeTypeOK, Versions, Files, Missing, Broken, Readable

-----------------------------------------------------------------------------
(* Upgrades of the core: one lemma for each step *)

LEMMA StartFits ==
  ASSUME UpgradeBounds, UpgradeInv, NEW u \in Upgrades, StartUpgrade(u)
  PROVE  UpgradeInv'
<1> DEFINE old == upgrade[u]
<1>1. /\ old \in UpgradeJob /\ CallFits(old) /\ old.phase = "idle"
      /\ UpgradeTypes /\ CoreFits /\ ACoreIsThere /\ upgradeLock = Missing
  BY CallIsKnown DEF StartUpgrade, Doing, Serialized
<1>2. PICK job :
        /\ Become(u, job) /\ upgradeLock' = u
        /\ \E force \in BOOLEAN : job = [old EXCEPT !.phase = "resolve", !.force = force,
                    !.installed = IF Readable(target) THEN target ELSE Missing]
  BY DEF StartUpgrade, Serialized
<1>3. UNCHANGED <<platform, release, target, rollback, displaced, approved, coreMode, runs, apart, upgradeFailures, accidents>>
  BY DEF StartUpgrade, Staying, outside, files, core
<1>4. job \in UpgradeJob
  BY <1>1, <1>2, FilesFit DEF UpgradeJob, UpgradePhases
<1>5. /\ upgradeLock' = u
      /\ job.phase = "resolve" /\ job.staging = "NotAttempted" /\ ~job.restorable /\ job.ran = Missing
      /\ job.installed # Missing => job.installed = target /\ target \in Versions
  BY <1>1, <1>2, FilesFit DEF CallFits, JobFits, FreshUpgrade
<1>6. JobFits(job)'
  BY <1>1, <1>3, <1>4, <1>5 DEF JobFits
<1>7. RanFits(job)'
  BY <1>1, <1>3, <1>4, <1>5 DEF RanFits
<1>8. CopyFits(job)'
  BY <1>1, <1>3, <1>4, <1>5 DEF CopyFits
<1>9. FollowFits(job)'
  BY <1>1, <1>3, <1>4, <1>5 DEF FollowFits, Agreed, CoreFits
<1>10. /\ OneUpgrade' /\ upgrade' \in [Upgrades -> UpgradeJob] /\ \A w \in Upgrades : CallFits(upgrade[w])'
       /\ job = upgrade'[u] /\ \A w \in Upgrades \ {u} : upgrade'[w] = upgrade[w] /\ ~Underway(w)
  BY <1>1, <1>2, <1>3, <1>4, <1>5, <1>6, <1>7, <1>8, <1>9, CallSteps, OthersRest DEF CallFits, Over
<1>11. CoreFits'
  BY <1>1, <1>3, <1>4, <1>5, <1>10 DEF CoreFits, UpgradeBounds, Doing
<1>12. ACoreIsThere'
  BY <1>1, <1>3, <1>4, <1>5, <1>10 DEF ACoreIsThere
<1>13. UpgradeTypes'
  BY <1>1, <1>3, <1>4, <1>5, <1>10 DEF UpgradeTypes, UpgradeTypeOK
<1> QED BY <1>10, <1>11, <1>12, <1>13 DEF UpgradeInv

LEMMA ResolveFits ==
  ASSUME UpgradeBounds, UpgradeInv, NEW u \in Upgrades, Resolve(u)
  PROVE  UpgradeInv'
<1> DEFINE old == upgrade[u]
<1>1. /\ old \in UpgradeJob /\ CallFits(old) /\ old.phase = "resolve"
      /\ UpgradeTypes /\ CoreFits /\ ACoreIsThere /\ upgradeLock = u
  BY CallIsKnown DEF Resolve, Doing, Over
<1>2. PICK job :
        /\ Become(u, job)
        /\ \/ job = [old EXCEPT !.phase = "current", !.staged = Missing] /\ upgradeLock' = Missing
           \/ job = [old EXCEPT !.phase = "failed", !.staged = Missing] /\ upgradeLock' = Missing
           \/ job = [old EXCEPT !.phase = "download", !.wanted = release] /\ UNCHANGED upgradeLock
  BY DEF Resolve, Ends
<1>3. UNCHANGED <<platform, release, target, rollback, displaced, approved, coreMode, runs, apart, accidents>>
  BY DEF Resolve, Staying, outside, files, core
<1>4. upgradeFailures' \in Nat /\ upgradeFailures' >= upgradeFailures
  BY <1>1, FilesFit DEF Succeeds, FailsAlone, Resolve
<1>5. job \in UpgradeJob
  BY <1>1, <1>2, FilesFit DEF UpgradeJob, UpgradePhases
<1>6. /\ job.installed = old.installed /\ job.restorable = old.restorable /\ job.service = old.service /\ job.staging = old.staging /\ job.ran = old.ran
      /\ \/ job.phase = "download" /\ job.wanted = release /\ UNCHANGED upgradeLock
         \/ job.phase \in {"current", "failed"} /\ upgradeLock' = Missing
  BY <1>1, <1>2 DEF UpgradeJob
<1>7. JobFits(job)'
  BY <1>1, <1>3, <1>4, <1>5, <1>6 DEF CallFits, JobFits, UpgradeTypes, Before
<1>8. RanFits(job)'
  BY <1>1, <1>3, <1>4, <1>5, <1>6 DEF CallFits, JobFits, RanFits
<1>9. CopyFits(job)'
  BY <1>1, <1>3, <1>4, <1>5, <1>6 DEF CopyFits
<1>10. FollowFits(job)'
  BY <1>1, <1>3, <1>4, <1>5, <1>6 DEF CallFits, FollowFits, Agreed
<1>11. /\ OneUpgrade' /\ upgrade' \in [Upgrades -> UpgradeJob] /\ \A w \in Upgrades : CallFits(upgrade[w])'
       /\ job = upgrade'[u] /\ \A w \in Upgrades \ {u} : upgrade'[w] = upgrade[w] /\ ~Underway(w)
  BY <1>1, <1>2, <1>3, <1>5, <1>6, <1>7, <1>8, <1>9, <1>10, CallSteps, OthersRest DEF CallFits, Over,
     Underway
<1>12. CoreFits'
  BY <1>1, <1>3, <1>4, <1>5, <1>6, <1>11 DEF CoreFits, CallFits, FollowFits, Agreed, Doing, UpgradeTypes
<1>13. ACoreIsThere'
  BY <1>1, <1>3, <1>4, <1>5, <1>6, <1>11 DEF ACoreIsThere, UpgradeTypes
<1>14. UpgradeTypes'
  BY <1>1, <1>3, <1>4, <1>5, <1>6, <1>11 DEF UpgradeTypes, UpgradeTypeOK
<1> QED BY <1>11, <1>12, <1>13, <1>14 DEF UpgradeInv

LEMMA StageCoreFits ==
  ASSUME UpgradeBounds, UpgradeInv, NEW u \in Upgrades, StageCore(u)
  PROVE  UpgradeInv'
<1> DEFINE old == upgrade[u]
<1>1. /\ old \in UpgradeJob /\ CallFits(old) /\ old.phase = "download"
      /\ UpgradeTypes /\ CoreFits /\ ACoreIsThere /\ upgradeLock = u
  BY CallIsKnown DEF StageCore, Doing, Over
<1>2. PICK job :
        /\ Become(u, job)
        /\ \/ job = [old EXCEPT !.phase = "failed", !.staged = Missing] /\ upgradeLock' = Missing
           \/ job = [old EXCEPT !.phase = "link", !.staged = old.wanted] /\ UNCHANGED upgradeLock
  BY DEF StageCore, Ends
<1>3. UNCHANGED <<platform, release, target, rollback, displaced, approved, coreMode, runs, apart, accidents>>
  BY DEF StageCore, Staying, outside, files, core
<1>4. upgradeFailures' \in Nat /\ upgradeFailures' >= upgradeFailures
  BY <1>1, FilesFit DEF Succeeds, FailsAlone, StageCore
<1>5. job \in UpgradeJob
  BY <1>1, <1>2, FilesFit DEF UpgradeJob, UpgradePhases
<1>6. /\ job.installed = old.installed /\ job.wanted = old.wanted /\ job.restorable = old.restorable /\ job.service = old.service /\ job.staging = old.staging /\ job.ran = old.ran
      /\ \/ job.phase = "link" /\ job.staged = old.wanted /\ UNCHANGED upgradeLock
         \/ job.phase = "failed" /\ upgradeLock' = Missing
  BY <1>1, <1>2 DEF UpgradeJob
<1>7. JobFits(job)'
  BY <1>1, <1>3, <1>4, <1>5, <1>6 DEF CallFits, JobFits, Before
<1>8. RanFits(job)'
  BY <1>1, <1>3, <1>4, <1>5, <1>6 DEF CallFits, JobFits, RanFits
<1>9. CopyFits(job)'
  BY <1>1, <1>3, <1>4, <1>5, <1>6 DEF CopyFits
<1>10. FollowFits(job)'
  BY <1>1, <1>3, <1>4, <1>5, <1>6 DEF CallFits, FollowFits, Agreed
<1>11. /\ OneUpgrade' /\ upgrade' \in [Upgrades -> UpgradeJob] /\ \A w \in Upgrades : CallFits(upgrade[w])'
       /\ job = upgrade'[u] /\ \A w \in Upgrades \ {u} : upgrade'[w] = upgrade[w] /\ ~Underway(w)
  BY <1>1, <1>2, <1>3, <1>5, <1>6, <1>7, <1>8, <1>9, <1>10, CallSteps, OthersRest DEF CallFits, Over,
     Underway
<1>12. CoreFits'
  BY <1>1, <1>3, <1>4, <1>5, <1>6, <1>11 DEF CoreFits, CallFits, FollowFits, Agreed, Doing, UpgradeTypes
<1>13. ACoreIsThere'
  BY <1>1, <1>3, <1>4, <1>5, <1>6, <1>11 DEF ACoreIsThere, UpgradeTypes
<1>14. UpgradeTypes'
  BY <1>1, <1>3, <1>4, <1>5, <1>6, <1>11 DEF UpgradeTypes, UpgradeTypeOK
<1> QED BY <1>11, <1>12, <1>13, <1>14 DEF UpgradeInv

LEMMA LinkRollbackFits ==
  ASSUME UpgradeBounds, UpgradeInv, NEW u \in Upgrades, LinkRollback(u)
  PROVE  UpgradeInv'
<1> DEFINE old == upgrade[u]
<1>1. /\ old \in UpgradeJob /\ CallFits(old) /\ old.phase = "link"
      /\ UpgradeTypes /\ CoreFits /\ ACoreIsThere /\ upgradeLock = u
  BY CallIsKnown DEF LinkRollback, Doing, Over
<1>2. PICK job :
        /\ Become(u, job)
        /\ \E restorable \in BOOLEAN :
             /\ job = [old EXCEPT !.phase = "publish", !.restorable = restorable, !.service = (coreMode = "Service")]
             /\ restorable => old.installed # Missing
             /\ rollback' = IF restorable THEN target ELSE Missing
  BY DEF LinkRollback
<1>3. UNCHANGED <<platform, release, upgradeLock, target, displaced, approved, coreMode, runs, apart, accidents>>
  BY DEF LinkRollback, Staying, outside, core
<1>4. upgradeFailures' \in Nat /\ upgradeFailures' >= upgradeFailures
  BY <1>1, FilesFit DEF Succeeds, FailsAlone, LinkRollback
<1>5. job \in UpgradeJob
  BY <1>1, <1>2 DEF UpgradeJob, UpgradePhases
<1>6. /\ job.phase = "publish" /\ job.installed = old.installed /\ job.wanted = old.wanted /\ job.staged = old.staged /\ job.staging = old.staging /\ job.ran = old.ran
      /\ job.restorable => old.installed # Missing /\ rollback' = target
      /\ ~job.restorable => rollback' = Missing
  BY <1>1, <1>2
<1>7. JobFits(job)'
  BY <1>1, <1>3, <1>4, <1>5, <1>6 DEF CallFits, JobFits, Before
<1>8. RanFits(job)'
  BY <1>1, <1>3, <1>4, <1>5, <1>6 DEF RanFits
<1>9. CopyFits(job)'
  BY <1>1, <1>3, <1>4, <1>5, <1>6 DEF CopyFits
<1>10. FollowFits(job)'
  BY <1>1, <1>3, <1>4, <1>5, <1>6 DEF CallFits, FollowFits, Agreed
<1>11. /\ OneUpgrade' /\ upgrade' \in [Upgrades -> UpgradeJob] /\ \A w \in Upgrades : CallFits(upgrade[w])'
       /\ job = upgrade'[u] /\ \A w \in Upgrades \ {u} : upgrade'[w] = upgrade[w] /\ ~Underway(w)
  BY <1>1, <1>2, <1>3, <1>5, <1>6, <1>7, <1>8, <1>9, <1>10, CallSteps, OthersRest DEF CallFits, Over,
     Underway
<1>12. CoreFits'
  BY <1>1, <1>3, <1>4, <1>5, <1>6, <1>11 DEF CoreFits, UpgradeBounds, Doing, UpgradeTypes
<1>13. ACoreIsThere'
  BY <1>1, <1>3, <1>4, <1>5, <1>6, <1>11 DEF ACoreIsThere, UpgradeTypes
<1>14. UpgradeTypes'
  BY <1>1, <1>3, <1>4, <1>5, <1>6, <1>11 DEF UpgradeTypes, UpgradeTypeOK, Files
<1> QED BY <1>11, <1>12, <1>13, <1>14 DEF UpgradeInv

LEMMA PublishFits ==
  ASSUME UpgradeBounds, UpgradeInv, NEW u \in Upgrades, Publish(u)
  PROVE  UpgradeInv'
<1> DEFINE old == upgrade[u]
<1>1. /\ old \in UpgradeJob /\ CallFits(old) /\ old.phase = "publish"
      /\ UpgradeTypes /\ CoreFits /\ ACoreIsThere /\ upgradeLock = u
  BY CallIsKnown DEF Publish, Doing, Over
<1>2. PICK job :
        /\ Become(u, job)
        /\ \/ /\ job = [old EXCEPT !.phase = "stage", !.staged = Missing]
              /\ target' = old.staged /\ UNCHANGED displaced
           \/ /\ job = [old EXCEPT !.phase = "recover", !.staged = Missing]
              /\ platform = "unix" /\ UNCHANGED <<target, displaced>>
           \/ /\ job = [old EXCEPT !.phase = "recover", !.staged = Missing]
              /\ platform = "windows" /\ target = Missing /\ target' = Missing /\ displaced' = Missing
              /\ InTheWay \/ FailsAlone
           \/ /\ job = [old EXCEPT !.phase = "swap"] /\ platform = "windows"
              /\ target # Missing /\ target' = Missing /\ displaced' = target
           \/ /\ job = [old EXCEPT !.phase = "recover", !.staged = Missing] /\ InTheWay /\ FailsAlone
              /\ displaced' = Missing /\ UNCHANGED target
  BY DEF Publish, Published, NotPublished, StepsTo
<1>3. UNCHANGED <<platform, release, upgradeLock, rollback, approved, coreMode, runs, apart, accidents>>
  BY DEF Publish, Staying, outside, core
<1>4. upgradeFailures' \in Nat /\ upgradeFailures' >= upgradeFailures
  BY <1>1, FilesFit DEF Succeeds, FailsAlone, Publish
<1>5. job \in UpgradeJob
  BY <1>1, <1>2, FilesFit DEF UpgradeJob, UpgradePhases
<1>6. /\ job.installed = old.installed /\ job.wanted = old.wanted /\ job.restorable = old.restorable /\ job.service = old.service /\ job.staging = old.staging /\ job.ran = old.ran
      /\ \/ job.phase = "stage" /\ target' = old.staged /\ UNCHANGED displaced
         \/ job.phase = "recover" /\ UNCHANGED <<target, displaced>> /\ platform = "unix"
         \/ /\ job.phase = "recover" /\ platform = "windows" /\ UNCHANGED target
            /\ displaced' = Missing /\ upgradeFailures' = upgradeFailures + 1
         \/ /\ job.phase = "swap" /\ platform = "windows" /\ job.staged = old.staged
            /\ target # Missing /\ displaced' = target /\ target' = Missing
  BY <1>1, <1>2 DEF UpgradeJob, FailsAlone, InTheWay, UpgradeTypes
<1>7. JobFits(job)'
  BY <1>1, <1>3, <1>4, <1>5, <1>6 DEF CallFits, JobFits, Before
<1>8. RanFits(job)'
  BY <1>1, <1>3, <1>4, <1>5, <1>6 DEF RanFits
<1>9. CopyFits(job)'
  BY <1>1, <1>3, <1>4, <1>5, <1>6 DEF CopyFits
<1>10. FollowFits(job)'
  BY <1>1, <1>3, <1>4, <1>5, <1>6 DEF CallFits, FollowFits, Agreed
<1>11. /\ OneUpgrade' /\ upgrade' \in [Upgrades -> UpgradeJob] /\ \A w \in Upgrades : CallFits(upgrade[w])'
       /\ job = upgrade'[u] /\ \A w \in Upgrades \ {u} : upgrade'[w] = upgrade[w] /\ ~Underway(w)
  BY <1>1, <1>2, <1>3, <1>5, <1>6, <1>7, <1>8, <1>9, <1>10, CallSteps, OthersRest DEF CallFits, Over,
     Underway
<1>12. CoreFits'
  <2>1. /\ (\E w \in Upgrades : Doing(w, "swap")) <=> old.phase = "swap"
        /\ (\E w \in Upgrades : Doing(w, "swap"))' <=> job.phase = "swap"
        /\ upgradeLock' # Missing
    BY <1>1, <1>3, <1>11 DEF Doing, Underway, Over, UpgradeBounds
  <2>2. CASE job.phase = "stage" /\ target' = old.staged
    BY <1>1, <1>3, <1>4, <1>6, <2>1, <2>2, FilesFit DEF CoreFits, CallFits, JobFits
  <2>3. CASE job.phase = "recover" /\ UNCHANGED target
    BY <1>1, <1>3, <1>4, <1>6, <2>1, <2>3 DEF CoreFits, UpgradeTypes
  <2>4. CASE job.phase = "swap"
    BY <1>1, <1>3, <1>4, <1>6, <2>1, <2>4 DEF CoreFits
  <2> QED BY <1>6, <2>2, <2>3, <2>4
<1>13. ACoreIsThere'
  BY <1>1, <1>3, <1>4, <1>6, <1>11, <1>12, FilesFit DEF CoreFits, ACoreIsThere, CallFits, JobFits,
     CopyFits, Doing
<1>14. UpgradeTypes'
  BY <1>1, <1>3, <1>4, <1>5, <1>6, <1>11 DEF CallFits, JobFits, UpgradeTypes, UpgradeTypeOK, Files,
     Versions
<1> QED BY <1>11, <1>12, <1>13, <1>14 DEF UpgradeInv

LEMMA SwapFits ==
  ASSUME UpgradeBounds, UpgradeInv, NEW u \in Upgrades, Swap(u)
  PROVE  UpgradeInv'
<1> DEFINE old == upgrade[u]
<1>1. /\ old \in UpgradeJob /\ CallFits(old) /\ old.phase = "swap"
      /\ UpgradeTypes /\ CoreFits /\ ACoreIsThere /\ upgradeLock = u
  BY CallIsKnown DEF Swap, Doing, Over
<1>2. PICK job :
        /\ Become(u, job)
        /\ \/ /\ job = [old EXCEPT !.phase = "stage", !.staged = Missing]
              /\ target' = old.staged /\ displaced' \in {displaced, Missing}
           \/ /\ job = [old EXCEPT !.phase = "recover", !.staged = Missing]
              /\ target' = displaced /\ displaced' = Missing
           \/ /\ job = [old EXCEPT !.phase = "recover", !.staged = Missing]
              /\ UNCHANGED <<target, displaced>> /\ upgradeFailures' = upgradeFailures + 2
  BY DEF Swap, Published, NotPublished
<1>3. UNCHANGED <<platform, release, upgradeLock, rollback, approved, coreMode, runs, apart, accidents>>
  BY DEF Swap, Staying, outside, core
<1>4. upgradeFailures' \in Nat /\ upgradeFailures' >= upgradeFailures
  BY <1>1, FilesFit DEF Succeeds, FailsAlone, Swap
<1>5. job \in UpgradeJob
  BY <1>1, <1>2, FilesFit DEF UpgradeJob, UpgradePhases
<1>6. /\ job.installed = old.installed /\ job.wanted = old.wanted /\ job.restorable = old.restorable /\ job.service = old.service /\ job.staging = old.staging /\ job.ran = old.ran
      /\ \/ job.phase = "stage" /\ target' = old.staged /\ displaced' \in {displaced, Missing}
         \/ job.phase = "recover" /\ target' = displaced /\ displaced' = Missing
         \/ job.phase = "recover" /\ UNCHANGED <<target, displaced>> /\ upgradeFailures' = upgradeFailures + 2
  BY <1>1, <1>2 DEF UpgradeJob
<1>7. JobFits(job)'
  BY <1>1, <1>3, <1>4, <1>5, <1>6 DEF CallFits, JobFits, Before
<1>8. RanFits(job)'
  BY <1>1, <1>3, <1>4, <1>5, <1>6 DEF RanFits
<1>9. CopyFits(job)'
  BY <1>1, <1>3, <1>4, <1>5, <1>6 DEF CopyFits
<1>10. FollowFits(job)'
  BY <1>1, <1>3, <1>4, <1>5, <1>6 DEF CallFits, CopyFits, FollowFits, Agreed
<1>11. /\ OneUpgrade' /\ upgrade' \in [Upgrades -> UpgradeJob] /\ \A w \in Upgrades : CallFits(upgrade[w])'
       /\ job = upgrade'[u] /\ \A w \in Upgrades \ {u} : upgrade'[w] = upgrade[w] /\ ~Underway(w)
  BY <1>1, <1>2, <1>3, <1>5, <1>6, <1>7, <1>8, <1>9, <1>10, CallSteps, OthersRest DEF CallFits, Over,
     Underway
<1>12. CoreFits'
  <2>1. /\ (\E w \in Upgrades : Doing(w, "swap")) <=> old.phase = "swap"
        /\ (\E w \in Upgrades : Doing(w, "swap"))' <=> job.phase = "swap"
        /\ upgradeLock' # Missing
    BY <1>1, <1>3, <1>11 DEF Doing, Underway, Over, UpgradeBounds
  <2>2. CASE job.phase = "stage"
    BY <1>1, <1>3, <1>4, <1>6, <2>1, <2>2, FilesFit DEF CoreFits, CallFits, JobFits
  <2>3. CASE job.phase = "recover" /\ target' = displaced
    BY <1>1, <1>3, <1>4, <1>6, <2>1, <2>3 DEF CoreFits, CallFits, CopyFits
  <2>4. CASE job.phase = "recover" /\ UNCHANGED target /\ upgradeFailures' = upgradeFailures + 2
    BY <1>1, <1>3, <1>4, <1>6, <2>1, <2>4 DEF CoreFits, UpgradeTypes
  <2> QED BY <1>6, <2>2, <2>3, <2>4
<1>13. ACoreIsThere'
  BY <1>1, <1>3, <1>4, <1>6, <1>11, <1>12, FilesFit DEF ACoreIsThere, CallFits, JobFits, CopyFits
<1>14. UpgradeTypes'
  BY <1>1, <1>3, <1>4, <1>5, <1>6, <1>11 DEF CallFits, JobFits, UpgradeTypes, UpgradeTypeOK, Files,
     Versions
<1> QED BY <1>11, <1>12, <1>13, <1>14 DEF UpgradeInv

LEMMA HandOverFits ==
  ASSUME UpgradeBounds, UpgradeInv, NEW u \in Upgrades, HandOver(u)
  PROVE  UpgradeInv'
<1> DEFINE old == upgrade[u]
<1>1. /\ old \in UpgradeJob /\ CallFits(old) /\ old.phase = "stage"
      /\ UpgradeTypes /\ CoreFits /\ ACoreIsThere /\ upgradeLock = u
  BY CallIsKnown DEF HandOver, Doing, Over
<1>2. PICK job :
        /\ Become(u, job)
        /\ \/ /\ job = [old EXCEPT !.phase = "restart", !.staging = "Succeeded"] /\ old.service
              /\ approved' = target /\ apart' = {}
           \/ /\ job = [old EXCEPT !.phase = "recover", !.staging = "Refused"]
              /\ UNCHANGED <<approved, apart>>
           \/ /\ job = [old EXCEPT !.phase = "restart"] /\ ~old.service /\ UNCHANGED approved
              /\ apart' = apart \cup (IF target # approved THEN {"sidecar"} ELSE {})
  BY DEF HandOver, StepsTo, Approve
<1>3. UNCHANGED <<platform, release, upgradeLock, target, rollback, displaced, coreMode, runs, accidents>>
  BY DEF HandOver, Staying, outside, files, core
<1>4. upgradeFailures' \in Nat /\ upgradeFailures' >= upgradeFailures
  BY <1>1, FilesFit DEF Succeeds, FailsAlone, HandOver
<1>5. job \in UpgradeJob
  BY <1>1, <1>2 DEF UpgradeJob, UpgradePhases
<1>6. /\ job.installed = old.installed /\ job.wanted = old.wanted /\ job.staged = old.staged /\ job.restorable = old.restorable /\ job.service = old.service /\ job.ran = old.ran
      /\ \/ /\ old.service /\ job.phase = "restart" /\ job.staging = "Succeeded"
            /\ approved' = target /\ apart' = {}
         \/ job.phase = "recover" /\ job.staging = "Refused" /\ UNCHANGED <<approved, apart>>
         \/ /\ ~old.service /\ job.phase = "restart" /\ job.staging = old.staging
            /\ UNCHANGED approved /\ (target # approved \/ apart # {} => apart' # {})
  BY <1>1, <1>2 DEF UpgradeJob
<1>7. JobFits(job)'
  BY <1>1, <1>3, <1>4, <1>5, <1>6 DEF CallFits, JobFits, Before
<1>8. RanFits(job)'
  BY <1>1, <1>3, <1>4, <1>5, <1>6 DEF RanFits
<1>9. CopyFits(job)'
  BY <1>1, <1>3, <1>4, <1>5, <1>6 DEF CopyFits
<1>10. FollowFits(job)'
  BY <1>1, <1>3, <1>4, <1>5, <1>6 DEF CallFits, JobFits, FollowFits, Agreed
<1>11. /\ OneUpgrade' /\ upgrade' \in [Upgrades -> UpgradeJob] /\ \A w \in Upgrades : CallFits(upgrade[w])'
       /\ job = upgrade'[u] /\ \A w \in Upgrades \ {u} : upgrade'[w] = upgrade[w] /\ ~Underway(w)
  BY <1>1, <1>2, <1>3, <1>5, <1>6, <1>7, <1>8, <1>9, <1>10, CallSteps, OthersRest DEF CallFits, Over,
     Underway
<1>12. CoreFits'
  BY <1>1, <1>3, <1>4, <1>5, <1>6, <1>11 DEF CoreFits, UpgradeBounds, Doing, UpgradeTypes
<1>13. ACoreIsThere'
  BY <1>1, <1>3, <1>4, <1>5, <1>6, <1>11 DEF ACoreIsThere, UpgradeTypes
<1>14. UpgradeTypes'
  BY <1>1, <1>3, <1>4, <1>5, <1>6, <1>11 DEF CallFits, JobFits, UpgradeTypes, UpgradeTypeOK, Versions
<1> QED BY <1>11, <1>12, <1>13, <1>14 DEF UpgradeInv

LEMMA RestartFits ==
  ASSUME UpgradeBounds, UpgradeInv, NEW u \in Upgrades, Restart(u)
  PROVE  UpgradeInv'
<1> DEFINE old == upgrade[u]
<1>1. /\ old \in UpgradeJob /\ CallFits(old) /\ old.phase = "restart"
      /\ UpgradeTypes /\ CoreFits /\ ACoreIsThere /\ upgradeLock = u
  BY CallIsKnown DEF Restart, Doing, Over
<1>2. PICK job :
        /\ Become(u, job)
        /\ \/ /\ job = [old EXCEPT !.phase = "clean", !.ran = runs']
              /\ \E m \in {"Service", "Sidecar"} : Started(m)
           \/ /\ job = [old EXCEPT !.phase = "recover"]
              /\ UNCHANGED core \/ Stopped \/ \E m \in {"Service", "Sidecar"} : Started(m)
  BY DEF Restart, StepsTo
<1>3. UNCHANGED <<platform, release, upgradeLock, target, rollback, displaced, approved, apart, accidents>>
  BY DEF Restart, Staying, outside, files
<1>4. upgradeFailures' \in Nat /\ upgradeFailures' >= upgradeFailures
  BY <1>1, FilesFit DEF Succeeds, FailsAlone, Restart
<1>5. job \in UpgradeJob
  <2>1. \A m \in {"Service", "Sidecar"} : Started(m) => runs' \in Files
    BY <1>1, FilesFit DEF Started, Version
  <2> QED BY <1>1, <1>2, <2>1 DEF UpgradeJob, UpgradePhases
<1>6. /\ job.installed = old.installed /\ job.wanted = old.wanted /\ job.staged = old.staged /\ job.restorable = old.restorable /\ job.service = old.service /\ job.staging = old.staging
      /\ runs' \in {runs, approved, target, Missing} /\ coreMode' \in {coreMode, "NotRunning", "Service", "Sidecar"}
      /\ coreMode' = "Sidecar" => runs' # Missing
      /\ \/ job.phase = "clean" /\ job.ran \in {approved, target}
         \/ job.phase = "recover" /\ job.ran = old.ran
  <2>1. CASE \E m \in {"Service", "Sidecar"} : Started(m)
    BY <1>1, <1>2, <2>1, FilesFit DEF UpgradeJob, Started, CanRun, Version
  <2>2. CASE UNCHANGED core
    BY <1>1, <1>2, <2>2 DEF UpgradeJob, core, UpgradeTypes, Started, Version
  <2>3. CASE Stopped
    BY <1>1, <1>2, <2>3 DEF UpgradeJob, Stopped, Started
  <2> QED BY <1>2, <2>1, <2>2, <2>3
<1>7. JobFits(job)'
  BY <1>1, <1>3, <1>4, <1>5, <1>6 DEF CallFits, JobFits, Before
<1>8. RanFits(job)'
  BY <1>1, <1>3, <1>4, <1>5, <1>6 DEF CallFits, JobFits, RanFits
<1>9. CopyFits(job)'
  BY <1>1, <1>3, <1>4, <1>5, <1>6, FilesFit DEF CallFits, JobFits, CopyFits
<1>10. FollowFits(job)'
  BY <1>1, <1>3, <1>6 DEF CallFits, FollowFits, Agreed
<1>11. /\ OneUpgrade' /\ upgrade' \in [Upgrades -> UpgradeJob] /\ \A w \in Upgrades : CallFits(upgrade[w])'
       /\ job = upgrade'[u] /\ \A w \in Upgrades \ {u} : upgrade'[w] = upgrade[w] /\ ~Underway(w)
  BY <1>1, <1>2, <1>3, <1>5, <1>6, <1>7, <1>8, <1>9, <1>10, CallSteps, OthersRest DEF CallFits, Over,
     Underway
<1>12. CoreFits'
  BY <1>1, <1>3, <1>4, <1>5, <1>6, <1>11 DEF CoreFits, UpgradeBounds, Doing, UpgradeTypes
<1>13. ACoreIsThere'
  BY <1>1, <1>3, <1>4, <1>5, <1>6, <1>11 DEF ACoreIsThere, UpgradeTypes
<1>14. UpgradeTypes'
  BY <1>1, <1>3, <1>4, <1>5, <1>6, <1>11 DEF UpgradeTypes, UpgradeTypeOK, Files
<1> QED BY <1>11, <1>12, <1>13, <1>14 DEF UpgradeInv

LEMMA RecoverFits ==
  ASSUME UpgradeBounds, UpgradeInv, NEW u \in Upgrades, Recover(u)
  PROVE  UpgradeInv'
<1> DEFINE old == upgrade[u]
<1>1. /\ old \in UpgradeJob /\ CallFits(old) /\ old.phase = "recover"
      /\ UpgradeTypes /\ CoreFits /\ ACoreIsThere /\ upgradeLock = u
  BY CallIsKnown DEF Recover, Doing, Over
<1>2. PICK job :
        /\ Become(u, job)
        /\ \/ /\ job = [old EXCEPT !.phase = IF old.staging = "Succeeded" THEN "restage"
                                           ELSE IF coreMode = "NotRunning" THEN "again" ELSE "clean", !.ran = Missing]
              /\ PutsBack(u) /\ target' = rollback /\ UNCHANGED apart
           \/ /\ job = [old EXCEPT !.phase = "clean", !.ran = Missing] /\ UNCHANGED target
              /\ IF PutsBack(u) THEN FailsAlone ELSE Succeeds
              /\ apart' = apart \cup (IF PutsBack(u) \/ ~old.restorable THEN {"unrestored"} ELSE {})
  BY DEF Recover
<1>3. UNCHANGED <<platform, release, upgradeLock, displaced, approved, coreMode, runs, accidents>>
  BY DEF Recover, Staying, outside, core
<1>4. upgradeFailures' \in Nat /\ upgradeFailures' >= upgradeFailures
  BY <1>1, FilesFit DEF Succeeds, FailsAlone, Recover
<1>5. job \in UpgradeJob
  BY <1>1, <1>2, FilesFit DEF UpgradeJob, UpgradePhases
<1>6. /\ job.installed = old.installed /\ job.wanted = old.wanted /\ job.staged = old.staged /\ job.restorable = old.restorable /\ job.service = old.service /\ job.staging = old.staging /\ job.ran = Missing
      /\ \/ /\ old.restorable /\ target' = rollback /\ UNCHANGED apart
            /\ job.phase \in {"restage", "again", "clean"}
            /\ old.staging = "Succeeded" => job.phase = "restage"
         \/ /\ job.phase = "clean" /\ UNCHANGED target
            /\ \/ apart' # {} /\ (old.restorable => upgradeFailures' = upgradeFailures + 1)
               \/ /\ old.restorable /\ old.staging # "Refused" /\ target # Missing
                  /\ UNCHANGED apart
  BY <1>1, <1>2 DEF UpgradeJob, FailsAlone, PutsBack
<1>7. JobFits(job)'
  BY <1>1, <1>3, <1>4, <1>5, <1>6 DEF CallFits, JobFits, Before
<1>8. RanFits(job)'
  BY <1>1, <1>3, <1>4, <1>5, <1>6 DEF RanFits
<1>9. CopyFits(job)'
  <2>1. \A w \in Upgrades : ~Doing(w, "swap")
    BY <1>1 DEF UpgradeInv, OneUpgrade, Underway, Over, Doing
  <2>2. CASE old.restorable /\ target' = rollback
    BY <1>1, <1>5, <1>6, <2>2, FilesFit DEF CallFits, JobFits, CopyFits
  <2>3. CASE job.phase = "clean" /\ UNCHANGED target
    BY <1>1, <1>3, <1>4, <1>5, <1>6, <2>1, <2>3, FilesFit DEF CoreFits, CallFits, JobFits, CopyFits
  <2> QED BY <1>6, <2>2, <2>3
<1>10. FollowFits(job)'
  BY <1>1, <1>3, <1>4, <1>5, <1>6 DEF CallFits, FollowFits, Agreed
<1>11. /\ OneUpgrade' /\ upgrade' \in [Upgrades -> UpgradeJob] /\ \A w \in Upgrades : CallFits(upgrade[w])'
       /\ job = upgrade'[u] /\ \A w \in Upgrades \ {u} : upgrade'[w] = upgrade[w] /\ ~Underway(w)
  BY <1>1, <1>2, <1>3, <1>5, <1>6, <1>7, <1>8, <1>9, <1>10, CallSteps, OthersRest DEF CallFits, Over,
     Underway
<1>12. CoreFits'
  <2>1. /\ (\E w \in Upgrades : Doing(w, "swap")) <=> old.phase = "swap"
        /\ (\E w \in Upgrades : Doing(w, "swap"))' <=> job.phase = "swap"
        /\ upgradeLock' # Missing
    BY <1>1, <1>3, <1>11 DEF Doing, Underway, Over, UpgradeBounds
  <2>2. CASE target' = rollback /\ old.restorable
    BY <1>1, <1>3, <1>4, <1>6, <2>1, <2>2, FilesFit DEF CoreFits, CallFits, JobFits
  <2>3. CASE UNCHANGED target
    BY <1>1, <1>3, <1>4, <1>6, <2>1, <2>3 DEF CoreFits, UpgradeTypes
  <2> QED BY <1>6, <2>2, <2>3
<1>13. ACoreIsThere'
  BY <1>1, <1>3, <1>4, <1>6, <1>11, <1>12, FilesFit DEF ACoreIsThere, CallFits, JobFits
<1>14. UpgradeTypes'
  BY <1>1, <1>3, <1>4, <1>5, <1>6, <1>11, FilesFit DEF Recover, UpgradeTypes, UpgradeTypeOK
<1> QED BY <1>11, <1>12, <1>13, <1>14 DEF UpgradeInv

LEMMA RestageFits ==
  ASSUME UpgradeBounds, UpgradeInv, NEW u \in Upgrades, Restage(u)
  PROVE  UpgradeInv'
<1> DEFINE old == upgrade[u]
<1>1. /\ old \in UpgradeJob /\ CallFits(old) /\ old.phase = "restage"
      /\ UpgradeTypes /\ CoreFits /\ ACoreIsThere /\ upgradeLock = u
  BY CallIsKnown DEF Restage, Doing, Over
<1>2. PICK job :
        /\ Become(u, job)
        /\ \/ job = [old EXCEPT !.phase = "again"] /\ approved' = target
           \/ job = [old EXCEPT !.phase = "again"] /\ UNCHANGED approved /\ apart' = apart \cup {"unstaged"}
  BY DEF Restage, StepsTo, Approve
<1>3. UNCHANGED <<platform, release, upgradeLock, target, rollback, displaced, coreMode, runs, accidents>>
  BY DEF Restage, Staying, outside, files, core
<1>4. upgradeFailures' \in Nat /\ upgradeFailures' >= upgradeFailures
  BY <1>1, FilesFit DEF Succeeds, FailsAlone, Restage
<1>5. job \in UpgradeJob
  BY <1>1, <1>2 DEF UpgradeJob, UpgradePhases
<1>6. /\ job.phase = "again" /\ job.installed = old.installed /\ job.wanted = old.wanted /\ job.staged = old.staged /\ job.restorable = old.restorable /\ job.service = old.service /\ job.staging = old.staging /\ job.ran = old.ran
      /\ \/ approved' = target
         \/ UNCHANGED approved /\ apart' # {}
  BY <1>1, <1>2 DEF UpgradeJob
<1>7. JobFits(job)'
  BY <1>1, <1>3, <1>4, <1>5, <1>6 DEF CallFits, JobFits, Before
<1>8. RanFits(job)'
  BY <1>1, <1>3, <1>4, <1>5, <1>6 DEF RanFits
<1>9. CopyFits(job)'
  BY <1>1, <1>3, <1>4, <1>5, <1>6 DEF CopyFits
<1>10. FollowFits(job)'
  BY <1>1, <1>3, <1>4, <1>5, <1>6 DEF FollowFits, Agreed
<1>11. /\ OneUpgrade' /\ upgrade' \in [Upgrades -> UpgradeJob] /\ \A w \in Upgrades : CallFits(upgrade[w])'
       /\ job = upgrade'[u] /\ \A w \in Upgrades \ {u} : upgrade'[w] = upgrade[w] /\ ~Underway(w)
  BY <1>1, <1>2, <1>3, <1>5, <1>6, <1>7, <1>8, <1>9, <1>10, CallSteps, OthersRest DEF CallFits, Over,
     Underway
<1>12. CoreFits'
  BY <1>1, <1>3, <1>4, <1>5, <1>6, <1>11 DEF CoreFits, UpgradeBounds, Doing, UpgradeTypes
<1>13. ACoreIsThere'
  BY <1>1, <1>3, <1>4, <1>5, <1>6, <1>11 DEF ACoreIsThere, UpgradeTypes
<1>14. UpgradeTypes'
  BY <1>1, <1>3, <1>4, <1>5, <1>6, <1>11 DEF CallFits, JobFits, UpgradeTypes, UpgradeTypeOK, Versions
<1> QED BY <1>11, <1>12, <1>13, <1>14 DEF UpgradeInv

LEMMA StartAgainFits ==
  ASSUME UpgradeBounds, UpgradeInv, NEW u \in Upgrades, StartAgain(u)
  PROVE  UpgradeInv'
<1> DEFINE old == upgrade[u]
<1>1. /\ old \in UpgradeJob /\ CallFits(old) /\ old.phase = "again"
      /\ UpgradeTypes /\ CoreFits /\ ACoreIsThere /\ upgradeLock = u
  BY CallIsKnown DEF StartAgain, Doing, Over
<1>2. PICK job :
        /\ Become(u, job)
        /\ \/ /\ job = [old EXCEPT !.phase = "clean"]
              /\ UNCHANGED core \/ \E m \in {"Service", "Sidecar"} : Started(m)
  BY DEF StartAgain, StepsTo
<1>3. UNCHANGED <<platform, release, upgradeLock, target, rollback, displaced, approved, apart, accidents>>
  BY DEF StartAgain, Staying, outside, files
<1>4. upgradeFailures' \in Nat /\ upgradeFailures' >= upgradeFailures
  BY <1>1, FilesFit DEF Succeeds, StartAgain
<1>5. job \in UpgradeJob
  BY <1>1, <1>2 DEF UpgradeJob, UpgradePhases
<1>6. /\ job.phase = "clean" /\ job.installed = old.installed /\ job.wanted = old.wanted /\ job.staged = old.staged /\ job.restorable = old.restorable /\ job.service = old.service /\ job.staging = old.staging /\ job.ran = old.ran
      /\ runs' \in {runs, approved, target} /\ coreMode' \in {coreMode, "Service", "Sidecar"}
      /\ coreMode' = "Sidecar" => runs' # Missing
  BY <1>1, <1>2 DEF Started, CanRun, Version, Readable, core, UpgradeTypes, Missing
<1>7. JobFits(job)'
  BY <1>1, <1>3, <1>4, <1>5, <1>6 DEF JobFits, Before
<1>8. RanFits(job)'
  BY <1>1, <1>3, <1>4, <1>5, <1>6 DEF CallFits, JobFits, RanFits
<1>9. CopyFits(job)'
  BY <1>1, <1>3, <1>4, <1>5, <1>6, FilesFit DEF CallFits, JobFits, CopyFits
<1>10. FollowFits(job)'
  BY <1>1, <1>3, <1>4, <1>5, <1>6 DEF CallFits, FollowFits, Agreed
<1>11. /\ OneUpgrade' /\ upgrade' \in [Upgrades -> UpgradeJob] /\ \A w \in Upgrades : CallFits(upgrade[w])'
       /\ job = upgrade'[u] /\ \A w \in Upgrades \ {u} : upgrade'[w] = upgrade[w] /\ ~Underway(w)
  BY <1>1, <1>2, <1>3, <1>5, <1>6, <1>7, <1>8, <1>9, <1>10, CallSteps, OthersRest DEF CallFits, Over,
     Underway
<1>12. CoreFits'
  BY <1>1, <1>3, <1>4, <1>5, <1>6, <1>11 DEF CoreFits, UpgradeBounds, Doing, UpgradeTypes
<1>13. ACoreIsThere'
  BY <1>1, <1>3, <1>4, <1>5, <1>6, <1>11 DEF ACoreIsThere, UpgradeTypes
<1>14. UpgradeTypes'
  BY <1>1, <1>3, <1>4, <1>5, <1>6, <1>11 DEF UpgradeTypes, UpgradeTypeOK, Files
<1> QED BY <1>11, <1>12, <1>13, <1>14 DEF UpgradeInv

LEMMA CleanUpFits ==
  ASSUME UpgradeBounds, UpgradeInv, NEW u \in Upgrades, CleanUp(u)
  PROVE  UpgradeInv'
<1> DEFINE old == upgrade[u]
<1>1. /\ old \in UpgradeJob /\ CallFits(old) /\ old.phase = "clean"
      /\ UpgradeTypes /\ CoreFits /\ ACoreIsThere /\ upgradeLock = u
  BY CallIsKnown DEF CleanUp, Doing, Over
<1>2. PICK job :
        /\ Become(u, job) /\ upgradeLock' = Missing
        /\ job = [old EXCEPT !.phase = IF old.ran # Missing THEN "upgraded" ELSE "failed", !.staged = Missing]
        /\ displaced' = IF old.ran # Missing \/ old.restorable THEN Missing ELSE displaced
        /\ apart' = IF target = approved THEN {} ELSE apart
  BY DEF CleanUp, Ends
<1>3. UNCHANGED <<platform, release, target, approved, coreMode, runs, upgradeFailures, accidents>>
  BY DEF CleanUp, Staying, outside, core
<1>4. job \in UpgradeJob
  BY <1>1, <1>2, FilesFit DEF UpgradeJob, UpgradePhases
<1>5. /\ job.phase \in {"upgraded", "failed"} /\ upgradeLock' = Missing
      /\ job.phase = "upgraded" => old.ran # Missing
      /\ displaced' = IF old.ran # Missing \/ old.restorable THEN Missing ELSE displaced
      /\ apart' = IF target = approved THEN {} ELSE apart
      /\ job.installed = old.installed /\ job.wanted = old.wanted /\ job.restorable = old.restorable /\ job.service = old.service /\ job.staging = old.staging /\ job.ran = old.ran
  BY <1>1, <1>2
<1>6. JobFits(job)'
  BY <1>1, <1>3, <1>4, <1>5 DEF JobFits, Before
<1>7. RanFits(job)'
  BY <1>1, <1>3, <1>4, <1>5 DEF CallFits, RanFits
<1>8. CopyFits(job)'
  BY <1>1, <1>3, <1>4, <1>5 DEF CopyFits
<1>9. FollowFits(job)'
  BY <1>1, <1>3, <1>4, <1>5 DEF FollowFits
<1>10. /\ OneUpgrade' /\ upgrade' \in [Upgrades -> UpgradeJob] /\ \A w \in Upgrades : CallFits(upgrade[w])'
       /\ job = upgrade'[u] /\ \A w \in Upgrades \ {u} : upgrade'[w] = upgrade[w] /\ ~Underway(w)
  <2>1. CallFits(job)' /\ upgradeLock' = IF job.phase \in Over THEN Missing ELSE u
    BY <1>5, <1>6, <1>7, <1>8, <1>9 DEF CallFits, Over
  <2>2. Underway(u) /\ Become(u, job)
    BY <1>1, <1>2 DEF Underway, Over
  <2>3. OneUpgrade' /\ upgrade' \in [Upgrades -> UpgradeJob] /\ \A w \in Upgrades : CallFits(upgrade[w])'
    BY <1>4, <2>1, <2>2, CallSteps
  <2> QED BY <2>2, <2>3, OthersRest
<1>11. CoreFits'
  BY <1>1, <1>3, <1>4, <1>5, <1>10 DEF CoreFits, CallFits, FollowFits, Agreed, Doing
<1>12. ACoreIsThere'
  BY <1>1, <1>3, <1>4, <1>5, <1>10 DEF ACoreIsThere, CallFits, CopyFits, UpgradeTypes
<1>13. UpgradeTypes'
  BY <1>1, <1>3, <1>4, <1>5, <1>10, FilesFit DEF CleanUp, UpgradeTypes, UpgradeTypeOK
<1> QED BY <1>10, <1>11, <1>12, <1>13 DEF UpgradeInv

-----------------------------------------------------------------------------
(* Upgrades of the core: everybody else *)

LEMMA FreshFits ==
  ASSUME UpgradeBounds
  PROVE  FreshUpgrade \in UpgradeJob /\ [FreshUpgrade EXCEPT !.phase = "failed"] \in UpgradeJob
<1>1. 0 \in 0 .. MaxRelease /\ Missing \in Files
  BY DEF UpgradeBounds, Files
<1> QED BY <1>1 DEF FreshUpgrade, UpgradeJob, UpgradePhases

\* What is about no call: the new state keeps what all calls know.
LEMMA OutsideFits ==
  ASSUME UpgradeBounds, UpgradeInv, Outside
  PROVE  UpgradeInv'
<1> USE DEF UpgradeInv, UpgradeTypes, UpgradeTypeOK, OneUpgrade, CoreFits, ACoreIsThere, Agreed, Doing, Underway
<1>1. CASE NewRelease
  <2>1. release' \in Versions
    BY <1>1 DEF NewRelease, Versions, UpgradeBounds
  <2>2. \A u \in Upgrades : CallFits(upgrade[u])'
    BY <1>1 DEF NewRelease, files, upgradeCounts, CallFits, JobFits, CopyFits, FollowFits
  <2> QED BY <1>1, <2>1, <2>2 DEF NewRelease, files, core, upgradeCounts
<1>2. CASE CoreDies
  <2>1. accidents' \in Nat /\ accidents' # 0 /\ coreMode' = "NotRunning" /\ runs' \in Files
    BY <1>2, FilesFit DEF CoreDies, Accident, Stopped
  <2>2. \A u \in Upgrades : CallFits(upgrade[u])'
    BY <1>2, <2>1 DEF CoreDies, files, CallFits, JobFits, CopyFits, FollowFits
  <2> QED BY <1>2, <2>1, <2>2 DEF CoreDies, outside, files
<1>3. CASE OthersStart
  <2>1. accidents' \in Nat /\ accidents' # 0
    BY <1>3 DEF OthersStart, Accident
  <2>2. /\ coreMode' \in {"Service", "Sidecar"} /\ runs' \in Files
        /\ coreMode' = "Sidecar" => runs' # Missing
    BY <1>3, FilesFit DEF OthersStart, Started, CanRun, Version
  <2>3. \A u \in Upgrades : CallFits(upgrade[u])'
    BY <1>3, <2>1 DEF OthersStart, files, CallFits, JobFits, CopyFits, FollowFits
  <2> QED BY <1>3, <2>1, <2>2, <2>3 DEF OthersStart, outside, files
<1>4. CASE ServiceInstalled
  <2>1. accidents' \in Nat /\ accidents' # 0 /\ target \in Versions /\ approved' = target
    BY <1>4, FilesFit DEF ServiceInstalled, Accident
  <2>2. target = approved' /\ upgradeLock' = upgradeLock /\ (upgradeLock # Missing => apart' # {})
    BY <1>4 DEF ServiceInstalled
  <2>3. \A u \in Upgrades : CallFits(upgrade[u])'
    <3> SUFFICES ASSUME NEW u \in Upgrades PROVE CallFits(upgrade[u])'
      OBVIOUS
    <3>1. /\ upgrade[u].phase \in Over \/ apart' # {}
          /\ CallFits(upgrade[u]) /\ UNCHANGED <<upgrade, target, rollback, displaced, upgradeFailures>>
      BY <1>4, <2>2 DEF ServiceInstalled, files, UpgradeBounds
    <3>2. RanFits(upgrade[u])'
      BY <3>1 DEF CallFits
    <3>3. JobFits(upgrade[u])'
      <4>1. upgrade[u].phase = "restart" => target = upgrade[u].wanted
        BY <3>1 DEF CallFits, JobFits
      <4> QED BY <2>2, <3>1, <4>1 DEF CallFits, JobFits
    <3>4. CopyFits(upgrade[u])' /\ FollowFits(upgrade[u])'
      BY <2>1, <3>1 DEF CallFits, CopyFits, FollowFits, Over
    <3> QED BY <3>2, <3>3, <3>4 DEF CallFits
  <2> QED BY <1>4, <2>1, <2>2, <2>3 DEF ServiceInstalled, outside, files, core, Versions
<1>5. CASE Killed
  <2>1. accidents' \in Nat /\ accidents' # 0 /\ UNCHANGED <<outside, files, approved, upgradeFailures>>
    BY <1>5 DEF Killed, Accident
  <2>2. /\ coreMode' \in {"NotRunning", "Service", "Sidecar"} /\ runs' \in Files
        /\ coreMode' = "Sidecar" => runs' # Missing
    BY <1>5, FilesFit DEF Killed, Stopped, core
  <2>3. /\ upgrade' \in [Upgrades -> UpgradeJob] /\ upgradeLock' = Missing
        /\ \A u \in Upgrades : upgrade'[u] = FreshUpgrade \/ upgrade'[u] = [FreshUpgrade EXCEPT !.phase = "failed"]
    BY <1>5, FreshFits DEF Killed
  <2>4. OneUpgrade'
    BY <2>3 DEF Over, FreshUpgrade, UpgradeBounds
  <2>5. \A u \in Upgrades : CallFits(upgrade[u])'
    BY <2>3 DEF FreshUpgrade, CallFits, JobFits, RanFits, CopyFits, FollowFits
  <2>6. target = approved \/ apart' # {}
    BY <1>5 DEF Killed
  <2> QED BY <2>1, <2>2, <2>3, <2>4, <2>5, <2>6 DEF outside, files
<1> QED BY <1>1, <1>2, <1>3, <1>4, <1>5 DEF Outside

-----------------------------------------------------------------------------
(* Upgrades of the core: the theorems *)

\* Whatever fails, dies, is killed or is installed beside it: the one call that is under way knows
\* what it has staged, published, approved and kept, and a missing core has a copy.
THEOREM UpgradesAreOrderly == UpgradeBounds => (UpgradeSpec => []UpgradeInv)
<1> SUFFICES ASSUME UpgradeBounds PROVE UpgradeSpec => []UpgradeInv
  OBVIOUS
<1>1. UpgradeInit => UpgradeInv
  <2> SUFFICES ASSUME UpgradeInit PROVE UpgradeInv
    OBVIOUS
  <2>1. /\ 1 \in Versions /\ {Missing, Broken, 0, 1} \subseteq Files /\ 1 # Missing /\ Broken # Missing
        /\ 0 \in 0 .. MaxRelease
    BY DEF UpgradeBounds, Versions, Files, Missing, Broken
  <2>2. UpgradeTypes
    BY <2>1, FreshFits DEF UpgradeInit, UpgradeTypes, UpgradeTypeOK, Versions
  <2>3. OneUpgrade
    BY DEF UpgradeInit, OneUpgrade, Underway, Over, FreshUpgrade, UpgradeBounds
  <2>4. CoreFits /\ ACoreIsThere
    BY <2>1 DEF UpgradeInit, CoreFits, ACoreIsThere, Agreed
  <2>5. \A u \in Upgrades : CallFits(upgrade[u])
    BY DEF UpgradeInit, FreshUpgrade, CallFits, JobFits, RanFits, CopyFits, FollowFits
  <2> QED BY <2>2, <2>3, <2>4, <2>5 DEF UpgradeInv
<1>2. UpgradeInv /\ [UpgradeNext]_upgradeVars => UpgradeInv'
  <2> SUFFICES ASSUME UpgradeInv, [UpgradeNext]_upgradeVars PROVE UpgradeInv'
    OBVIOUS
  <2>1. CASE UNCHANGED upgradeVars
    BY <2>1 DEF upgradeVars, outside, files, core, upgradeCounts, UpgradeInv, UpgradeTypes, UpgradeTypeOK,
       OneUpgrade, Underway, CoreFits, ACoreIsThere, Agreed, Doing, CallFits, JobFits, CopyFits, FollowFits
  <2>2. ASSUME NEW u \in Upgrades, UpgradeStep(u) PROVE UpgradeInv'
    BY <2>2, StartFits, ResolveFits, StageCoreFits, LinkRollbackFits, PublishFits, SwapFits,
       HandOverFits, RestartFits, RecoverFits, RestageFits, StartAgainFits, CleanUpFits DEF UpgradeStep
  <2> QED BY <2>1, <2>2, OutsideFits DEF UpgradeNext
<1> QED BY <1>1, <1>2, PTL DEF UpgradeSpec

\* There is always a managed core, on Windows perhaps moved aside but never without a copy; between
\* upgrades the Service's copy agrees with it unless `apart` says why not; and a call that reports
\* an upgrade has started what it asked for.
THEOREM UpgradesAlwaysKeepACore == UpgradeBounds => (UpgradeSpec => []UpgradesKeepACore)
<1> SUFFICES ASSUME UpgradeBounds PROVE UpgradeSpec => []UpgradesKeepACore
  OBVIOUS
<1>1. UpgradeInv => UpgradesKeepACore
  BY DEF UpgradeInv, UpgradeTypes, UpgradesKeepACore, CopiesAgree, CoreFits, Agreed, ReportsAreTrue,
     CallFits, RanFits, Doing
<1> QED BY <1>1, UpgradesAreOrderly, PTL

-----------------------------------------------------------------------------
(* Updates of the application: the inductive invariant *)

AppUpdateSpec == AppUpdateInit /\ [][AppUpdateNext]_appUpdateVars

\* Calls are not the mark of an empty slot; there is a version to offer and a source to ask.
UpdateBounds ==
    NoInstall \notin Installs /\ MaxVersion \in Nat \ {0} /\ Sources \in Nat \ {0} /\ MaxCancels \in Nat

\* The token in the slot is that of a call that can still be cancelled and was not.
SlotFits == manual_cancel # NoInstall => Cancellable(manual_cancel) /\ ~install[manual_cancel].cancelled

\* From the server's answer on, the bytes a call expects or has are those of the version it shows.
BytesFit ==
    \A i \in Installs : install[i].phase \in {"cache", "download", "prepared", "installing", "installed"} =>
        install[i].bytes = install[i].version

\* A call whose token was displaced from the slot is not the only one.
Displaced ==
    \A i \in Installs : Cancellable(i) /\ ~install[i].cancelled /\ manual_cancel # i =>
        \E j \in Installs \ {i} : install[j].phase # "idle"

AppUpdateInv == AppUpdateTypeOK /\ SlotFits /\ BytesFit /\ Displaced /\ CancelsWin /\ CancelsAreHeard

-----------------------------------------------------------------------------
(* Updates of the application: what every step does *)

LEMMA NoCallFits ==
  ASSUME UpdateBounds
  PROVE  NoCall \in Call
<1>1. 0 \in 0 .. MaxVersion /\ Forged \in Bytes /\ 1 \in 1 .. Sources + 1
  BY DEF UpdateBounds, Bytes, Forged
<1> QED BY <1>1 DEF NoCall, Call, InstallPhases

\* A call that goes on has begun; it may empty the slot, and does when it stops listening to it.
GoesOn(i, call) ==
    /\ install[i].phase # "idle" /\ call.phase # "idle" /\ call.cancelled = install[i].cancelled
    /\ call.cancelled => call.phase \notin {"installing", "installed"}
    /\ call.phase \in {"cache", "download", "prepared", "installing", "installed"} => call.bytes = call.version
    /\ manual_cancel' \in {manual_cancel, NoInstall}
    /\ manual_cancel' = i => call.phase \in {"check", "cache", "download", "prepared"}
    /\ call.phase \in {"check", "cache", "download", "prepared"} =>
         Cancellable(i) /\ manual_cancel' = manual_cancel
    /\ cache' \in [version : 0 .. MaxVersion, bytes : Bytes] /\ UNCHANGED <<offer, missed, cancels>>

\* Such a step is right when it is right for the call itself.
LEMMA CallGoesOn ==
  ASSUME UpdateBounds, AppUpdateInv, NEW i \in Installs, NEW call \in Call, Turn(i, call), GoesOn(i, call)
  PROVE  AppUpdateInv'
<1>1. /\ install' \in [Installs -> Call] /\ install'[i] = call
      /\ \A j \in Installs \ {i} : install'[j] = install[j]
  BY DEF AppUpdateInv, AppUpdateTypeOK, Turn
<1>2. AppUpdateTypeOK'
  BY <1>1 DEF GoesOn, AppUpdateInv, AppUpdateTypeOK
<1>3. SlotFits'
  BY <1>1 DEF GoesOn, AppUpdateInv, AppUpdateTypeOK, SlotFits, Cancellable, Preparing, InPhase
<1>4. BytesFit' /\ CancelsWin'
  BY <1>1 DEF GoesOn, AppUpdateInv, BytesFit, CancelsWin
<1>5. Displaced' /\ CancelsAreHeard'
  BY <1>1 DEF GoesOn, AppUpdateInv, AppUpdateTypeOK, Displaced, CancelsAreHeard, Cancellable, Preparing, InPhase
<1> QED BY <1>2, <1>3, <1>4, <1>5 DEF AppUpdateInv

LEMMA BeginFits ==
  ASSUME UpdateBounds, AppUpdateInv, NEW i \in Installs, BeginInstall(i)
  PROVE  AppUpdateInv'
<1>1. PICK v \in 1 .. offer : Turn(i, [NoCall EXCEPT !.phase = "check", !.version = v])
  BY DEF BeginInstall
<1> DEFINE call == [NoCall EXCEPT !.phase = "check", !.version = v]
<1>2. v \in 0 .. MaxVersion
  BY DEF AppUpdateInv, AppUpdateTypeOK, UpdateBounds
<1>3. call \in Call /\ call.phase = "check" /\ ~call.cancelled
  BY <1>2, NoCallFits DEF Call, InstallPhases, NoCall
<1>4. /\ install' \in [Installs -> Call] /\ install'[i] = call
      /\ \A j \in Installs \ {i} : install'[j] = install[j]
  BY <1>1, <1>3 DEF AppUpdateInv, AppUpdateTypeOK, Turn
<1>5. UNCHANGED <<offer, cache, missed, cancels>> /\ manual_cancel' = i
  BY DEF BeginInstall
<1> HIDE DEF call
<1>6. AppUpdateTypeOK' /\ BytesFit' /\ CancelsWin'
  BY <1>3, <1>4, <1>5 DEF AppUpdateInv, AppUpdateTypeOK, BytesFit, CancelsWin
<1>7. SlotFits'
  BY <1>3, <1>4, <1>5 DEF SlotFits, Cancellable, Preparing
<1>8. Displaced' /\ CancelsAreHeard'
  BY <1>3, <1>4, <1>5 DEF AppUpdateInv, AppUpdateTypeOK, Displaced, CancelsAreHeard
<1> QED BY <1>6, <1>7, <1>8 DEF AppUpdateInv

\* All other steps of a call.
LEMMA InstallFits ==
  ASSUME UpdateBounds, AppUpdateInv, NEW i \in Installs, InstallStep(i), ~BeginInstall(i)
  PROVE  AppUpdateInv'
<1> DEFINE old == install[i]
<1>1. /\ old \in Call /\ offer \in Bytes /\ NoCache \in [version : 0 .. MaxVersion, bytes : Bytes]
      /\ cache \in [version : 0 .. MaxVersion, bytes : Bytes]
      /\ old.cancelled => old.phase \notin {"installing", "installed"}
      /\ old.phase \in {"cache", "download", "prepared", "installing", "installed"} => old.bytes = old.version
      /\ manual_cancel = i => old.phase \in {"check", "cache", "download", "prepared"}
      /\ manual_cancel \in Installs \cup {NoInstall} /\ i # NoInstall
  BY DEF AppUpdateInv, AppUpdateTypeOK, SlotFits, Cancellable, Preparing, InPhase, CancelsWin, BytesFit, UpdateBounds, NoCache, Bytes, Forged
<1>2. CASE CheckServer(i)
  <2>1. PICK call : /\ Turn(i, call) /\ UNCHANGED <<offer, cache, missed, cancels>>
                    /\ \/ /\ call = [old EXCEPT !.phase = "cache", !.bytes = offer]
                          /\ offer = old.version /\ UNCHANGED manual_cancel
                       \/ call = [old EXCEPT !.phase = "failed"] /\ manual_cancel' = NoInstall
    BY <1>2 DEF CheckServer, Advance, StillOffered
  <2>2. call \in Call
    BY <1>1, <2>1 DEF Call, InstallPhases
  <2>3. GoesOn(i, call)
    BY <1>1, <1>2, <2>1 DEF GoesOn, CheckServer, InPhase, Call, Cancellable, Preparing
  <2> QED BY <2>1, <2>2, <2>3, CallGoesOn
<1>3. CASE ReadCache(i)
  <2>1. PICK call : /\ Turn(i, call) /\ UNCHANGED <<offer, manual_cancel, missed, cancels>>
                    /\ \/ /\ call = [old EXCEPT !.phase = "prepared", !.bytes = cache.bytes]
                          /\ cache.bytes = old.bytes /\ UNCHANGED cache
                       \/ call = [old EXCEPT !.phase = "download"] /\ cache' = NoCache
    BY <1>3 DEF ReadCache, Advance, Verified
  <2>2. call \in Call
    BY <1>1, <2>1 DEF Call, InstallPhases
  <2>3. GoesOn(i, call)
    BY <1>1, <1>3, <2>1 DEF GoesOn, ReadCache, InPhase, Call, Cancellable, Preparing
  <2> QED BY <2>1, <2>2, <2>3, CallGoesOn
<1>4. CASE Download(i)
  <2>1. PICK call : /\ Turn(i, call) /\ UNCHANGED <<offer, cache, missed, cancels>>
                    /\ \/ call = [old EXCEPT !.phase = "prepared"] /\ UNCHANGED manual_cancel
                       \/ /\ call = [old EXCEPT !.source = @ + 1]
                          /\ old.source < Sources /\ UNCHANGED manual_cancel
                       \/ call = [old EXCEPT !.source = 1, !.round = 2] /\ UNCHANGED manual_cancel
                       \/ call = [old EXCEPT !.phase = "failed"] /\ manual_cancel' = NoInstall
    BY <1>4 DEF Download, Advance
  <2>2. call \in Call
    <3>1. /\ 1 \in 1 .. Sources + 1 /\ 2 \in 1 .. 2
          /\ old.source < Sources => old.source + 1 \in 1 .. Sources + 1
      BY <1>1 DEF Call, UpdateBounds
    <3>2. CASE call = [old EXCEPT !.source = @ + 1] /\ old.source < Sources
      BY <1>1, <3>1, <3>2 DEF Call
    <3>3. CASE call = [old EXCEPT !.source = 1, !.round = 2]
      BY <1>1, <3>1, <3>3 DEF Call
    <3> QED BY <1>1, <2>1, <3>2, <3>3 DEF Call, InstallPhases
  <2>3. GoesOn(i, call)
    BY <1>1, <1>4, <2>1 DEF GoesOn, Download, InPhase, Call, Cancellable, Preparing
  <2> QED BY <2>1, <2>2, <2>3, CallGoesOn
<1>5. CASE Notice(i)
  <2>1. PICK call : /\ Turn(i, call) /\ UNCHANGED <<offer, cache, missed, cancels>> /\ manual_cancel' = NoInstall
                    /\ call = [old EXCEPT !.phase = "cancelled"]
    BY <1>5 DEF Notice, Advance
  <2>2. call \in Call
    BY <1>1, <2>1 DEF Call, InstallPhases
  <2>3. GoesOn(i, call)
    BY <1>1, <1>5, <2>1 DEF GoesOn, Notice, InPhase, Call, Cancellable, Preparing
  <2> QED BY <2>1, <2>2, <2>3, CallGoesOn
<1>6. CASE TakeBack(i)
  <2>1. PICK call : /\ Turn(i, call) /\ UNCHANGED <<offer, cache, missed, cancels>> /\ manual_cancel' = NoInstall
                    /\ \/ call = [old EXCEPT !.phase = "installing"] /\ ~old.cancelled
                       \/ call = [old EXCEPT !.phase = "cancelled"]
    BY <1>6 DEF TakeBack, Advance, Kept
  <2>2. call \in Call
    BY <1>1, <2>1 DEF Call, InstallPhases
  <2>3. GoesOn(i, call)
    BY <1>1, <1>6, <2>1 DEF GoesOn, TakeBack, InPhase, Call, Cancellable, Preparing
  <2> QED BY <2>1, <2>2, <2>3, CallGoesOn
<1>7. CASE Finish(i)
  <2>1. PICK call : /\ Turn(i, call) /\ UNCHANGED <<offer, manual_cancel, missed, cancels>>
                    /\ cache' \in {cache, NoCache}
                    /\ \/ call = [old EXCEPT !.phase = "installed"]
                       \/ call = [old EXCEPT !.phase = "failed"]
    BY <1>7 DEF Finish, Advance
  <2>2. call \in Call
    BY <1>1, <2>1 DEF Call, InstallPhases
  <2>3. GoesOn(i, call)
    BY <1>1, <1>7, <2>1 DEF GoesOn, Finish, InPhase, Call, Cancellable, Preparing
  <2> QED BY <2>1, <2>2, <2>3, CallGoesOn
<1> QED BY <1>2, <1>3, <1>4, <1>5, <1>6, <1>7 DEF InstallStep

LEMMA CancelFits ==
  ASSUME UpdateBounds, AppUpdateInv, CancelDownload
  PROVE  AppUpdateInv'
<1>1. cancels' \in 0 .. MaxCancels /\ manual_cancel' = NoInstall /\ UNCHANGED <<offer, cache>>
  BY DEF CancelDownload, AppUpdateInv, AppUpdateTypeOK, UpdateBounds
<1>2. CASE manual_cancel = NoInstall
  <2>1. install' = install /\ missed' = missed \cup {i \in Installs : Cancellable(i) /\ ~install[i].cancelled}
    BY <1>2 DEF CancelDownload
  <2>2. AppUpdateTypeOK' /\ SlotFits' /\ BytesFit' /\ CancelsWin'
    BY <1>1, <2>1 DEF AppUpdateInv, AppUpdateTypeOK, SlotFits, BytesFit, CancelsWin
  <2>3. Displaced' /\ CancelsAreHeard'
    BY <1>1, <1>2, <2>1
       DEF AppUpdateInv, Displaced, CancelsAreHeard, Cancellable, Preparing, InPhase, UpdateBounds
  <2> QED BY <2>2, <2>3 DEF AppUpdateInv
<1>3. CASE manual_cancel # NoInstall
  <2> DEFINE m == manual_cancel
  <2>1. /\ missed' = missed /\ m \in Installs
        /\ install' = [install EXCEPT ![m].cancelled = TRUE]
    BY <1>3 DEF CancelDownload, AppUpdateInv, AppUpdateTypeOK
  <2>2. install[m].phase \in {"check", "cache", "download", "prepared"}
    BY <1>3 DEF AppUpdateInv, SlotFits, Cancellable, Preparing, InPhase
  <2>3. /\ install' \in [Installs -> Call] /\ install'[m] = [install[m] EXCEPT !.cancelled = TRUE]
        /\ \A j \in Installs \ {m} : install'[j] = install[j]
    BY <2>1 DEF AppUpdateInv, AppUpdateTypeOK, Call
  <2>4. /\ install'[m].cancelled /\ install'[m].phase = install[m].phase
        /\ install'[m].bytes = install[m].bytes /\ install'[m].version = install[m].version
    BY <2>1, <2>3 DEF AppUpdateInv, AppUpdateTypeOK, Call
  <2>5. AppUpdateTypeOK' /\ SlotFits' /\ BytesFit' /\ CancelsWin'
    BY <1>1, <2>1, <2>2, <2>3, <2>4 DEF AppUpdateInv, AppUpdateTypeOK, SlotFits, BytesFit, CancelsWin
  <2>6. Displaced' /\ CancelsAreHeard'
    BY <1>1, <2>1, <2>2, <2>3, <2>4
       DEF AppUpdateInv, AppUpdateTypeOK, Displaced, CancelsAreHeard, Cancellable, Preparing, InPhase
  <2> QED BY <2>5, <2>6 DEF AppUpdateInv
<1> QED BY <1>2, <1>3

-----------------------------------------------------------------------------
(* Updates of the application: the theorem *)

\* Whatever calls overlap and whenever the user cancels: the token in the slot is that of a call
\* that still listens to it, and the bytes that wait are those of the version the dialog shows.
THEOREM InstallsAreOrderly == UpdateBounds => (AppUpdateSpec => []AppUpdateInv)
<1> SUFFICES ASSUME UpdateBounds PROVE AppUpdateSpec => []AppUpdateInv
  OBVIOUS
<1>1. AppUpdateInit => AppUpdateInv
  <2> SUFFICES ASSUME AppUpdateInit PROVE AppUpdateInv
    OBVIOUS
  <2>1. AppUpdateTypeOK
    BY NoCallFits DEF AppUpdateInit, AppUpdateTypeOK, UpdateBounds, NoCache, Bytes, Forged
  <2> QED BY <2>1 DEF AppUpdateInit, AppUpdateInv, SlotFits, BytesFit, Displaced, CancelsWin, CancelsAreHeard,
                      Cancellable, Preparing, InPhase, NoCall
<1>2. AppUpdateInv /\ [AppUpdateNext]_appUpdateVars => AppUpdateInv'
  <2> SUFFICES ASSUME AppUpdateInv, [AppUpdateNext]_appUpdateVars PROVE AppUpdateInv'
    OBVIOUS
  <2> USE DEF AppUpdateInv, AppUpdateTypeOK, SlotFits, BytesFit, Displaced, CancelsWin, CancelsAreHeard,
              Cancellable, Preparing, InPhase
  <2>1. CASE NewVersion
    BY <2>1 DEF NewVersion, UpdateBounds
  <2>2. CASE DeleteCache
    BY <2>2 DEF DeleteCache, NoCache, Bytes, Forged, UpdateBounds
  <2>3. CASE UNCHANGED appUpdateVars
    BY <2>3 DEF appUpdateVars
  <2> QED BY <2>1, <2>2, <2>3, BeginFits, InstallFits, CancelFits DEF AppUpdateNext
<1> QED BY <1>1, <1>2, PTL DEF AppUpdateSpec

\* A cancelled call never reaches the installer, what is installed is the version the dialog showed,
\* and a cancel that finds no call does so only when another call came between.
THEOREM UpdatesAreAlwaysWanted == UpdateBounds => (AppUpdateSpec => []UpdatesAreWanted)
<1> SUFFICES ASSUME UpdateBounds PROVE AppUpdateSpec => []UpdatesAreWanted
  OBVIOUS
<1>1. AppUpdateInv => UpdatesAreWanted
  BY DEF AppUpdateInv, UpdatesAreWanted, OnlyTheVersionAsked, BytesFit
<1> QED BY <1>1, InstallsAreOrderly, PTL

-----------------------------------------------------------------------------
(* Upgrades of core and application together *)

\* However upgrades of the core and updates of the application go, and whatever fails or dies
\* meanwhile, a core that can run is there and no version is installed that nobody asked for.
THEOREM UpgradesAlwaysWork ==
    UpgradeBounds /\ UpdateBounds => (UpgradeSpec /\ AppUpdateSpec => []UpgradesKeepWorking)
<1>1. UpgradesKeepACore /\ UpdatesAreWanted => UpgradesKeepWorking
  BY DEF UpgradesKeepWorking
<1> QED BY <1>1, UpgradesAlwaysKeepACore, UpdatesAreAlwaysWanted, PTL

=============================================================================
