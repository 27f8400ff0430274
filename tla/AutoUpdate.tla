----------------------------- MODULE AutoUpdate -----------------------------
(***************************************************************************)
(* Automatic updates of remote profiles (core/timer.rs): a refresh reads   *)
(* the profiles' options, caches the schedule and sends it to the          *)
(* scheduler task; the scheduler arms one queue entry per profile and      *)
(* starts an update when it fires; the update downloads with the options   *)
(* it read at its start and merges them back when it lands                 *)
(* (feat/profile.rs, config/profiles.rs).  Users patch and delete profiles *)
(* (cmd/profile.rs) at any point.                                          *)
(*                                                                         *)
(* Time is abstracted: an armed entry may fire at any moment.              *)
(***************************************************************************)
EXTENDS Naturals, Sequences, SequencesExt

CONSTANTS
    Profiles,    \* remote profiles
    Callers,     \* commands that change a profile or refresh the timer, one each
    Boot,        \* Timer::init
    Keys,        \* keys the delay queue hands out per profile
    Intervals,   \* update intervals, of which 0 means never
    Offered,     \* the options a user gives a profile
    None, Deleted

Options == [allow : BOOLEAN, interval : Intervals \cup {None}]

Refreshers == Callers \cup {Boot}

ASSUME AutoUpdateAssumption ==
    /\ Boot \notin Callers
    /\ None \notin Refreshers
    /\ Intervals \subseteq Nat
    /\ Offered \subseteq Options
    /\ Deleted \notin Options
    /\ None \notin Keys \cup Nat
    /\ \E k, l \in Keys : k # l

VARIABLES
    config,        \* the committed options of each profile
    announced,     \* whether the last change of a profile's options calls for a refresh
    callers,       \* where each command and Timer::init stand
    refreshLock,   \* who holds refresh_lock
    timerMap,      \* timer_map: the cached interval of each scheduled profile
    commands,      \* the scheduler's channel
    queue,         \* the delay queue: the armed keys of each profile
    tasks,         \* the scheduler's tasks
    jobs           \* the update tasks alive for each profile

vars == <<config, announced, callers, refreshLock, timerMap, commands, queue, tasks, jobs>>
profileVars == <<config, announced>>
refreshVars == <<callers, refreshLock, timerMap>>
schedulerVars == <<queue, tasks>>

Positive == Intervals \ {0}
Maps == UNION {[S -> Positive] : S \in SUBSET Profiles}
NoMap == [u \in {} |-> 1]

CallerPhases == {"idle", "patching", "fetching", "waiting", "locked", "planned",
                 "overdue", "running", "done", "failed"}
Caller == [phase : CallerPhases, uid : Profiles \cup {None}, option : Options \cup {None},
           refresh : BOOLEAN, map : Maps]
Task == [known : BOOLEAN, key : Keys \cup {None}, interval : Intervals \cup {None},
         running : BOOLEAN, retired : BOOLEAN]
Job == [phase : {"starting", "fetching", "reporting"}, option : Options \cup {None}]

Idle == [phase |-> "idle", uid |-> None, option |-> None, refresh |-> FALSE, map |-> NoMap]
NoTask == [known |-> FALSE, key |-> None, interval |-> None, running |-> FALSE, retired |-> FALSE]

Apply(map) == [kind |-> "Apply", map |-> map]
RunNow(u) == [kind |-> "RunNow", uid |-> u]
TaskFinished(u) == [kind |-> "TaskFinished", uid |-> u]
Commands == [kind : {"Apply"}, map : Maps] \cup [kind : {"RunNow", "TaskFinished"}, uid : Profiles]

TypeOK ==
    /\ config \in [Profiles -> Options \cup {Deleted}]
    /\ announced \in [Profiles -> BOOLEAN]
    /\ callers \in [Refreshers -> Caller]
    /\ refreshLock \in Refreshers \cup {None}
    /\ timerMap \in Maps
    /\ commands \in Seq(Commands)
    /\ queue \in [Profiles -> SUBSET Keys]
    /\ tasks \in [Profiles -> Task]
    /\ jobs \in [Profiles -> Seq(Job)]

Init ==
    /\ config \in [Profiles -> Offered]
    /\ announced = [u \in Profiles |-> TRUE]
    /\ callers = [c \in Refreshers |-> Idle]
    /\ refreshLock = None
    /\ timerMap = NoMap
    /\ commands = <<>>
    /\ queue = [u \in Profiles |-> {}]
    /\ tasks = [u \in Profiles |-> NoTask]
    /\ jobs = [u \in Profiles |-> <<>>]

-----------------------------------------------------------------------------
(* Profiles *)

At(c, phase) == callers[c].phase = phase
Goto(c, phase) == callers' = [callers EXCEPT ![c].phase = phase]

\* Changes a profile's options; a change nobody refreshes for goes unannounced.
SetOption(u, option, refresh) ==
    /\ config' = [config EXCEPT ![u] = option]
    /\ announced' = [announced EXCEPT ![u] = refresh \/ (@ /\ option = config[u])]

\* patch_profile compares the options first, to tell whether the timer must know ...
PatchCompare(c, u, option) ==
    /\ At(c, "idle")
    /\ callers' = [callers EXCEPT ![c] =
          [Idle EXCEPT !.phase = "patching", !.uid = u, !.option = option,
                       !.refresh = config[u] # Deleted /\ config[u] # option]]
    /\ UNCHANGED <<profileVars, refreshLock, timerMap, commands, schedulerVars, jobs>>

\* ... then commits them, and spawns the refresh.
PatchCommit(c) ==
    /\ At(c, "patching")
    /\ LET p == callers[c] IN
       IF config[p.uid] = Deleted
       THEN Goto(c, "failed") /\ UNCHANGED profileVars
       ELSE /\ SetOption(p.uid, p.option, p.refresh)
            /\ Goto(c, IF p.refresh THEN "waiting" ELSE "done")
    /\ UNCHANGED <<refreshLock, timerMap, commands, schedulerVars, jobs>>

DeleteProfile(c, u) ==
    /\ At(c, "idle")
    /\ config[u] # Deleted
    /\ SetOption(u, Deleted, TRUE)
    /\ Goto(c, "waiting")
    /\ UNCHANGED <<refreshLock, timerMap, commands, schedulerVars, jobs>>

\* A command that changes other profiles and refreshes.
CallRefresh(c) ==
    /\ At(c, "idle")
    /\ Goto(c, "waiting")
    /\ UNCHANGED <<profileVars, refreshLock, timerMap, commands, schedulerVars, jobs>>

\* What a download with the captured options returns: those options, with the
\* server's interval where they had none.
Fetched(captured, header) ==
    [captured EXCEPT !.interval = IF @ = None THEN header ELSE @]

\* PrfOption::merge: what the second option sets wins.
Merge(one, other) ==
    [allow |-> other.allow, interval |-> IF other.interval = None THEN one.interval ELSE other.interval]

\* update_item; a profile deleted meanwhile is an error.
Land(u, captured) ==
    IF config[u] = Deleted
    THEN UNCHANGED profileVars
    ELSE \E header \in Intervals \cup {None} :
            SetOption(u, Merge(config[u], Fetched(captured, header)), FALSE)

\* A manual update runs whatever the profile allows, and beside the scheduler.
ManualStart(c, u) ==
    /\ At(c, "idle")
    /\ config[u] # Deleted
    /\ callers' = [callers EXCEPT ![c] = [Idle EXCEPT !.phase = "fetching", !.uid = u,
                                                      !.option = config[u]]]
    /\ UNCHANGED <<profileVars, refreshLock, timerMap, commands, schedulerVars, jobs>>

ManualEnd(c) ==
    /\ At(c, "fetching")
    /\ Goto(c, "done")
    /\ Land(callers[c].uid, callers[c].option) \/ UNCHANGED profileVars
    /\ UNCHANGED <<refreshLock, timerMap, commands, schedulerVars, jobs>>

-----------------------------------------------------------------------------
(* Timer::refresh and Timer::init *)

\* Mutant: refreshes do not exclude each other.
NoRefreshLock(c) ==
    /\ At(c, "waiting")
    /\ refreshLock' = c
    /\ Goto(c, "locked")
    /\ UNCHANGED <<profileVars, timerMap, commands, schedulerVars, jobs>>

LockRefresh(c) ==
    /\ At(c, "waiting")
    /\ refreshLock = None
    /\ refreshLock' = c
    /\ Goto(c, "locked")
    /\ UNCHANGED <<profileVars, timerMap, commands, schedulerVars, jobs>>

Enabled(option) ==
    option # Deleted /\ option.allow /\ option.interval \notin {None, 0}

EnabledProfiles == {u \in Profiles : Enabled(config[u])}

GenMap(c) ==
    /\ At(c, "locked")
    /\ callers' = [callers EXCEPT ![c].phase = "planned",
                                  ![c].map = [u \in EnabledProfiles |-> config[u].interval]]
    /\ UNCHANGED <<profileVars, refreshLock, timerMap, commands, schedulerVars, jobs>>

\* Caches the map and sends it, unless nothing changed.
PublishMap(c) ==
    /\ At(c, "planned")
    /\ refreshLock' = None
    /\ Goto(c, IF c = Boot THEN "overdue" ELSE "done")
    /\ timerMap' = callers[c].map
    /\ commands' = IF timerMap = callers[c].map THEN commands
                   ELSE Append(commands, Apply(callers[c].map))
    /\ UNCHANGED <<profileVars, schedulerVars, jobs>>

\* init starts the scheduler and refreshes; a second init returns at once.
StartInit ==
    /\ At(Boot, "idle")
    /\ Goto(Boot, "waiting")
    /\ UNCHANGED <<profileVars, refreshLock, timerMap, commands, schedulerVars, jobs>>

\* Any enabled profile may be overdue by now.
FindOverdue ==
    /\ At(Boot, "overdue")
    /\ \E due \in SUBSET EnabledProfiles :
          callers' = [callers EXCEPT ![Boot].phase = "running",
                                     ![Boot].map = [u \in due |-> config[u].interval]]
    /\ UNCHANGED <<profileVars, refreshLock, timerMap, commands, schedulerVars, jobs>>

RunOverdue(u) ==
    /\ At(Boot, "running")
    /\ LET due == callers[Boot].map IN
       /\ u \in DOMAIN due
       /\ callers' = [callers EXCEPT ![Boot].map = [v \in DOMAIN due \ {u} |-> due[v]]]
    /\ commands' = Append(commands, RunNow(u))
    /\ UNCHANGED <<profileVars, refreshLock, timerMap, schedulerVars, jobs>>

-----------------------------------------------------------------------------
(* The scheduler task *)

FreshKey(u) == CHOOSE k \in Keys : k \notin queue[u]

Spawn(u) == jobs' = [jobs EXCEPT ![u] = Append(@, [phase |-> "starting", option |-> None])]

\* Takes the next command, of the given kind.
Receive(kind) ==
    /\ ~At(Boot, "idle")
    /\ commands # <<>>
    /\ Head(commands).kind = kind
    /\ commands' = Tail(commands)
    /\ UNCHANGED <<profileVars, refreshVars>>

Inserted(u, interval) ==
    [known |-> TRUE, key |-> FreshKey(u), interval |-> interval, running |-> FALSE, retired |-> FALSE]

\* A task that no longer is on the map: it outlives an update in flight.
Removed(task) == IF task.running THEN [task EXCEPT !.key = None, !.retired = TRUE] ELSE NoTask

\* Mutant: a disabled task is dropped although its update runs.
DropRunning(u, map) ==
    IF u \notin DOMAIN map THEN NoTask
    ELSE IF tasks[u].known THEN [tasks[u] EXCEPT !.interval = map[u]] ELSE Inserted(u, map[u])

\* Mutant: a task that was retired stays so when its profile is enabled again.
StayRetired(u, map) ==
    IF u \notin DOMAIN map THEN Removed(tasks[u])
    ELSE IF tasks[u].known THEN [tasks[u] EXCEPT !.interval = map[u]] ELSE Inserted(u, map[u])

\* The task of a profile under a new map.
Rescheduled(u, map) ==
    LET task == tasks[u]
        rearm == task.key = None /\ ~task.running /\ task.interval # map[u]
    IN  IF u \notin DOMAIN map THEN Removed(task)
        ELSE IF ~task.known THEN Inserted(u, map[u])
        ELSE [task EXCEPT !.retired = FALSE, !.interval = map[u],
                          !.key = IF rearm THEN FreshKey(u) ELSE @]

ReceiveApply ==
    /\ Receive("Apply")
    /\ tasks' = [u \in Profiles |-> Rescheduled(u, Head(commands).map)]
    /\ queue' = [u \in Profiles |-> (queue[u] \ {tasks[u].key}) \cup ({tasks'[u].key} \ {None})]
    /\ UNCHANGED jobs

\* Mutant: an immediate run leaves the armed entry in the queue.
RunNowKeepsEntry ==
    /\ Receive("RunNow")
    /\ LET u == Head(commands).uid IN
       IF tasks[u].known /\ ~tasks[u].running
       THEN /\ tasks' = [tasks EXCEPT ![u].running = TRUE, ![u].key = None]
            /\ UNCHANGED queue
            /\ Spawn(u)
       ELSE UNCHANGED <<schedulerVars, jobs>>

ReceiveRunNow ==
    /\ Receive("RunNow")
    /\ LET u == Head(commands).uid IN
       IF tasks[u].known /\ ~tasks[u].running
       THEN /\ tasks' = [tasks EXCEPT ![u].running = TRUE, ![u].key = None]
            /\ queue' = [queue EXCEPT ![u] = @ \ {tasks[u].key}]
            /\ Spawn(u)
       ELSE UNCHANGED <<schedulerVars, jobs>>

\* Mutant: an update that reports back is not scheduled again.
FinishWithoutArming ==
    /\ Receive("TaskFinished")
    /\ LET u == Head(commands).uid IN
       tasks' = [tasks EXCEPT ![u] = IF @.retired THEN NoTask ELSE [@ EXCEPT !.running = FALSE]]
    /\ UNCHANGED <<queue, jobs>>

ReceiveTaskFinished ==
    /\ Receive("TaskFinished")
    /\ LET u == Head(commands).uid IN
       IF ~tasks[u].known
       THEN UNCHANGED schedulerVars
       ELSE IF tasks[u].retired
       THEN tasks' = [tasks EXCEPT ![u] = NoTask] /\ UNCHANGED queue
       ELSE /\ tasks' = [tasks EXCEPT ![u].running = FALSE, ![u].key = FreshKey(u)]
            /\ queue' = [queue EXCEPT ![u] = @ \cup {FreshKey(u)}]
    /\ UNCHANGED jobs

Expire(u, k) ==
    /\ k \in queue[u]
    /\ queue' = [queue EXCEPT ![u] = @ \ {k}]
    /\ tasks' = IF tasks[u].known
                THEN [tasks EXCEPT ![u].key = None, ![u].running = TRUE] ELSE tasks
    /\ IF tasks[u].known /\ ~tasks[u].running THEN Spawn(u) ELSE UNCHANGED jobs
    /\ UNCHANGED <<profileVars, refreshVars, commands>>

Scheduler == ReceiveApply \/ ReceiveRunNow \/ ReceiveTaskFinished

-----------------------------------------------------------------------------
(* An update task: the i-th one alive of profile u. *)

JobAt(u, i, phase) == i \in DOMAIN jobs[u] /\ jobs[u][i].phase = phase
JobGoto(u, i, phase) == jobs' = [jobs EXCEPT ![u][i].phase = phase]

\* should_update_profile captures the options of a profile that allows updates.
StartUpdate(u, i) ==
    /\ JobAt(u, i, "starting")
    /\ IF config[u] = Deleted \/ ~config[u].allow
       THEN JobGoto(u, i, "reporting")
       ELSE jobs' = [jobs EXCEPT ![u][i] = [phase |-> "fetching", option |-> config[u]]]
    /\ UNCHANGED <<profileVars, refreshVars, commands, schedulerVars>>

\* The download fails, or lands.
EndUpdate(u, i) ==
    /\ JobAt(u, i, "fetching")
    /\ JobGoto(u, i, "reporting")
    /\ Land(u, jobs[u][i].option) \/ UNCHANGED profileVars
    /\ UNCHANGED <<refreshVars, commands, schedulerVars>>

ReportUpdate(u, i) ==
    /\ JobAt(u, i, "reporting")
    /\ jobs' = [jobs EXCEPT ![u] = RemoveAt(@, i)]
    /\ commands' = Append(commands, TaskFinished(u))
    /\ UNCHANGED <<profileVars, refreshVars, schedulerVars>>

UpdateStep(u) == \E i \in DOMAIN jobs[u] : StartUpdate(u, i) \/ EndUpdate(u, i) \/ ReportUpdate(u, i)

-----------------------------------------------------------------------------
RefreshStep(c) == LockRefresh(c) \/ GenMap(c) \/ PublishMap(c)
InitStep == StartInit \/ FindOverdue \/ \E u \in Profiles : RunOverdue(u)

Command(c) ==
    \/ \E u \in Profiles : \/ \E option \in Offered : PatchCompare(c, u, option)
                           \/ DeleteProfile(c, u) \/ ManualStart(c, u)
    \/ CallRefresh(c)

Next ==
    \/ \E c \in Callers : Command(c) \/ PatchCommit(c) \/ ManualEnd(c)
    \/ \E c \in Refreshers : RefreshStep(c)
    \/ InitStep
    \/ Scheduler
    \/ \E u \in Profiles : (\E k \in Keys : Expire(u, k)) \/ UpdateStep(u)

Spec == Init /\ [][Next]_vars

\* Commands, refreshes and downloads end, the scheduler polls both of its branches,
\* and time passes.
Fairness ==
    /\ \A c \in Callers : WF_vars(PatchCommit(c)) /\ WF_vars(ManualEnd(c))
    /\ \A c \in Refreshers : WF_vars(RefreshStep(c))
    /\ WF_vars(InitStep) /\ WF_vars(Scheduler)
    /\ \A u \in Profiles : WF_vars(\E k \in Keys : Expire(u, k)) /\ WF_vars(UpdateStep(u))

FairSpec == Spec /\ Fairness

-----------------------------------------------------------------------------
(* Properties *)

\* delay queue and tasks: a task is armed exactly while it does not run, under the one
\* entry its profile has in the queue, so that no removal names a missing key and no
\* entry fires for a task that forgot it.
QueueMatchesTasks ==
    \A u \in Profiles :
        /\ queue[u] = {tasks[u].key} \ {None}
        /\ tasks[u].known => (tasks[u].key = None <=> tasks[u].running)
        /\ tasks[u].retired => tasks[u].running

\* "re-enabling must not queue a second run alongside the one already going": a profile
\* has one scheduled update at a time, counted until the scheduler took its report.
OneUpdateAtATime ==
    \A u \in Profiles :
        LET reports == {i \in DOMAIN commands : commands[i] = TaskFinished(u)} IN
        /\ Len(jobs[u]) <= 1
        /\ \A i, j \in reports : i = j
        /\ reports # {} => jobs[u] = <<>>
        /\ tasks[u].running <=> (jobs[u] # <<>> \/ reports # {})

\* rescheduled and finish_task: whatever reaches the scheduler in whatever order, each
\* profile has one entry or one update, never both.
QueueServesOneUpdate == QueueMatchesTasks /\ OneUpdateAtATime

\* What the scheduler follows once it took the commands it was sent.
Planned ==
    LET sent == {i \in DOMAIN commands : commands[i].kind = "Apply"} IN
    IF sent = {}
    THEN [u \in {v \in Profiles : tasks[v].known /\ ~tasks[v].retired} |-> tasks[u].interval]
    ELSE commands[CHOOSE i \in sent : \A j \in sent : j <= i].map

\* refresh: the cache that decides whether a schedule must be sent is what the
\* scheduler follows, also across retirements and updates in flight.
SchedulerFollowsCache == Planned = timerMap

\* refresh_lock: when every refresh has ended, the cache holds the options of each
\* profile whose last change was announced; no older map overwrites a newer one.
CacheFollowsOptions ==
    (/\ callers[Boot].phase \in {"overdue", "running"}
     /\ \A c \in Callers : callers[c].phase \notin {"waiting", "locked", "planned"})
    => \A u \in Profiles : announced[u] =>
          /\ u \in DOMAIN timerMap <=> Enabled(config[u])
          /\ Enabled(config[u]) => timerMap[u] = config[u].interval

\* The two together: the options decide what the scheduler does.
ScheduleFollowsOptions == SchedulerFollowsCache /\ CacheFollowsOptions

\* finish_task: a profile that stays scheduled is updated again and again, whether its
\* updates succeed or fail.
KeepsUpdating == \A u \in Profiles : []<>(u \notin DOMAIN timerMap \/ jobs[u] # <<>>)

=============================================================================
