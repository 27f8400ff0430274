--------------------------- MODULE SelectedNodes ----------------------------
(***************************************************************************)
(* The nodes a profile remembers for its proxy groups                      *)
(* (config/profiles.rs).  The user picks a node on the core and the pick   *)
(* is recorded (feat/profile.rs, cmd/proxy.rs); whenever a core comes up   *)
(* with a configuration, an activation task puts the recorded nodes back,  *)
(* and after a switch of profiles it also repairs the records the core no  *)
(* longer matches.  Every task carries the generation it was born with and *)
(* checks it after each await; every newer activation or record bumps it.  *)
(*                                                                         *)
(* The core is the environment: it may load the nodes of a provider late,  *)
(* change them, restart, and fail any request.                             *)
(***************************************************************************)
EXTENDS Naturals, FiniteSets

CONSTANTS
    Profiles, Groups, Nodes,
    Offers,         \* Offers[p][g]: the nodes of group g in profile p, {} when p has no such group
    Manual,         \* Manual[p]: the groups of p that a node can be selected for
    Providers,      \* groups whose nodes a provider loads after the core is up
    Recorded,       \* the records to begin with
    Users,          \* commands that pick, forget or patch a selection, one each
    Choices,        \* the groups and nodes they may choose
    MaxGeneration,  \* bound on the generations
    Rounds,         \* attempts to settle the pending selections
    Delivered,      \* the sets of nodes a provider may deliver
    MaxChanges,     \* bound on what providers do
    None, Absent

Group == [all : SUBSET Nodes, now : Nodes \cup {None}, manual : BOOLEAN]
Views == [Groups -> Group \cup {Absent}]

ASSUME SelectedNodesAssumption ==
    /\ Offers \in [Profiles -> [Groups -> SUBSET Nodes]]
    /\ Manual \in [Profiles -> SUBSET Groups]
    /\ Providers \subseteq Groups
    /\ Recorded \subseteq [Profiles -> [Groups -> Nodes \cup {None}]]
    /\ Choices \subseteq Groups \X Nodes
    /\ Delivered \subseteq (SUBSET Nodes) \ {{}}
    /\ MaxGeneration \in Nat /\ Rounds \in Nat \ {0} /\ MaxChanges \in Nat
    /\ None \notin Nodes \cup Profiles \cup Views

VARIABLES
    core,         \* what the core answers: the groups of the configuration it runs
    changes,      \* how often a provider changed them
    current,      \* the committed current profile
    items,        \* the profiles there are
    selected,     \* the recorded node of each group of each profile
    generation,   \* ACTIVATE_SELECTED_GENERATION
    tasks,        \* the activation of each generation, chained by ACTIVATE_SELECTED_TASK
    users,        \* where each user's command stands
    switch,       \* the switch or deletion of a profile in progress
    undisturbed   \* the last task begun, while nothing else has touched core or records since

vars == <<core, changes, current, items, selected, generation, tasks, users, switch, undisturbed>>
coreVars == <<core, changes>>
profileVars == <<current, items, selected>>

Records == [Groups -> Nodes \cup {None}]

Passes == {"first", "second", "settle"}
Task == [phase : {"none", "queued", "fetching", "selecting", "sent", "saving", "ended"},
         repair : {"Prune", "KeepRecords"}, pass : Passes, uid : Profiles \cup {None},
         sel : Records, unsure : BOOLEAN, first : Views \cup {None}, second : Views \cup {None},
         todo : SUBSET Groups, done : SUBSET Groups, sent : Groups \cup {None}, round : 0 .. Rounds]

Empty == [g \in Groups |-> None]
NoTask == [phase |-> "none", repair |-> "KeepRecords", pass |-> "first", uid |-> None, sel |-> Empty,
           unsure |-> FALSE, first |-> None, second |-> None, todo |-> {}, done |-> {}, sent |-> None, round |-> 0]

NoSwitch == [phase |-> "idle", to |-> None, deletes |-> None, waitsFor |-> 0]

TypeOK ==
    /\ core \in Views
    /\ changes \in 0 .. MaxChanges
    /\ current \in Profiles
    /\ items \in SUBSET Profiles
    /\ selected \in [Profiles -> Records]
    /\ generation \in 0 .. MaxGeneration
    /\ tasks \in [1 .. MaxGeneration -> Task]
    /\ users \in [Users -> [phase : {"idle", "picked", "recorded", "done"},
                            group : Groups \cup {None}, node : Nodes \cup {None}]]
    /\ switch \in [phase : {"idle", "asked", "reloaded", "failed", "restoring", "committed"},
                   to : Profiles \cup {None}, deletes : Profiles \cup {None},
                   waitsFor : 0 .. MaxGeneration]
    /\ undisturbed \in 0 .. MaxGeneration

\* What a core that has just loaded profile p may answer.
FreshGroup(p, g) ==
    IF Offers[p][g] = {} THEN {Absent}
    ELSE IF g \in Providers THEN {[all |-> {}, now |-> None, manual |-> g \in Manual[p]]}
    ELSE {[all |-> Offers[p][g], now |-> n, manual |-> g \in Manual[p]] : n \in Offers[p][g]}

Fresh(p) == {v \in [Groups -> UNION {FreshGroup(p, g) : g \in Groups}] :
                \A g \in Groups : v[g] \in FreshGroup(p, g)}

Init ==
    /\ current \in Profiles
    /\ items = Profiles
    /\ core \in Fresh(current)
    /\ changes = 0
    /\ selected \in Recorded
    /\ generation = 0
    /\ tasks = [t \in 1 .. MaxGeneration |-> NoTask]
    /\ users = [u \in Users |-> [phase |-> "idle", group |-> None, node |-> None]]
    /\ switch = NoSwitch
    /\ undisturbed = 0

-----------------------------------------------------------------------------
(* What a task computes from a snapshot *)

Loaded(view, g) == view[g] # Absent /\ view[g].all # {}

\* selected_nodes_need_confirmation
NeedsConfirmation(sel, view) ==
    \E g \in Groups : sel[g] # None /\ ~(Loaded(view, g) /\ sel[g] \in view[g].all)

\* reconcile_selected_nodes: the records it keeps.  A group's own choice replaces the record of a
\* group that takes no selection; a missing group or node only goes once an earlier snapshot
\* lacked it too.
Reconciled(sel, previous, view) ==
    [g \in Groups |->
        LET node == sel[g]
            group == view[g]
            own == IF group.now \in group.all THEN group.now ELSE None
        IN  IF node = None THEN None
            ELSE IF group = Absent THEN IF previous # None /\ previous[g] = Absent THEN None ELSE node
            ELSE IF group.all = {} \/ (group.manual /\ node \in group.all) THEN node
            ELSE IF group.manual
            THEN IF previous # None /\ Loaded(previous, g) /\ node \notin previous[g].all THEN own ELSE node
            ELSE IF own # None THEN own ELSE IF node \in group.all THEN node ELSE None]

\* ... and the groups it selects the recorded node for.
Activations(sel, view) ==
    {g \in Groups : /\ sel[g] # None /\ Loaded(view, g)
                    /\ view[g].manual /\ sel[g] \in view[g].all /\ view[g].now # sel[g]}

\* unsettled_selections
Unsettled(sel, view) ==
    {g \in Groups : sel[g] # None /\ (view[g] = Absent \/ view[g].now # sel[g])}

\* The plan a finished pass ends with.
Plan(t) == IF t.second = None THEN Reconciled(t.sel, None, t.first)
                              ELSE Reconciled(t.sel, t.first, t.second)

-----------------------------------------------------------------------------
(* The generation *)

IsCurrent(t) == generation = t

\* Within the bound, and leaving room for what a switch has still to do.
HasRoom(n) == generation + n + (IF switch.phase \in {"idle", "restoring"} THEN 0 ELSE 1) <= MaxGeneration

Supersede == generation' = generation + 1

\* activate_selected_nodes_with: a new generation, queued behind the previous task.
Activate(repair) ==
    /\ Supersede
    /\ tasks' = [tasks EXCEPT ![generation + 1] = [NoTask EXCEPT !.phase = "queued", !.repair = repair]]

\* A deletion of the current profile keeps the permit of with_data_modify from its start to its
\* commit, or until the nodes are back after a failure.
Unlocked == switch.deletes = None \/ switch.phase \in {"idle", "committed"}

-----------------------------------------------------------------------------
(* An activation task *)

Phase(t, phase) == tasks[t].phase = phase
Put(t, task) == tasks' = [tasks EXCEPT ![t] = task]
\* A task that is over forgets what it read and releases its waiter.
End(t) == Put(t, [NoTask EXCEPT !.phase = "ended"])

Over(t) == tasks[t].phase \in {"none", "ended"}

\* mutant: a task does not wait for the one before it
NoWait(t) == TRUE

PreviousOver(t) == \A s \in 1 .. t - 1 : Over(s)

\* Reads the committed profiles, never a draft.
Begin(t) ==
    /\ Phase(t, "queued")
    /\ PreviousOver(t)
    /\ IF ~IsCurrent(t) \/ current \notin items \/ selected[current] = Empty
       THEN End(t)
       ELSE Put(t, [tasks[t] EXCEPT !.phase = "fetching", !.uid = current, !.sel = selected[current]])
    /\ undisturbed' = t
    /\ UNCHANGED <<coreVars, profileVars, generation, users, switch>>

\* The next phase once a pass has selected all it could.
AfterPass(t, task) ==
    IF task.pass = "settle"
    THEN Put(t, [task EXCEPT !.phase = "fetching"])
    ELSE IF task.pass = "first" /\ task.unsure
    THEN Put(t, [task EXCEPT !.phase = "fetching", !.pass = "second"])
    ELSE IF task.repair = "KeepRecords"
    THEN Put(t, [task EXCEPT !.phase = "fetching", !.pass = "settle"])
    ELSE IF Plan(task) # task.sel THEN Put(t, [task EXCEPT !.phase = "saving"])
    ELSE End(t)

\* A snapshot of the core; a failed one ends the task, or costs a round of settling.  Only a task
\* that may prune has a use for its snapshots later.
Kept(task) == IF task.repair = "Prune" THEN core ELSE None

Fetch(t) ==
    /\ Phase(t, "fetching")
    /\ LET task == tasks[t] IN
       IF ~IsCurrent(t) THEN End(t)
       ELSE CASE task.pass = "first" ->
                   Put(t, [task EXCEPT !.phase = "selecting", !.first = Kept(task),
                                       !.unsure = NeedsConfirmation(task.sel, core),
                                       !.todo = Activations(task.sel, core)])
              [] task.pass = "second" ->
                   Put(t, [task EXCEPT !.phase = "selecting", !.second = Kept(task),
                                       !.todo = Activations(task.sel, core) \ task.done])
              [] task.pass = "settle" ->
                   IF task.round = Rounds \/ Unsettled(task.sel, core) = {}
                   THEN End(t)
                   ELSE Put(t, [task EXCEPT !.phase = "selecting", !.round = @ + 1,
                                            !.todo = Activations(task.sel, core) \ task.done])
    /\ UNCHANGED <<coreVars, profileVars, generation, users, switch, undisturbed>>

FetchFails(t) ==
    /\ Phase(t, "fetching")
    /\ IF tasks[t].pass = "settle" /\ IsCurrent(t) /\ tasks[t].round < Rounds
       THEN Put(t, [tasks[t] EXCEPT !.round = @ + 1])
       ELSE End(t)
    /\ undisturbed' = 0
    /\ UNCHANGED <<coreVars, profileVars, generation, users, switch>>

\* apply_activations checks the generation, then asks the core ...
SendSelect(t) ==
    /\ Phase(t, "selecting")
    /\ IF tasks[t].todo = {} THEN IF IsCurrent(t) THEN AfterPass(t, tasks[t]) ELSE End(t)
       ELSE IF ~IsCurrent(t) THEN End(t)
       ELSE \E g \in tasks[t].todo : Put(t, [tasks[t] EXCEPT !.phase = "sent", !.sent = g])
    /\ UNCHANGED <<coreVars, profileVars, generation, users, switch, undisturbed>>

\* What the core does with a selection: it refuses a node it does not have.
Selects(g, node) ==
    /\ core[g] # Absent /\ core[g].manual /\ node \in core[g].all
    /\ core' = [core EXCEPT ![g].now = node]
    /\ UNCHANGED changes

AfterSelect(t, done) ==
    IF IsCurrent(t)
    THEN Put(t, [tasks[t] EXCEPT !.phase = "selecting", !.sent = None,
                                 !.todo = @ \ {tasks[t].sent}, !.done = @ \cup done])
    ELSE End(t)

\* ... and checks it again when the core has answered.
SelectLands(t) ==
    /\ Phase(t, "sent")
    /\ Selects(tasks[t].sent, tasks[t].sel[tasks[t].sent])
    /\ AfterSelect(t, {tasks[t].sent})
    /\ UNCHANGED <<profileVars, generation, users, switch, undisturbed>>

SelectFails(t) ==
    /\ Phase(t, "sent")
    /\ AfterSelect(t, {})
    /\ undisturbed' = 0
    /\ UNCHANGED <<coreVars, profileVars, generation, users, switch>>

\* mutant: the records are not compared with what the task read
MaySaveAnyway(t) == IsCurrent(t) /\ current = tasks[t].uid

\* persist_reconciled_selected: only into the profile it read, as it read it.
MaySave(t) ==
    /\ IsCurrent(t)
    /\ current = tasks[t].uid
    /\ selected[current] = tasks[t].sel

Save(t) ==
    /\ Phase(t, "saving")
    /\ Unlocked
    /\ End(t)
    /\ \/ /\ MaySave(t) /\ tasks[t].uid \in items
          /\ selected' = [selected EXCEPT ![tasks[t].uid] = Plan(tasks[t])]
       \/ UNCHANGED selected \* refused, or the save failed
    /\ UNCHANGED <<coreVars, current, items, generation, users, switch, undisturbed>>

-----------------------------------------------------------------------------
(* Users *)

Disturb == undisturbed' = 0
UserAt(u, phase) == users[u].phase = phase
Goto(u, phase) == users' = [users EXCEPT ![u] = [phase |-> phase, group |-> None, node |-> None]]

\* switch_proxy_node and the proxies page: the core first ...
Pick(u, g, n) ==
    /\ UserAt(u, "idle")
    /\ Selects(g, n)
    /\ users' = [users EXCEPT ![u] = [phase |-> "picked", group |-> g, node |-> n]]
    /\ Disturb
    /\ UNCHANGED <<profileVars, generation, tasks, switch>>

\* ... then the record of the committed current profile; a record that was right is left alone.
Record(u) ==
    /\ UserAt(u, "picked")
    /\ Unlocked
    /\ IF current \notin items \/ selected[current][users[u].group] = users[u].node
       THEN Goto(u, "done") /\ UNCHANGED selected
       ELSE \/ /\ selected' = [selected EXCEPT ![current][users[u].group] = users[u].node]
               /\ Goto(u, "recorded")
            \/ Goto(u, "done") /\ UNCHANGED selected \* the save failed: logged
    /\ Disturb
    /\ UNCHANGED <<coreVars, current, items, generation, tasks, switch>>

\* forget_selected_node
Forget(u, g) ==
    /\ UserAt(u, "idle") /\ Unlocked
    /\ current \in items /\ selected[current][g] # None
    /\ selected' = [selected EXCEPT ![current][g] = None]
    /\ Goto(u, "recorded")
    /\ Disturb
    /\ UNCHANGED <<coreVars, current, items, generation, tasks, switch>>

\* patch_profile with a list of selections, for any profile.
PatchSelected(u, p, g, n) ==
    /\ UserAt(u, "idle") /\ Unlocked
    /\ p \in items
    /\ selected' = [selected EXCEPT ![p][g] = n]
    /\ Goto(u, "recorded")
    /\ Disturb
    /\ UNCHANGED <<coreVars, current, items, generation, tasks, switch>>

\* Each of them stands down the activation in flight once its record is committed.
StandDown(u) ==
    /\ UserAt(u, "recorded")
    /\ HasRoom(1)
    /\ Supersede
    /\ Goto(u, "done")
    /\ UNCHANGED <<coreVars, profileVars, tasks, switch, undisturbed>>

-----------------------------------------------------------------------------
(* Switches and deletions of profiles *)

SwitchAt(phase) == switch.phase = phase

\* patch_profiles_config leaves the activation in flight alone; a deletion of the current profile
\* stands it down as it starts (update_config_forced_with_profiles).
StartSwitch(p) ==
    /\ SwitchAt("idle")
    /\ p \in items \ {current}
    /\ \/ /\ HasRoom(1)
          /\ switch' = [NoSwitch EXCEPT !.phase = "asked", !.to = p]
          /\ UNCHANGED generation
       \/ /\ HasRoom(2)
          /\ switch' = [NoSwitch EXCEPT !.phase = "asked", !.to = p, !.deletes = current]
          /\ Supersede
    /\ UNCHANGED <<coreVars, profileVars, tasks, users, undisturbed>>

\* The core takes the new configuration.
ReloadSwitched ==
    /\ SwitchAt("asked")
    /\ core' \in Fresh(switch.to)
    /\ switch' = [switch EXCEPT !.phase = "reloaded"]
    /\ Disturb
    /\ UNCHANGED <<changes, profileVars, generation, tasks, users>>

\* It was invalid, or a later step failed: the core runs the old profile again.
FailSwitch ==
    /\ switch.phase \in {"asked", "reloaded"}
    /\ IF SwitchAt("asked") THEN UNCHANGED core ELSE core' \in Fresh(current)
    /\ switch' = [switch EXCEPT !.phase = "failed"]
    /\ Disturb
    /\ UNCHANGED <<changes, profileVars, generation, tasks, users>>

\* A failed switch activates nothing by itself.  A failed deletion puts the nodes back, and waits
\* for the first pass of that activation, or for its budget to run out, before it lets go.
RestoreAfterFailure ==
    /\ SwitchAt("failed")
    /\ IF switch.deletes = None
       THEN switch' = NoSwitch /\ UNCHANGED <<generation, tasks>>
       ELSE /\ Activate("KeepRecords")
            /\ switch' = [switch EXCEPT !.phase = "restoring", !.waitsFor = generation + 1]
    /\ UNCHANGED <<coreVars, profileVars, users, undisturbed>>

FirstPassDone(t) == Over(t) \/ tasks[t].pass = "settle"

\* mutant: the wait for the first pass has no bound
NoBudget == FALSE

BudgetSpent == SwitchAt("restoring")

FinishRestore ==
    /\ SwitchAt("restoring")
    /\ FirstPassDone(switch.waitsFor) \/ BudgetSpent
    /\ switch' = NoSwitch
    /\ UNCHANGED <<coreVars, profileVars, generation, tasks, users, undisturbed>>

\* commit_current_profile, or the commit of a deletion ...
CommitSwitch ==
    /\ SwitchAt("reloaded")
    /\ current' = switch.to
    /\ items' = items \ {switch.deletes}
    /\ switch' = [switch EXCEPT !.phase = "committed"]
    /\ Disturb
    /\ UNCHANGED <<coreVars, selected, generation, tasks, users>>

\* ... and the activation that may prune.
ActivateSwitched ==
    /\ SwitchAt("committed")
    /\ Activate("Prune")
    /\ switch' = NoSwitch
    /\ UNCHANGED <<coreVars, profileVars, users, undisturbed>>

-----------------------------------------------------------------------------
(* The core *)

\* A core start outside a deletion restores the nodes; inside one it leaves that to the commit.
CoreRestarts ==
    /\ core' \in Fresh(IF SwitchAt("reloaded") THEN switch.to ELSE current)
    /\ IF switch.deletes # None /\ switch.phase \in {"asked", "reloaded"}
       THEN UNCHANGED <<generation, tasks>>
       ELSE Activate("KeepRecords") /\ HasRoom(1)
    /\ Disturb
    /\ UNCHANGED <<changes, profileVars, users, switch>>

\* A provider delivers the nodes of a group, or other nodes than before.
ProviderChanges(g) ==
    /\ changes < MaxChanges
    /\ core[g] # Absent /\ g \in Providers
    /\ \E all \in Delivered \ {core[g].all} :
          LET now == IF core[g].now \in all THEN core[g].now ELSE CHOOSE n \in all : TRUE
          IN  core' = [core EXCEPT ![g] = [@ EXCEPT !.all = all, !.now = now]]
    /\ changes' = changes + 1
    /\ Disturb
    /\ UNCHANGED <<profileVars, generation, tasks, users, switch>>

-----------------------------------------------------------------------------
TaskStep(t) ==
    Begin(t) \/ Fetch(t) \/ FetchFails(t) \/ SendSelect(t) \/ SelectLands(t) \/ SelectFails(t) \/ Save(t)

UserStep(u) ==
    \/ \E choice \in Choices :
          \/ Pick(u, choice[1], choice[2])
          \/ Forget(u, choice[1])
          \/ \E p \in Profiles : PatchSelected(u, p, choice[1], choice[2])
    \/ Record(u)
    \/ StandDown(u)

SwitchGoesOn ==
    \/ ReloadSwitched \/ FailSwitch \/ RestoreAfterFailure \/ FinishRestore
    \/ CommitSwitch \/ ActivateSwitched

CoreStep == CoreRestarts \/ \E g \in Groups : ProviderChanges(g)

Next ==
    \/ \E t \in 1 .. MaxGeneration : TaskStep(t)
    \/ \E u \in Users : UserStep(u)
    \/ \E p \in Profiles : StartSwitch(p)
    \/ SwitchGoesOn
    \/ CoreStep

Spec == Init /\ [][Next]_vars

\* Every await of a task is bounded by a timeout, so a task always moves on; so does a restore, and
\* a switch asks the core within bounds of its own.
FairSpec ==
    /\ Spec
    /\ WF_vars(\E t \in 1 .. MaxGeneration : TaskStep(t))
    /\ WF_vars(SwitchGoesOn)

-----------------------------------------------------------------------------
(* Properties *)

\* A record the user chose is repaired only by an activation that may prune, in the profile the
\* task read, while it still holds what the task read, and only if the group refuses selections or
\* both snapshots of the core lacked the node: a provider that is slow, a failed request or a
\* pick that overtook the task never costs a record (reconcile_selected_nodes,
\* persist_reconciled_selected).
RepairsAreConfirmed ==
    [][\A t \in 1 .. MaxGeneration : Phase(t, "saving") /\ selected' # selected /\ tasks' # tasks =>
        LET task == tasks[t] IN
        /\ task.repair = "Prune"
        /\ \A p \in Profiles \ {task.uid} : selected'[p] = selected[p]
        /\ current = task.uid
        /\ \A g \in Groups : selected'[task.uid][g] # selected[task.uid][g] =>
              /\ selected[task.uid][g] = task.sel[g]
              /\ LET node == task.sel[g]
                     last == IF task.second = None THEN task.first ELSE task.second
                 IN  \/ last[g] # Absent /\ ~last[g].manual
                     \/ /\ task.second # None
                        /\ \A view \in {task.first, task.second} :
                              view[g] = Absent \/ (Loaded(view, g) /\ node \notin view[g].all)
      ]_vars

\* When the newest activation is over and nothing failed or interfered since it began, every group
\* that takes a selection is on its recorded node, wherever the core has that node: no earlier
\* task's request can arrive after it (activate_selected_nodes_with awaits the previous task).
RestoredAgrees ==
    \A t \in 1 .. MaxGeneration : undisturbed = t /\ IsCurrent(t) /\ Phase(t, "ended") =>
        Activations(selected[current], core) = {}

\* Every activation comes to its end and every failed deletion returns, although a task waits for
\* the one before it, that one may wait for the permit to save, and the permit is held by the
\* deletion that waits for the first task (FirstPassSignal, SELECTED_NODES_FIRST_PASS_BUDGET,
\* SELECTED_NODES_SETTLE_DEADLINE).
ActivationsEnd ==
    []<>(SwitchAt("idle") /\ \A t \in 1 .. MaxGeneration : Over(t))

=============================================================================
