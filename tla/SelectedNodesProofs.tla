------------------------- MODULE SelectedNodesProofs --------------------------
(***************************************************************************)
(* Theorems about SelectedNodes, for any profiles, groups, nodes, offers,  *)
(* records, users and providers; and about Instance, for any launches, any *)
(* data and any number of failures and kills.                              *)
(***************************************************************************)
EXTENDS SelectedNodes, Instance, TLAPS

-----------------------------------------------------------------------------
(* The inductive invariant *)

\* Generations within the bound.
Generations == 1 .. MaxGeneration

\* Phases of a task that has begun and is not over.
Working == {"fetching", "selecting", "sent", "saving"}

\* What a switch may still bump the generation for: the generations suffice.
Due == IF switch.phase \in {"idle", "restoring"} THEN 0 ELSE 1
Room == generation + Due <= MaxGeneration

\* A task that may prune does not settle, and has a snapshot once it selects; a task that may not
\* keeps no second snapshot and saves nothing.  A selection that is sent is one for a group.
Last(task) == IF task.second = None THEN task.first ELSE task.second

Repairs(task) ==
    /\ task.repair = "Prune" => task.pass # "settle"
    /\ task.repair = "Prune" /\ task.phase \in {"selecting", "sent", "saving"} => Last(task) \in Views
    /\ task.repair # "Prune" => task.second = None /\ task.phase # "saving"
    /\ task.phase = "sent" => task.sent \in Groups

\* The types, and what they rest on.
Types == TypeOK /\ Room /\ \A t \in Generations : Repairs(tasks[t])

\* A switch leaves a profile that stays for one that exists.
SwitchFits ==
    /\ current \in items
    /\ switch.phase \in {"asked", "reloaded"} =>
         switch.to \in items /\ switch.to # switch.deletes

\* Tasks are queued in the order of their generations and begin in that order, each when all
\* before it are over.
Queued(t) == tasks[t].phase = "queued" => tasks[t].pass = "first" /\ tasks[t].second = None
Begun(t) == tasks[t].phase \notin {"none", "queued"} => PreviousOver(t)
Born(t) == tasks[t].phase # "none" => t <= generation

TasksFit ==
    /\ undisturbed <= generation
    /\ \A t \in Generations : Born(t) /\ Queued(t) /\ Begun(t)

\* The core is as it was at the last snapshot, but for the groups the task selects nodes for.
SnapshotFits(task) ==
    \A g \in Groups \ Activations(task.sel, Last(task)) : core[g] = Last(task)[g]

\* What a task has still to select is all that is left to select.
ReadingFits(task) ==
    /\ selected[current] = task.sel
    /\ ((task.phase = "fetching" /\ task.pass # "first") \/ task.phase = "saving") =>
         Activations(task.sel, core) = {}
    /\ task.phase \in {"selecting", "sent"} => Activations(task.sel, core) \subseteq task.todo
    /\ task.phase = "sent" => task.sent \in task.todo
    /\ (task.phase = "fetching" \/ task.pass = "first") => task.second = None
    /\ task.repair = "Prune" /\ task.phase \in {"selecting", "sent", "saving"} => SnapshotFits(task)
    /\ task.repair = "Prune" /\ task.phase \in {"selecting", "sent"} =>
         task.todo \subseteq Activations(task.sel, Last(task))

\* While nothing but the task's own selections has touched the core or the records.
Restoring(t) ==
    undisturbed = t /\ IsCurrent(t) =>
        /\ tasks[t].phase = "ended" => Activations(selected[current], core) = {}
        /\ tasks[t].phase \in Working => ReadingFits(tasks[t])

RestoringFits == \A t \in Generations : Restoring(t)

IInv == Types /\ SwitchFits /\ TasksFit /\ RestoringFits

-----------------------------------------------------------------------------
(* The data *)

\* None is no node, no profile and no snapshot.
LEMMA NoneIsNothing == None \notin Nodes /\ None \notin Profiles /\ None \notin Views
BY SelectedNodesAssumption

\* The bounds are numbers.
LEMMA BoundsCount ==
  /\ MaxGeneration \in Nat /\ MaxChanges \in Nat /\ Rounds \in Nat
  /\ \A t \in Generations : t \in Nat /\ t > 0 /\ t \in 0 .. MaxGeneration
BY SelectedNodesAssumption DEF Generations

\* What a core that has just loaded a profile may answer is a set of groups.
LEMMA FreshFits ==
  ASSUME NEW p \in Profiles
  PROVE  Fresh(p) \subseteq Views
<1>1. \A g \in Groups : Offers[p][g] \subseteq Nodes
  BY SelectedNodesAssumption
<1>2. \A g \in Groups : FreshGroup(p, g) \subseteq Group \cup {Absent}
  <2> SUFFICES ASSUME NEW g \in Groups, NEW x \in FreshGroup(p, g)
      PROVE  x \in Group \cup {Absent}
    OBVIOUS
  <2>1. CASE Offers[p][g] = {}
    BY <2>1 DEF FreshGroup
  <2> DEFINE manual == g \in Manual[p]
  <2>2. manual \in BOOLEAN /\ {} \in SUBSET Nodes /\ None \in Nodes \cup {None}
    OBVIOUS
  <2>3. CASE Offers[p][g] # {} /\ g \in Providers
    <3>1. x = [all |-> {}, now |-> None, manual |-> manual]
      BY <2>3 DEF FreshGroup
    <3> HIDE DEF manual
    <3> QED BY <2>2, <3>1 DEF Group
  <2>4. CASE Offers[p][g] # {} /\ g \notin Providers
    <3>1. PICK n \in Offers[p][g] : x = [all |-> Offers[p][g], now |-> n, manual |-> manual]
      BY <2>4 DEF FreshGroup
    <3>2. Offers[p][g] \in SUBSET Nodes /\ n \in Nodes \cup {None}
      BY <1>1
    <3> HIDE DEF manual
    <3> QED BY <2>2, <3>1, <3>2 DEF Group
  <2> QED BY <2>1, <2>3, <2>4
<1> QED BY <1>2 DEF Fresh, Views

\* A view of the core keeps its shape when a group of it gets other nodes or another choice.
LEMMA ViewStaysAView ==
  ASSUME NEW v \in Views, NEW g, NEW x \in Group \cup {Absent}
  PROVE  [v EXCEPT ![g] = x] \in Views
BY DEF Views

LEMMA GroupsOfAView ==
  ASSUME NEW v \in Views, NEW g \in Groups, v[g] # Absent
  PROVE  /\ v[g] \in Group
         /\ v[g].all \subseteq Nodes
         /\ v[g].now \in Nodes \cup {None}
         /\ v[g].manual \in BOOLEAN
BY DEF Views, Group

\* A selection that the core takes: the group, and it alone, is on the node.
LEMMA SelectionLands ==
  ASSUME core \in Views, NEW g, NEW n, Selects(g, n)
  PROVE  /\ core' \in Views
         /\ g \in Groups =>
              /\ core'[g] # Absent => core'[g] \in Group
              /\ core'[g].now = n
         /\ \A x \in Groups \ {g} : core'[x] = core[x]
<1>1. CASE g \in Groups
  <2>1. core[g] \in Group /\ n \in Nodes
    BY <1>1, GroupsOfAView DEF Selects
  <2>2. [core[g] EXCEPT !.now = n] \in Group /\ [core[g] EXCEPT !.now = n].now = n
    BY <2>1 DEF Group
  <2>3. core' = [core EXCEPT ![g] = [core[g] EXCEPT !.now = n]]
    BY DEF Selects
  <2>4. core' \in Views
    BY <2>2, <2>3, ViewStaysAView
  <2>5. core'[g] = [core[g] EXCEPT !.now = n] /\ \A x \in Groups \ {g} : core'[x] = core[x]
    BY <1>1, <2>3 DEF Views
  <2> QED BY <2>2, <2>4, <2>5
<1>2. CASE g \notin Groups
  BY <1>2 DEF Selects, Views
<1> QED BY <1>1, <1>2

\* What reconcile_selected_nodes keeps are records again.
LEMMA ReconciledFits ==
  ASSUME NEW sel \in Records, NEW previous, NEW view \in Views
  PROVE  Reconciled(sel, previous, view) \in Records
<1>1. \A g \in Groups : Reconciled(sel, previous, view)[g] \in Nodes \cup {None}
  <2> SUFFICES ASSUME NEW g \in Groups
      PROVE  Reconciled(sel, previous, view)[g] \in Nodes \cup {None}
    OBVIOUS
  <2>1. sel[g] \in Nodes \cup {None}
    BY DEF Records
  <2>2. CASE view[g] = Absent
    BY <2>1, <2>2 DEF Reconciled
  <2>3. CASE view[g] # Absent
    <3>1. view[g].now \in Nodes \cup {None}
      BY <2>3, GroupsOfAView
    <3> QED BY <2>1, <2>3, <3>1 DEF Reconciled
  <2> QED BY <2>2, <2>3
<1>2. Reconciled(sel, previous, view) = [g \in Groups |-> Reconciled(sel, previous, view)[g]]
  BY DEF Reconciled
<1> QED BY <1>1, <1>2 DEF Records

\* The plan of a task that has its snapshots.
LEMMA PlanFits ==
  ASSUME NEW task \in Task, Last(task) \in Views
  PROVE  Plan(task) \in Records
<1>1. task.sel \in Records
  BY DEF Task
<1>2. CASE task.second = None
  BY <1>1, <1>2, ReconciledFits DEF Plan, Last
<1>3. CASE task.second # None
  BY <1>1, <1>3, ReconciledFits DEF Plan, Last
<1> QED BY <1>2, <1>3

\* What is to be selected are groups.
LEMMA ActivationsAreGroups ==
  ASSUME NEW sel, NEW view
  PROVE  Activations(sel, view) \subseteq Groups
BY DEF Activations

-----------------------------------------------------------------------------
(* What the steps of a task do to it *)

\* A task that is over.
Ended == [NoTask EXCEPT !.phase = "ended"]

LEMMA EndedFits ==
  /\ Ended \in Task
  /\ Ended.phase = "ended" /\ Ended.repair = "KeepRecords"
  /\ Ended.second = None
<1>1. Empty \in Records
  BY DEF Empty, Records
<1>2. 0 \in 0 .. Rounds
  BY BoundsCount
<1>3. NoTask \in Task
  BY <1>1, <1>2 DEF NoTask, Task, Passes
<1> QED BY <1>3 DEF Ended, NoTask, Task

\* A task that waits for the one before it.
LEMMA QueuedFits ==
  ASSUME NEW repair \in {"Prune", "KeepRecords"}
  PROVE  LET h == [NoTask EXCEPT !.phase = "queued", !.repair = repair] IN
         h \in Task /\ h.phase = "queued" /\ h.repair = repair /\ h.pass = "first" /\ h.second = None
<1>1. Empty \in Records
  BY DEF Empty, Records
<1>2. 0 \in 0 .. Rounds
  BY BoundsCount
<1>3. NoTask \in Task
  BY <1>1, <1>2 DEF NoTask, Task, Passes
<1> QED BY <1>3 DEF NoTask, Task

\* One task is put, the others stay.
LEMMA PutsOneTask ==
  ASSUME tasks \in [Generations -> Task], NEW t \in Generations, NEW h \in Task, Put(t, h)
  PROVE  /\ tasks' \in [Generations -> Task]
         /\ tasks'[t] = h
         /\ \A s \in Generations \ {t} : tasks'[s] = tasks[s]
BY DEF Put

\* What it read and what it is for stay with a task.
Remembers(h, task) ==
    /\ h.repair = task.repair /\ h.pass = task.pass /\ h.sel = task.sel
    /\ h.first = task.first /\ h.second = task.second

LEMMA TypesOfTasks ==
  ASSUME TypeOK, NEW t \in Generations
  PROVE  /\ tasks \in [Generations -> Task]
         /\ tasks[t] \in Task
         /\ current \in Profiles /\ selected[current] \in Records /\ core \in Views
BY DEF TypeOK, Generations

\* It begins with the records of the current profile, or has nothing to do.
LEMMA BeginWords ==
  ASSUME TypeOK, NEW t \in Generations, Begin(t)
  PROVE  \E h \in Task :
           /\ Put(t, h)
           /\ \/ /\ h = Ended
                 /\ IsCurrent(t) /\ current \in items => selected[current] = Empty
              \/ /\ h.phase = "fetching" /\ h.sel = selected[current]
                 /\ h.repair = tasks[t].repair /\ h.pass = tasks[t].pass
                 /\ h.first = tasks[t].first /\ h.second = tasks[t].second
<1> DEFINE task == tasks[t]
           sel == selected[current]
           h == [task EXCEPT !.phase = "fetching", !.uid = current, !.sel = sel]
<1>1. CASE ~IsCurrent(t) \/ current \notin items \/ selected[current] = Empty
  BY <1>1, EndedFits DEF Begin, End, Ended
<1>2. CASE IsCurrent(t) /\ current \in items /\ selected[current] # Empty
  <2>1. Put(t, h)
    BY <1>2 DEF Begin
  <2>2. task \in Task /\ current \in Profiles \cup {None} /\ sel \in Records
    BY TypesOfTasks
  <2> HIDE DEF task, sel
  <2>3. h \in Task
    BY <2>2 DEF Task
  <2>4. /\ h.phase = "fetching" /\ h.sel = sel
        /\ h.repair = task.repair /\ h.pass = task.pass
        /\ h.first = task.first /\ h.second = task.second
    BY <2>2 DEF Task
  <2> QED BY <2>1, <2>3, <2>4 DEF task, sel
<1> QED BY <1>1, <1>2

\* A snapshot is kept by a task that may prune.
LEMMA SnapshotsAreKept ==
  ASSUME core \in Views, NEW task \in Task
  PROVE  /\ Kept(task) \in Views \cup {None}
         /\ task.repair = "Prune" => Kept(task) = core
         /\ task.repair # "Prune" => Kept(task) = None
BY DEF Kept

\* A first snapshot ...
LEMMA FirstFetchWords ==
  ASSUME TypeOK, NEW t \in Generations, Fetch(t), IsCurrent(t), tasks[t].pass = "first"
  PROVE  \E h \in Task :
           /\ Put(t, h)
           /\ h.phase = "selecting"
           /\ h.repair = tasks[t].repair /\ h.pass = tasks[t].pass /\ h.sel = tasks[t].sel
           /\ h.first = Kept(tasks[t]) /\ h.second = tasks[t].second
           /\ h.todo = Activations(tasks[t].sel, core)
<1> DEFINE task == tasks[t]
           unsure == NeedsConfirmation(task.sel, core)
           todo == Activations(task.sel, core)
           h == [task EXCEPT !.phase = "selecting", !.first = Kept(task), !.unsure = unsure,
                             !.todo = todo]
<1>1. Put(t, h)
  BY DEF Fetch
<1>2. task \in Task /\ Kept(task) \in Views \cup {None} /\ unsure \in BOOLEAN /\ todo \in SUBSET Groups
  BY TypesOfTasks, SnapshotsAreKept, ActivationsAreGroups DEF NeedsConfirmation
<1> HIDE DEF unsure, todo, task
<1>3. h \in Task
  BY <1>2 DEF Task
<1>4. /\ h.phase = "selecting" /\ h.repair = task.repair /\ h.pass = task.pass /\ h.sel = task.sel
      /\ h.first = Kept(task) /\ h.second = task.second /\ h.todo = todo
  BY <1>2 DEF Task
<1> QED BY <1>1, <1>3, <1>4 DEF task, todo

\* ... a second one ...
LEMMA SecondFetchWords ==
  ASSUME TypeOK, NEW t \in Generations, Fetch(t), IsCurrent(t), tasks[t].pass = "second"
  PROVE  \E h \in Task :
           /\ Put(t, h)
           /\ h.phase = "selecting"
           /\ h.repair = tasks[t].repair /\ h.pass = tasks[t].pass /\ h.sel = tasks[t].sel
           /\ h.first = tasks[t].first /\ h.second = Kept(tasks[t])
           /\ h.todo = Activations(tasks[t].sel, core) \ tasks[t].done
<1> DEFINE task == tasks[t]
           todo == Activations(task.sel, core) \ task.done
           h == [task EXCEPT !.phase = "selecting", !.second = Kept(task), !.todo = todo]
<1>1. Put(t, h)
  BY DEF Fetch
<1>2. task \in Task /\ Kept(task) \in Views \cup {None} /\ todo \in SUBSET Groups
  BY TypesOfTasks, SnapshotsAreKept, ActivationsAreGroups
<1> HIDE DEF todo, task
<1>3. h \in Task
  BY <1>2 DEF Task
<1>4. /\ h.phase = "selecting" /\ h.repair = task.repair /\ h.pass = task.pass /\ h.sel = task.sel
      /\ h.first = task.first /\ h.second = Kept(task) /\ h.todo = todo
  BY <1>2 DEF Task
<1> QED BY <1>1, <1>3, <1>4 DEF task, todo

\* ... or one to settle, while there are rounds left and something is unsettled.
LEMMA SettleFetchWords ==
  ASSUME TypeOK, NEW t \in Generations, Fetch(t), IsCurrent(t), tasks[t].pass = "settle"
  PROVE  \E h \in Task :
           /\ Put(t, h)
           /\ \/ h = Ended
              \/ /\ h.phase = "selecting" /\ Remembers(h, tasks[t])
                 /\ h.todo = Activations(tasks[t].sel, core) \ tasks[t].done
<1> DEFINE task == tasks[t]
           todo == Activations(task.sel, core) \ task.done
           round == task.round + 1
           h == [task EXCEPT !.phase = "selecting", !.round = round, !.todo = todo]
<1>1. CASE task.round = Rounds \/ Unsettled(task.sel, core) = {}
  BY <1>1, EndedFits DEF Fetch, End, Ended
<1>2. CASE task.round # Rounds /\ Unsettled(task.sel, core) # {}
  <2>1. Put(t, h)
    BY <1>2 DEF Fetch
  <2>2. task \in Task /\ task.round \in 0 .. Rounds /\ todo \in SUBSET Groups
    BY TypesOfTasks, ActivationsAreGroups DEF Task
  <2>3. round \in 0 .. Rounds
    BY <1>2, <2>2, BoundsCount
  <2> HIDE DEF todo, task, round
  <2>4. h \in Task
    BY <2>2, <2>3 DEF Task
  <2>5. h.phase = "selecting" /\ Remembers(h, task) /\ h.todo = todo
    BY <2>2 DEF Task, Remembers
  <2> QED BY <2>1, <2>4, <2>5 DEF task, todo
<1> QED BY <1>1, <1>2

\* A snapshot that failed ends the task, or costs it a round.
LEMMA FetchFailsWords ==
  ASSUME TypeOK, NEW t \in Generations, FetchFails(t)
  PROVE  \E h \in Task :
           Put(t, h) /\ (h = Ended \/ (h.phase = "fetching" /\ Remembers(h, tasks[t])))
<1> DEFINE task == tasks[t]
           round == task.round + 1
           h == [task EXCEPT !.round = round]
<1>1. CASE task.pass = "settle" /\ IsCurrent(t) /\ task.round < Rounds
  <2>1. Put(t, h) /\ task.phase = "fetching"
    BY <1>1 DEF FetchFails, Phase
  <2>2. task \in Task /\ task.round \in 0 .. Rounds
    BY TypesOfTasks DEF Task
  <2>3. round \in 0 .. Rounds
    BY <1>1, <2>2, BoundsCount
  <2> HIDE DEF task, round
  <2>4. h \in Task /\ h.phase = task.phase /\ Remembers(h, task)
    BY <2>2, <2>3 DEF Task, Remembers
  <2> QED BY <2>1, <2>4 DEF task
<1>2. CASE ~(task.pass = "settle" /\ IsCurrent(t) /\ task.round < Rounds)
  BY <1>2, EndedFits DEF FetchFails, End, Ended
<1> QED BY <1>1, <1>2

\* A pass that has selected all it could is followed by another one, by a save or by nothing.
LEMMA AfterPassWords ==
  ASSUME TypeOK, NEW t \in Generations, AfterPass(t, tasks[t])
  PROVE  \E h \in Task :
           /\ Put(t, h)
           /\ \/ h = Ended
              \/ /\ h.phase = "saving" /\ h.repair = "Prune" /\ Remembers(h, tasks[t])
              \/ /\ h.phase = "fetching" /\ h.pass # "first"
                 /\ h.repair = tasks[t].repair /\ h.sel = tasks[t].sel
                 /\ h.first = tasks[t].first /\ h.second = tasks[t].second
                 /\ h.pass = "second" => tasks[t].pass = "first"
                 /\ h.pass = "settle" => tasks[t].pass = "settle" \/ tasks[t].repair # "Prune"
<1> DEFINE task == tasks[t]
           again == [task EXCEPT !.phase = "fetching"]
           second == [task EXCEPT !.phase = "fetching", !.pass = "second"]
           settle == [task EXCEPT !.phase = "fetching", !.pass = "settle"]
           saving == [task EXCEPT !.phase = "saving"]
<1>1. task \in Task /\ task.repair \in {"Prune", "KeepRecords"} /\ task.pass \in Passes
  BY TypesOfTasks DEF Task
<1>2. CASE task.pass = "settle"
  <2>1. Put(t, again)
    BY <1>2 DEF AfterPass
  <2> HIDE DEF task
  <2>2. again \in Task /\ again.phase = "fetching" /\ Remembers(again, task)
    BY <1>1 DEF Task, Remembers
  <2> QED BY <1>2, <2>1, <2>2 DEF task, Remembers
<1>3. CASE task.pass = "first" /\ task.unsure
  <2>1. Put(t, second)
    BY <1>3 DEF AfterPass
  <2> HIDE DEF task
  <2>2. second \in Task /\ second.phase = "fetching" /\ second.pass = "second"
    BY <1>1 DEF Task, Passes
  <2>3. second.repair = task.repair /\ second.sel = task.sel /\ second.first = task.first
        /\ second.second = task.second
    BY <1>1 DEF Task
  <2> QED BY <1>3, <2>1, <2>2, <2>3 DEF task
<1>4. CASE task.pass # "settle" /\ ~(task.pass = "first" /\ task.unsure) /\ task.repair = "KeepRecords"
  <2>1. Put(t, settle)
    BY <1>4 DEF AfterPass
  <2> HIDE DEF task
  <2>2. settle \in Task /\ settle.phase = "fetching" /\ settle.pass = "settle"
    BY <1>1 DEF Task, Passes
  <2>3. settle.repair = task.repair /\ settle.sel = task.sel /\ settle.first = task.first
        /\ settle.second = task.second
    BY <1>1 DEF Task
  <2> QED BY <1>4, <2>1, <2>2, <2>3 DEF task
<1>5. CASE task.pass # "settle" /\ ~(task.pass = "first" /\ task.unsure) /\ task.repair = "Prune"
  <2>1. CASE Plan(task) # task.sel
    <3>1. Put(t, saving)
      BY <1>5, <2>1 DEF AfterPass
    <3> HIDE DEF task
    <3>2. saving \in Task /\ saving.phase = "saving" /\ Remembers(saving, task)
      BY <1>1 DEF Task, Remembers
    <3> QED BY <1>5, <3>1, <3>2 DEF task, Remembers
  <2>2. CASE Plan(task) = task.sel
    BY <1>5, <2>2, EndedFits DEF AfterPass, End, Ended
  <2> QED BY <2>1, <2>2
<1> QED BY <1>1, <1>2, <1>3, <1>4, <1>5

\* The core has answered a selection.
LEMMA AfterSelectWords ==
  ASSUME TypeOK, NEW t \in Generations, NEW done \in SUBSET Groups, AfterSelect(t, done)
  PROVE  \E h \in Task :
           /\ Put(t, h)
           /\ \/ h = Ended /\ ~IsCurrent(t)
              \/ /\ h.phase = "selecting" /\ Remembers(h, tasks[t])
                 /\ h.todo = tasks[t].todo \ {tasks[t].sent}
<1> DEFINE task == tasks[t]
           todo == task.todo \ {task.sent}
           all == task.done \cup done
           h == [task EXCEPT !.phase = "selecting", !.sent = None, !.todo = todo, !.done = all]
<1>1. CASE ~IsCurrent(t)
  BY <1>1, EndedFits DEF AfterSelect, End, Ended
<1>2. CASE IsCurrent(t)
  <2>1. Put(t, h)
    BY <1>2 DEF AfterSelect
  <2>2. task \in Task /\ todo \in SUBSET Groups /\ all \in SUBSET Groups
    BY TypesOfTasks DEF Task
  <2> HIDE DEF task, todo, all
  <2>3. h \in Task /\ h.phase = "selecting" /\ Remembers(h, task) /\ h.todo = todo
    BY <2>2 DEF Task, Remembers
  <2> QED BY <2>1, <2>3 DEF task, todo
<1> QED BY <1>1, <1>2

\* A task that sends a selection remembers which.
LEMMA SendWords ==
  ASSUME TypeOK, NEW t \in Generations, NEW g \in tasks[t].todo,
         Put(t, [tasks[t] EXCEPT !.phase = "sent", !.sent = g])
  PROVE  \E h \in Task :
           /\ Put(t, h)
           /\ h.phase = "sent" /\ Remembers(h, tasks[t])
           /\ h.todo = tasks[t].todo /\ h.sent \in tasks[t].todo
<1> DEFINE task == tasks[t]
           h == [task EXCEPT !.phase = "sent", !.sent = g]
<1>1. task \in Task /\ g \in Groups
  BY TypesOfTasks DEF Task
<1>2. Put(t, h) /\ g \in task.todo
  OBVIOUS
<1> HIDE DEF task
<1>3. h \in Task /\ h.phase = "sent" /\ Remembers(h, task) /\ h.todo = task.todo /\ h.sent = g
  BY <1>1 DEF Task, Remembers
<1> QED BY <1>2, <1>3 DEF task

-----------------------------------------------------------------------------
(* Type correctness *)

\* A task that is over repairs nothing.
LEMMA EndedRepairs == Repairs(Ended)
BY EndedFits DEF Repairs

\* Each step of a task leaves it fit for repairs.
LEMMA BeginRepairs ==
  ASSUME TypeOK, NEW t \in Generations, Repairs(tasks[t]), Begin(t)
  PROVE  \E h \in Task : Put(t, h) /\ Repairs(h)
<1>1. tasks[t].phase = "queued"
  BY DEF Begin, Phase
<1> QED BY <1>1, BeginWords, EndedRepairs DEF Repairs

LEMMA FetchRepairs ==
  ASSUME TypeOK, NEW t \in Generations, Repairs(tasks[t]), Fetch(t)
  PROVE  \E h \in Task : Put(t, h) /\ Repairs(h)
<1>1. tasks[t] \in Task /\ core \in Views /\ tasks[t].phase = "fetching"
  BY TypesOfTasks DEF Fetch, Phase
<1>2. /\ tasks[t].pass \in Passes /\ tasks[t].second \in Views \cup {None}
      /\ tasks[t].repair \in {"Prune", "KeepRecords"}
  BY <1>1 DEF Task
<1>3. CASE ~IsCurrent(t)
  BY <1>3, EndedFits, EndedRepairs DEF Fetch, End, Ended
<1>4. CASE IsCurrent(t) /\ tasks[t].pass = "first"
  <2>1. PICK h \in Task :
           /\ Put(t, h)
           /\ h.phase = "selecting"
           /\ h.repair = tasks[t].repair /\ h.pass = tasks[t].pass /\ h.sel = tasks[t].sel
           /\ h.first = Kept(tasks[t]) /\ h.second = tasks[t].second
    BY <1>4, FirstFetchWords
  <2>2. h.repair = "Prune" => Last(h) \in Views
    BY <1>1, <1>2, <2>1, SnapshotsAreKept DEF Last
  <2>3. h.repair # "Prune" => h.second = None
    BY <2>1 DEF Repairs
  <2> QED BY <1>4, <2>1, <2>2, <2>3 DEF Repairs
<1>5. CASE IsCurrent(t) /\ tasks[t].pass = "second"
  <2>1. PICK h \in Task :
           /\ Put(t, h)
           /\ h.phase = "selecting"
           /\ h.repair = tasks[t].repair /\ h.pass = tasks[t].pass /\ h.sel = tasks[t].sel
           /\ h.first = tasks[t].first /\ h.second = Kept(tasks[t])
    BY <1>5, SecondFetchWords
  <2>2. h.repair = "Prune" => Last(h) \in Views
    BY <1>1, <1>2, <2>1, SnapshotsAreKept, NoneIsNothing DEF Last
  <2>3. h.repair # "Prune" => h.second = None
    BY <1>1, <2>1, SnapshotsAreKept
  <2> QED BY <1>5, <2>1, <2>2, <2>3 DEF Repairs
<1>6. CASE IsCurrent(t) /\ tasks[t].pass = "settle"
  <2>1. PICK h \in Task :
           Put(t, h) /\ (h = Ended \/ (h.phase = "selecting" /\ Remembers(h, tasks[t])))
    BY <1>6, SettleFetchWords
  <2>2. CASE h = Ended
    BY <2>1, <2>2, EndedRepairs
  <2>3. CASE h.phase = "selecting" /\ Remembers(h, tasks[t])
    BY <1>6, <2>1, <2>3 DEF Repairs, Remembers
  <2> QED BY <2>1, <2>2, <2>3
<1> QED BY <1>2, <1>3, <1>4, <1>5, <1>6 DEF Passes

LEMMA FetchFailsRepairs ==
  ASSUME TypeOK, NEW t \in Generations, Repairs(tasks[t]), FetchFails(t)
  PROVE  \E h \in Task : Put(t, h) /\ Repairs(h)
<1>1. PICK h \in Task :
           Put(t, h) /\ (h = Ended \/ (h.phase = "fetching" /\ Remembers(h, tasks[t])))
  BY FetchFailsWords
<1>2. CASE h = Ended
  BY <1>1, <1>2, EndedRepairs
<1>3. CASE h.phase = "fetching" /\ Remembers(h, tasks[t])
  BY <1>1, <1>3 DEF Repairs, Remembers
<1> QED BY <1>1, <1>2, <1>3

LEMMA SendSelectRepairs ==
  ASSUME TypeOK, NEW t \in Generations, Repairs(tasks[t]), SendSelect(t)
  PROVE  \E h \in Task : Put(t, h) /\ Repairs(h)
<1>1. tasks[t].phase = "selecting"
  BY DEF SendSelect, Phase
<1>2. CASE ~IsCurrent(t)
  BY <1>2, EndedFits, EndedRepairs DEF SendSelect, End, Ended
<1>3. CASE IsCurrent(t) /\ tasks[t].todo = {}
  <2>1. AfterPass(t, tasks[t])
    BY <1>3 DEF SendSelect
  <2>2. PICK h \in Task :
           /\ Put(t, h)
           /\ \/ h = Ended
              \/ /\ h.phase = "saving" /\ h.repair = "Prune" /\ Remembers(h, tasks[t])
              \/ /\ h.phase = "fetching" /\ h.pass # "first"
                 /\ h.repair = tasks[t].repair /\ h.sel = tasks[t].sel
                 /\ h.first = tasks[t].first /\ h.second = tasks[t].second
                 /\ h.pass = "second" => tasks[t].pass = "first"
                 /\ h.pass = "settle" => tasks[t].pass = "settle" \/ tasks[t].repair # "Prune"
    BY <2>1, AfterPassWords
  <2>3. CASE h = Ended
    BY <2>2, <2>3, EndedRepairs
  <2>4. CASE h.phase = "saving" /\ h.repair = "Prune" /\ Remembers(h, tasks[t])
    BY <1>1, <2>2, <2>4 DEF Repairs, Remembers, Last
  <2>5. CASE /\ h.phase = "fetching" /\ h.repair = tasks[t].repair /\ h.second = tasks[t].second
             /\ h.pass = "settle" => tasks[t].pass = "settle" \/ tasks[t].repair # "Prune"
    BY <2>2, <2>5 DEF Repairs
  <2> QED BY <2>2, <2>3, <2>4, <2>5
<1>4. CASE IsCurrent(t) /\ tasks[t].todo # {}
  <2>1. PICK g \in tasks[t].todo : Put(t, [tasks[t] EXCEPT !.phase = "sent", !.sent = g])
    BY <1>4 DEF SendSelect
  <2>2. PICK h \in Task :
           Put(t, h) /\ h.phase = "sent" /\ Remembers(h, tasks[t]) /\ h.sent \in tasks[t].todo
    BY <2>1, SendWords
  <2>3. h.sent \in Groups
    BY <2>2, TypesOfTasks DEF Task
  <2> QED BY <1>1, <2>2, <2>3 DEF Repairs, Remembers, Last
<1> QED BY <1>2, <1>3, <1>4

LEMMA AfterSelectRepairs ==
  ASSUME TypeOK, NEW t \in Generations, Repairs(tasks[t]), tasks[t].phase = "sent",
         NEW done \in SUBSET Groups, AfterSelect(t, done)
  PROVE  \E h \in Task : Put(t, h) /\ Repairs(h)
<1>1. PICK h \in Task :
           Put(t, h) /\ (h = Ended \/ (h.phase = "selecting" /\ Remembers(h, tasks[t])))
  BY AfterSelectWords
<1>2. CASE h = Ended
  BY <1>1, <1>2, EndedRepairs
<1>3. CASE h.phase = "selecting" /\ Remembers(h, tasks[t])
  BY <1>1, <1>3 DEF Repairs, Remembers, Last
<1> QED BY <1>1, <1>2, <1>3

\* The tasks after a step of one.
LEMMA TasksStayTyped ==
  ASSUME Types, NEW t \in Generations, NEW h \in Task, Put(t, h), Repairs(h)
  PROVE  /\ tasks' \in [Generations -> Task]
         /\ \A s \in Generations : Repairs(tasks'[s])
<1>1. tasks \in [Generations -> Task]
  BY TypesOfTasks DEF Types
<1>2. /\ tasks' \in [Generations -> Task] /\ tasks'[t] = h
      /\ \A s \in Generations \ {t} : tasks'[s] = tasks[s]
  BY <1>1, PutsOneTask
<1> QED BY <1>2 DEF Types

\* The tasks after a new activation.
LEMMA ActivationTyped ==
  ASSUME Types, NEW repair \in {"Prune", "KeepRecords"}, Activate(repair), generation + 1 <= MaxGeneration
  PROVE  /\ generation' = generation + 1 /\ generation' \in 0 .. MaxGeneration
         /\ generation' \in Generations
         /\ tasks' \in [Generations -> Task]
         /\ \A s \in Generations : Repairs(tasks'[s])
         /\ tasks'[generation'].phase = "queued"
         /\ tasks'[generation'].pass = "first" /\ tasks'[generation'].second = None
         /\ \A s \in Generations \ {generation'} : tasks'[s] = tasks[s]
<1> DEFINE h == [NoTask EXCEPT !.phase = "queued", !.repair = repair]
           n == generation + 1
<1>1. h \in Task /\ h.phase = "queued" /\ h.repair = repair /\ h.pass = "first" /\ h.second = None
  BY QueuedFits
<1>2. generation \in Nat /\ generation' = n /\ n \in 0 .. MaxGeneration /\ n \in Generations
  BY BoundsCount DEF Types, TypeOK, Activate, Supersede, Generations
<1>3. Put(n, h)
  BY DEF Activate, Put
<1> HIDE DEF h, n
<1>4. Repairs(h)
  BY <1>1 DEF Repairs
<1>5. tasks' \in [Generations -> Task] /\ \A s \in Generations : Repairs(tasks'[s])
  BY <1>1, <1>2, <1>3, <1>4, TasksStayTyped
<1>6. tasks'[n] = h /\ \A s \in Generations \ {n} : tasks'[s] = tasks[s]
  BY <1>1, <1>2, <1>3, PutsOneTask, TypesOfTasks DEF Types
<1> QED BY <1>1, <1>2, <1>5, <1>6 DEF n

\* The types of one variable each.
LEMMA TypesByVariable ==
  ASSUME Types,
         core' \in Views, changes' \in 0 .. MaxChanges, current' \in Profiles,
         items' \in SUBSET Profiles, selected' \in [Profiles -> Records],
         generation' \in 0 .. MaxGeneration,
         tasks' \in [Generations -> Task], \A s \in Generations : Repairs(tasks'[s]),
         users' \in [Users -> [phase : {"idle", "picked", "recorded", "done"},
                               group : Groups \cup {None}, node : Nodes \cup {None}]],
         switch' \in [phase : {"idle", "asked", "reloaded", "failed", "restoring", "committed"},
                      to : Profiles \cup {None}, deletes : Profiles \cup {None},
                      waitsFor : 0 .. MaxGeneration],
         undisturbed' \in 0 .. MaxGeneration,
         Room'
  PROVE  Types'
<1>1. TypeOK'
  BY DEF TypeOK, Generations
<1>2. \A t \in Generations : Repairs(tasks[t])'
  BY DEF Repairs, Last
<1> QED BY <1>1, <1>2 DEF Types

\* A task that saves has its plan.
LEMMA SavesRecords ==
  ASSUME Types, NEW t \in Generations, Save(t)
  PROVE  selected' \in [Profiles -> Records]
<1>1. tasks[t] \in Task /\ selected \in [Profiles -> Records] /\ tasks[t].phase = "saving"
  BY TypesOfTasks DEF Types, TypeOK, Save, Phase
<1>2. Repairs(tasks[t]) /\ tasks[t].repair \in {"Prune", "KeepRecords"}
  BY <1>1 DEF Types, Task
<1>3. Last(tasks[t]) \in Views
  BY <1>1, <1>2 DEF Repairs
<1>4. Plan(tasks[t]) \in Records
  BY <1>1, <1>3, PlanFits
<1>5. CASE UNCHANGED selected
  BY <1>1, <1>5
<1>6. CASE selected' = [selected EXCEPT ![tasks[t].uid] = Plan(tasks[t])]
  BY <1>1, <1>4, <1>6
<1> QED BY <1>5, <1>6 DEF Save

LEMMA TaskStepTyped ==
  ASSUME Types, NEW t \in Generations, TaskStep(t)
  PROVE  Types'
<1>1. TypeOK /\ Repairs(tasks[t]) /\ t \in 0 .. MaxGeneration /\ 0 \in 0 .. MaxGeneration
  BY BoundsCount DEF Types
<1>2. UNCHANGED <<changes, current, items, generation, users, switch>>
  BY DEF TaskStep, Begin, Fetch, FetchFails, SendSelect, SelectLands, Selects, SelectFails, Save,
         coreVars, profileVars
<1>3. undisturbed' \in {undisturbed, t, 0}
  BY DEF TaskStep, Begin, Fetch, FetchFails, SendSelect, SelectLands, SelectFails, Save
<1>4. core' \in Views
  <2>1. CASE SelectLands(t)
    <3>1. core \in Views /\ Selects(tasks[t].sent, tasks[t].sel[tasks[t].sent])
      BY <1>1, <2>1, TypesOfTasks DEF SelectLands
    <3> QED BY <3>1, SelectionLands
  <2>2. CASE UNCHANGED core
    BY <1>1, <2>2 DEF TypeOK
  <2> QED BY <2>1, <2>2 DEF TaskStep, Begin, Fetch, FetchFails, SendSelect, SelectFails, Save, coreVars
<1>5. selected' \in [Profiles -> Records]
  <2>1. CASE Save(t)
    BY <2>1, SavesRecords
  <2>2. CASE UNCHANGED selected
    BY <1>1, <2>2 DEF TypeOK
  <2> QED BY <2>1, <2>2 DEF TaskStep, Begin, Fetch, FetchFails, SendSelect, SelectLands, SelectFails, profileVars
<1>6. \E h \in Task : Put(t, h) /\ Repairs(h)
  <2>1. CASE Begin(t)
    BY <1>1, <2>1, BeginRepairs
  <2>2. CASE Fetch(t)
    BY <1>1, <2>2, FetchRepairs
  <2>3. CASE FetchFails(t)
    BY <1>1, <2>3, FetchFailsRepairs
  <2>4. CASE SendSelect(t)
    BY <1>1, <2>4, SendSelectRepairs
  <2>5. CASE SelectLands(t)
    <3>1. core[tasks[t].sent] # Absent /\ tasks[t].phase = "sent" /\ AfterSelect(t, {tasks[t].sent})
      BY <2>5 DEF SelectLands, Selects, Phase
    <3>2. {tasks[t].sent} \in SUBSET Groups
      BY <1>1, <3>1 DEF Repairs
    <3> QED BY <1>1, <3>1, <3>2, AfterSelectRepairs
  <2>6. CASE SelectFails(t)
    <3>1. AfterSelect(t, {}) /\ {} \in SUBSET Groups /\ tasks[t].phase = "sent"
      BY <2>6 DEF SelectFails, Phase
    <3> QED BY <1>1, <3>1, AfterSelectRepairs
  <2>7. CASE Save(t)
    BY <1>1, <2>7, EndedFits, EndedRepairs DEF Save, End, Ended
  <2> QED BY <2>1, <2>2, <2>3, <2>4, <2>5, <2>6, <2>7 DEF TaskStep
<1>7. tasks' \in [Generations -> Task] /\ \A s \in Generations : Repairs(tasks'[s])
  BY <1>6, TasksStayTyped
<1>8. Room'
  BY <1>2 DEF Types, Room, Due
<1>9. undisturbed' \in 0 .. MaxGeneration
  BY <1>1, <1>3 DEF TypeOK
<1> QED BY <1>1, <1>2, <1>4, <1>5, <1>7, <1>8, <1>9, TypesByVariable DEF TypeOK

\* A command of a user changes one record, or the choice of one group.
LEMMA OneRecordChanges ==
  ASSUME selected \in [Profiles -> Records], NEW p, NEW g, NEW n \in Nodes \cup {None}
  PROVE  [selected EXCEPT ![p][g] = n] \in [Profiles -> Records]
BY DEF Records

LEMMA UserStepTyped ==
  ASSUME Types, NEW u \in Users, UserStep(u)
  PROVE  Types'
<1> DEFINE Choosing == [phase : {"idle", "picked", "recorded", "done"},
                        group : Groups \cup {None}, node : Nodes \cup {None}]
<1>1. /\ TypeOK /\ 0 \in 0 .. MaxGeneration
      /\ selected \in [Profiles -> Records] /\ users \in [Users -> Choosing]
      /\ generation \in Nat /\ MaxGeneration \in Nat
  BY BoundsCount DEF Types, TypeOK
<1>2. \A choice \in Choices : choice[1] \in Groups /\ choice[2] \in Nodes
  BY SelectedNodesAssumption
<1>3. UNCHANGED <<changes, current, items, tasks, switch>>
  BY DEF UserStep, Pick, Forget, PatchSelected, Record, StandDown, Selects, profileVars, coreVars
<1>4. undisturbed' \in {undisturbed, 0}
  BY DEF UserStep, Pick, Forget, PatchSelected, Record, StandDown, Disturb
<1>5. core' \in Views
  <2>1. CASE \E choice \in Choices : Pick(u, choice[1], choice[2])
    BY <1>1, <2>1, SelectionLands DEF TypeOK, Pick
  <2>2. CASE UNCHANGED core
    BY <1>1, <2>2 DEF TypeOK
  <2> QED BY <2>1, <2>2 DEF UserStep, Forget, PatchSelected, Record, StandDown, coreVars
<1>6. selected' \in [Profiles -> Records]
  <2>1. CASE \E choice \in Choices : Forget(u, choice[1])
    <3>1. PICK g : selected' = [selected EXCEPT ![current][g] = None]
      BY <2>1 DEF Forget
    <3> QED BY <1>1, <3>1, OneRecordChanges
  <2>2. CASE \E choice \in Choices : \E p \in Profiles : PatchSelected(u, p, choice[1], choice[2])
    <3>1. PICK choice \in Choices, p \in Profiles :
            selected' = [selected EXCEPT ![p][choice[1]] = choice[2]]
      BY <2>2 DEF PatchSelected
    <3>2. choice[2] \in Nodes \cup {None}
      BY <1>2
    <3> QED BY <1>1, <3>1, <3>2, OneRecordChanges
  <2>3. CASE Record(u)
    <3>1. users[u].node \in Nodes \cup {None}
      BY <1>1
    <3> QED BY <1>1, <2>3, <3>1, OneRecordChanges DEF Record
  <2>4. CASE UNCHANGED selected
    BY <1>1, <2>4
  <2> QED BY <2>1, <2>2, <2>3, <2>4 DEF UserStep, Pick, StandDown, profileVars
<1>7. users' \in [Users -> Choosing]
  <2>1. \A step \in {"idle", "picked", "recorded", "done"} : Goto(u, step) => users' \in [Users -> Choosing]
    BY <1>1 DEF Goto
  <2>2. CASE \E choice \in Choices : Pick(u, choice[1], choice[2])
    BY <1>1, <1>2, <2>2 DEF Pick
  <2> QED BY <2>1, <2>2 DEF UserStep, Forget, PatchSelected, Record, StandDown
<1>8. generation' \in 0 .. MaxGeneration /\ Room'
  <2>1. CASE StandDown(u)
    <3>1. generation + 1 + Due <= MaxGeneration /\ generation' = generation + 1 /\ Due' = Due
      BY <1>3, <2>1 DEF StandDown, HasRoom, Due, Supersede
    <3>2. Due \in Nat
      BY DEF Due
    <3> QED BY <1>1, <3>1, <3>2 DEF Room
  <2>2. CASE UNCHANGED generation
    BY <1>1, <1>3, <2>2 DEF Types, TypeOK, Room, Due
  <2> QED BY <2>1, <2>2 DEF UserStep, Pick, Forget, PatchSelected, Record
<1>9. \A s \in Generations : Repairs(tasks'[s])
  BY <1>3 DEF Types
<1> QED BY <1>1, <1>3, <1>4, <1>5, <1>6, <1>7, <1>8, <1>9, TypesByVariable DEF TypeOK, Generations

\* The records of a switch.
LEMMA SwitchParts ==
  ASSUME Types
  PROVE  /\ switch.phase \in {"idle", "asked", "reloaded", "failed", "restoring", "committed"}
         /\ switch.to \in Profiles \cup {None} /\ switch.deletes \in Profiles \cup {None}
         /\ switch.waitsFor \in 0 .. MaxGeneration
BY DEF Types, TypeOK

LEMMA StartSwitchTyped ==
  ASSUME Types, NEW p \in Profiles, StartSwitch(p)
  PROVE  Types'
<1>1. /\ TypeOK /\ generation \in Nat /\ MaxGeneration \in Nat /\ 0 \in 0 .. MaxGeneration
      /\ current \in Profiles
  BY BoundsCount DEF Types, TypeOK
<1>2. switch' = [phase |-> "asked", to |-> p, deletes |-> None, waitsFor |-> 0] \/
      switch' = [phase |-> "asked", to |-> p, deletes |-> current, waitsFor |-> 0]
  BY DEF StartSwitch, NoSwitch
<1>3. switch' \in [phase : {"idle", "asked", "reloaded", "failed", "restoring", "committed"},
                   to : Profiles \cup {None}, deletes : Profiles \cup {None},
                   waitsFor : 0 .. MaxGeneration]
  BY <1>1, <1>2
<1>4. switch'.phase = "asked" /\ switch.phase = "idle"
  BY <1>2 DEF StartSwitch, SwitchAt
<1>5. Due' = 1
  BY <1>4 DEF Due
<1>6. generation' \in 0 .. MaxGeneration /\ Room'
  <2>1. \A n \in Nat : HasRoom(n) => generation + n <= MaxGeneration
    BY <1>1, <1>4 DEF HasRoom
  <2> QED BY <1>1, <1>5, <2>1 DEF StartSwitch, Supersede, Room
<1>7. UNCHANGED <<core, changes, current, items, selected, tasks, users, undisturbed>>
  BY DEF StartSwitch, coreVars, profileVars
<1> QED BY <1>1, <1>3, <1>6, <1>7, TypesByVariable DEF Types, TypeOK, Generations

\* The steps of a switch that has started.
LEMMA SwitchMoves ==
  ASSUME Types, SwitchGoesOn
  PROVE  /\ switch' \in [phase : {"idle", "asked", "reloaded", "failed", "restoring", "committed"},
                         to : Profiles \cup {None}, deletes : Profiles \cup {None},
                         waitsFor : 0 .. MaxGeneration]
         /\ generation' \in 0 .. MaxGeneration /\ Room'
         /\ tasks' \in [Generations -> Task]
         /\ \A s \in Generations : Repairs(tasks'[s])
<1> DEFINE Switches == [phase : {"idle", "asked", "reloaded", "failed", "restoring", "committed"},
                        to : Profiles \cup {None}, deletes : Profiles \cup {None},
                        waitsFor : 0 .. MaxGeneration]
<1>1. /\ switch \in Switches /\ generation \in 0 .. MaxGeneration
      /\ generation + Due <= MaxGeneration /\ MaxGeneration \in Nat
      /\ tasks \in [Generations -> Task] /\ \A s \in Generations : Repairs(tasks[s])
  BY BoundsCount, TypesOfTasks DEF Types, TypeOK, Room, Generations
<1>2. NoSwitch \in Switches /\ NoSwitch.phase = "idle"
  BY <1>1 DEF NoSwitch
<1>3. CASE /\ switch' = [switch EXCEPT !.phase = "reloaded"] \/ switch' = [switch EXCEPT !.phase = "failed"]
                \/ switch' = [switch EXCEPT !.phase = "committed"]
           /\ switch.phase \in {"asked", "reloaded"}
           /\ UNCHANGED <<generation, tasks>>
  <2>1. switch' \in Switches /\ switch'.phase \in {"reloaded", "failed", "committed"}
    BY <1>1, <1>3
  <2>2. Due' = 1 /\ Due = 1
    BY <1>3, <2>1 DEF Due
  <2> QED BY <1>1, <1>3, <2>1, <2>2 DEF Room
<1>4. CASE switch' = NoSwitch /\ UNCHANGED <<generation, tasks>>
  <2>1. Due' = 0
    BY <1>2, <1>4 DEF Due
  <2> QED BY <1>1, <1>2, <1>4, <2>1 DEF Room
<1>5. CASE /\ SwitchAt("failed") /\ Activate("KeepRecords")
           /\ switch' = [switch EXCEPT !.phase = "restoring", !.waitsFor = generation + 1]
  <2>1. Due = 1
    BY <1>5 DEF Due, SwitchAt
  <2>2. generation + 1 <= MaxGeneration /\ generation + 1 \in 0 .. MaxGeneration
    BY <1>1, <2>1
  <2>3. switch' \in Switches /\ switch'.phase = "restoring"
    BY <1>1, <1>5, <2>2
  <2>4. Due' = 0
    BY <2>3 DEF Due
  <2> QED BY <1>1, <1>5, <2>2, <2>3, <2>4, ActivationTyped DEF Room
<1>6. CASE ActivateSwitched
  <2>1. Due = 1
    BY <1>6 DEF Due, SwitchAt, ActivateSwitched
  <2>2. generation + 1 <= MaxGeneration
    BY <1>1, <2>1
  <2>3. Due' = 0
    BY <1>2, <1>6 DEF Due, ActivateSwitched
  <2> QED BY <1>1, <1>2, <1>6, <2>2, <2>3, ActivationTyped DEF Room, ActivateSwitched
<1> QED BY <1>3, <1>4, <1>5, <1>6 DEF SwitchGoesOn, ReloadSwitched, FailSwitch, RestoreAfterFailure,
     FinishRestore, CommitSwitch, SwitchAt

LEMMA SwitchStepTyped ==
  ASSUME Types, SwitchFits, SwitchGoesOn
  PROVE  Types'
<1>1. TypeOK /\ 0 \in 0 .. MaxGeneration
  BY BoundsCount DEF Types
<1>2. UNCHANGED <<changes, selected, users>> /\ undisturbed' \in {undisturbed, 0}
  BY DEF SwitchGoesOn, ReloadSwitched, FailSwitch, RestoreAfterFailure, FinishRestore, CommitSwitch,
     ActivateSwitched, profileVars, coreVars, Disturb
<1>3. switch.phase \in {"asked", "reloaded"} => switch.to \in Profiles
  BY <1>1 DEF SwitchFits, TypeOK
<1>4. core' \in Views
  <2>1. CASE ReloadSwitched
    BY <1>3, <2>1, FreshFits DEF ReloadSwitched, SwitchAt
  <2>2. CASE FailSwitch
    BY <1>1, <2>2, FreshFits DEF FailSwitch, TypeOK
  <2>3. CASE UNCHANGED core
    BY <1>1, <2>3 DEF TypeOK
  <2> QED BY <2>1, <2>2, <2>3 DEF SwitchGoesOn, RestoreAfterFailure, FinishRestore, CommitSwitch,
       ActivateSwitched, coreVars
<1>5. current' \in Profiles /\ items' \in SUBSET Profiles
  <2>1. CASE CommitSwitch
    BY <1>1, <1>3, <2>1 DEF CommitSwitch, SwitchAt, TypeOK
  <2>2. CASE UNCHANGED <<current, items>>
    BY <1>1, <2>2 DEF TypeOK
  <2> QED BY <2>1, <2>2 DEF SwitchGoesOn, ReloadSwitched, FailSwitch, RestoreAfterFailure, FinishRestore,
       ActivateSwitched, profileVars
<1> QED BY <1>1, <1>2, <1>4, <1>5, SwitchMoves, TypesByVariable DEF TypeOK

LEMMA CoreStepTyped ==
  ASSUME Types, SwitchFits, CoreStep
  PROVE  Types'
<1>1. /\ TypeOK /\ 0 \in 0 .. MaxGeneration
      /\ tasks \in [Generations -> Task] /\ \A s \in Generations : Repairs(tasks[s])
      /\ generation \in Nat /\ MaxGeneration \in Nat /\ changes \in Nat /\ MaxChanges \in Nat
  <2>1. TypeOK /\ \A s \in Generations : Repairs(tasks[s])
    BY DEF Types
  <2>2. tasks \in [Generations -> Task]
    BY <2>1 DEF TypeOK, Generations
  <2>3. generation \in 0 .. MaxGeneration /\ changes \in 0 .. MaxChanges
    BY <2>1 DEF TypeOK
  <2> QED BY <2>1, <2>2, <2>3, BoundsCount
<1>2. UNCHANGED <<current, items, selected, users, switch>> /\ undisturbed' = 0
  BY DEF CoreStep, CoreRestarts, ProviderChanges, profileVars, Disturb
<1>3. CASE CoreRestarts
  <2>1. core' \in Views
    <3>1. switch.phase = "reloaded" => switch.to \in Profiles
      BY <1>1 DEF SwitchFits, TypeOK
    <3> QED BY <1>1, <1>3, <3>1, FreshFits DEF CoreRestarts, SwitchAt, TypeOK
  <2>2. CASE UNCHANGED <<generation, tasks>>
    <3>1. Room'
      BY <1>2, <2>2 DEF Types, Room, Due
    <3> QED BY <1>1, <1>2, <1>3, <2>1, <2>2, <3>1, TypesByVariable DEF TypeOK, CoreRestarts
  <2>3. CASE Activate("KeepRecords") /\ HasRoom(1)
    <3>1. generation + 1 + Due <= MaxGeneration /\ Due \in Nat /\ Due' = Due
      BY <1>2, <2>3 DEF HasRoom, Due
    <3>2. generation + 1 <= MaxGeneration
      BY <1>1, <3>1
    <3>3. /\ generation' = generation + 1 /\ generation' \in 0 .. MaxGeneration
          /\ tasks' \in [Generations -> Task] /\ \A s \in Generations : Repairs(tasks'[s])
      BY <2>3, <3>2, ActivationTyped
    <3>4. Room'
      BY <3>1, <3>3 DEF Room
    <3> QED BY <1>1, <1>2, <1>3, <2>1, <3>3, <3>4, TypesByVariable DEF TypeOK, CoreRestarts
  <2> QED BY <1>3, <2>2, <2>3 DEF CoreRestarts
<1>4. CASE \E g \in Groups : ProviderChanges(g)
  <2>1. PICK g \in Groups : ProviderChanges(g)
    BY <1>4
  <2>2. PICK all \in Delivered \ {core[g].all} :
          LET now == IF core[g].now \in all THEN core[g].now ELSE CHOOSE n \in all : TRUE
          IN  core' = [core EXCEPT ![g] = [@ EXCEPT !.all = all, !.now = now]]
    BY <2>1 DEF ProviderChanges
  <2>3. all \in SUBSET Nodes /\ all # {}
    BY <2>2, SelectedNodesAssumption
  <2> DEFINE now == IF core[g].now \in all THEN core[g].now ELSE CHOOSE n \in all : TRUE
             x == [core[g] EXCEPT !.all = all, !.now = now]
  <2>4. now \in Nodes \cup {None}
    BY <2>3
  <2>5. core[g] \in Group
    BY <1>1, <2>1, GroupsOfAView DEF ProviderChanges, TypeOK
  <2>6. core' = [core EXCEPT ![g] = x]
    BY <2>2
  <2> HIDE DEF now
  <2>7. x \in Group
    BY <2>3, <2>4, <2>5 DEF Group
  <2> HIDE DEF x
  <2>8. core' \in Views
    BY <1>1, <2>6, <2>7, ViewStaysAView DEF TypeOK
  <2>9. changes' \in 0 .. MaxChanges /\ UNCHANGED <<generation, tasks>>
    BY <1>1, <2>1 DEF ProviderChanges
  <2>10. Room'
    BY <1>2, <2>9 DEF Types, Room, Due
  <2> QED BY <1>1, <1>2, <2>8, <2>9, <2>10, TypesByVariable DEF TypeOK
<1> QED BY <1>3, <1>4 DEF CoreStep

LEMMA InitTyped ==
  ASSUME Init
  PROVE  Types
<1>1. 0 \in 0 .. MaxGeneration /\ 0 \in 0 .. MaxChanges /\ MaxGeneration \in Nat
  BY BoundsCount
<1>2. core \in Views /\ current \in Profiles
  BY FreshFits DEF Init
<1>3. selected \in [Profiles -> Records]
  BY SelectedNodesAssumption DEF Init, Records
<1>4. NoTask \in Task
  <2>1. Empty \in Records /\ 0 \in 0 .. Rounds
    BY BoundsCount DEF Empty, Records
  <2> QED BY <2>1 DEF NoTask, Task, Passes
<1>5. tasks \in [Generations -> Task]
  BY <1>4 DEF Init, Generations
<1>6. \A t \in Generations : Repairs(tasks[t])
  BY DEF Init, Generations, Repairs, NoTask
<1>7. switch \in [phase : {"idle", "asked", "reloaded", "failed", "restoring", "committed"},
                  to : Profiles \cup {None}, deletes : Profiles \cup {None},
                  waitsFor : 0 .. MaxGeneration]
  BY <1>1 DEF Init, NoSwitch
<1>8. Room
  BY <1>1 DEF Init, NoSwitch, Room, Due
<1>9. users \in [Users -> [phase : {"idle", "picked", "recorded", "done"},
                           group : Groups \cup {None}, node : Nodes \cup {None}]]
  BY DEF Init
<1>10. TypeOK
  BY <1>1, <1>2, <1>3, <1>5, <1>7, <1>9 DEF Init, TypeOK, Generations
<1> QED BY <1>6, <1>8, <1>10 DEF Types

-----------------------------------------------------------------------------
(* Switches *)

LEMMA SwitchesFit ==
  ASSUME Types, SwitchFits, Next
  PROVE  SwitchFits'
<1>1. items \subseteq Profiles /\ None \notin Profiles
  BY NoneIsNothing DEF Types, TypeOK
<1>2. CASE UNCHANGED <<current, items, switch>>
  BY <1>2 DEF SwitchFits
<1>3. ASSUME NEW p \in Profiles, StartSwitch(p)
      PROVE  SwitchFits'
  <2>1. /\ switch' = [phase |-> "asked", to |-> p, deletes |-> None, waitsFor |-> 0] \/
           switch' = [phase |-> "asked", to |-> p, deletes |-> current, waitsFor |-> 0]
        /\ p \in items \ {current} /\ UNCHANGED <<current, items>>
    BY <1>3 DEF StartSwitch, NoSwitch, profileVars
  <2>2. switch'.to = p /\ switch'.deletes \in {None, current}
    BY <2>1
  <2> QED BY <1>1, <2>1, <2>2 DEF SwitchFits
<1>4. CASE SwitchGoesOn
  <2>1. switch \in [phase : {"idle", "asked", "reloaded", "failed", "restoring", "committed"},
                    to : Profiles \cup {None}, deletes : Profiles \cup {None},
                    waitsFor : 0 .. MaxGeneration]
    BY DEF Types, TypeOK
  <2>2. CASE ReloadSwitched
    <3>1. /\ switch.phase = "asked" /\ switch' = [switch EXCEPT !.phase = "reloaded"]
          /\ UNCHANGED <<current, items>>
      BY <2>2 DEF ReloadSwitched, SwitchAt, profileVars
    <3>2. switch'.to = switch.to /\ switch'.deletes = switch.deletes
      BY <2>1, <3>1
    <3> QED BY <3>1, <3>2 DEF SwitchFits
  <2>3. CASE FailSwitch
    <3>1. switch'.phase = "failed" /\ UNCHANGED <<current, items>>
      BY <2>1, <2>3 DEF FailSwitch, profileVars
    <3> QED BY <3>1 DEF SwitchFits
  <2>4. CASE RestoreAfterFailure
    <3>1. switch'.phase \in {"idle", "restoring"} /\ UNCHANGED <<current, items>>
      <4>1. CASE switch' = NoSwitch
        BY <2>4, <4>1 DEF RestoreAfterFailure, NoSwitch, profileVars
      <4>2. CASE switch' = [switch EXCEPT !.phase = "restoring", !.waitsFor = generation + 1]
        BY <2>1, <2>4, <4>2 DEF RestoreAfterFailure, profileVars
      <4> QED BY <2>4, <4>1, <4>2 DEF RestoreAfterFailure
    <3> QED BY <3>1 DEF SwitchFits
  <2>5. CASE FinishRestore \/ ActivateSwitched
    <3>1. switch'.phase = "idle" /\ UNCHANGED <<current, items>>
      BY <2>1, <2>5 DEF FinishRestore, ActivateSwitched, NoSwitch, profileVars
    <3> QED BY <3>1 DEF SwitchFits
  <2>6. CASE CommitSwitch
    <3>1. /\ switch.phase = "reloaded" /\ switch'.phase = "committed"
          /\ current' = switch.to /\ items' = items \ {switch.deletes}
      BY <2>1, <2>6 DEF CommitSwitch, SwitchAt
    <3> QED BY <3>1 DEF SwitchFits
  <2> QED BY <1>4, <2>2, <2>3, <2>4, <2>5, <2>6 DEF SwitchGoesOn
<1>5. ASSUME NEW t \in Generations, TaskStep(t)
      PROVE  UNCHANGED <<current, items, switch>>
  BY <1>5 DEF TaskStep, Begin, Fetch, FetchFails, SendSelect, SelectLands, SelectFails, Save, profileVars
<1>6. ASSUME NEW u \in Users, UserStep(u)
      PROVE  UNCHANGED <<current, items, switch>>
  BY <1>6 DEF UserStep, Pick, Forget, PatchSelected, Record, StandDown, profileVars
<1>7. CASE CoreStep
  BY <1>2, <1>7 DEF CoreStep, CoreRestarts, ProviderChanges, profileVars
<1> QED BY <1>2, <1>3, <1>4, <1>5, <1>6, <1>7 DEF Next, Generations

-----------------------------------------------------------------------------
(* The order of the tasks *)

\* A step moves a task on that has its turn.
LEMMA TaskStepWords ==
  ASSUME Types, TasksFit, NEW t \in Generations, TaskStep(t)
  PROVE  /\ \E h \in Task : Put(t, h) /\ h.phase \notin {"none", "queued"}
         /\ tasks[t].phase \notin {"none", "ended"} /\ PreviousOver(t)
         /\ t <= generation
         /\ UNCHANGED generation /\ undisturbed' \in {undisturbed, t, 0}
<1>1. TypeOK /\ Repairs(tasks[t]) /\ Begun(t) /\ Born(t)
  BY DEF Types, TasksFit
<1>2. tasks[t].phase \in {"queued", "fetching", "selecting", "sent", "saving"}
  BY DEF TaskStep, Begin, Fetch, FetchFails, SendSelect, SelectLands, SelectFails, Save, Phase
<1>3. PreviousOver(t)
  <2>1. CASE Begin(t)
    BY <2>1 DEF Begin
  <2>2. CASE ~Begin(t)
    <3>1. tasks[t].phase \in {"fetching", "selecting", "sent", "saving"}
      BY <2>2 DEF TaskStep, Fetch, FetchFails, SendSelect, SelectLands, SelectFails, Save, Phase
    <3> QED BY <1>1, <3>1 DEF Begun
  <2> QED BY <2>1, <2>2
<1>4. UNCHANGED generation /\ undisturbed' \in {undisturbed, t, 0}
  BY DEF TaskStep, Begin, Fetch, FetchFails, SendSelect, SelectLands, SelectFails, Save
<1>5. \E h \in Task : Put(t, h) /\ h.phase \notin {"none", "queued"}
  <2>1. Ended \in Task /\ Ended.phase = "ended"
    BY EndedFits
  <2>2. End(t) <=> Put(t, Ended)
    BY DEF End, Ended
  <2>3. CASE Begin(t)
    BY <1>1, <2>1, <2>3, BeginWords
  <2>4. CASE Fetch(t)
    <3>1. CASE ~IsCurrent(t)
      BY <2>1, <2>2, <2>4, <3>1 DEF Fetch
    <3>2. CASE IsCurrent(t) /\ tasks[t].pass = "first"
      <4>1. PICK h \in Task : Put(t, h) /\ h.phase = "selecting"
        BY <1>1, <2>4, <3>2, FirstFetchWords
      <4> QED BY <4>1
    <3>3. CASE IsCurrent(t) /\ tasks[t].pass = "second"
      <4>1. PICK h \in Task : Put(t, h) /\ h.phase = "selecting"
        BY <1>1, <2>4, <3>3, SecondFetchWords
      <4> QED BY <4>1
    <3>4. CASE IsCurrent(t) /\ tasks[t].pass = "settle"
      <4>1. PICK h \in Task : Put(t, h) /\ (h = Ended \/ h.phase = "selecting")
        BY <1>1, <2>4, <3>4, SettleFetchWords
      <4> QED BY <2>1, <4>1
    <3>5. tasks[t].pass \in {"first", "second", "settle"}
      BY <1>1, TypesOfTasks DEF Task, Passes
    <3> QED BY <3>1, <3>2, <3>3, <3>4, <3>5
  <2>5. CASE FetchFails(t)
    <3>1. PICK h \in Task : Put(t, h) /\ (h = Ended \/ h.phase = "fetching")
      BY <1>1, <2>5, FetchFailsWords
    <3> QED BY <2>1, <3>1
  <2>6. CASE SendSelect(t)
    <3>1. CASE ~IsCurrent(t)
      BY <2>1, <2>2, <2>6, <3>1 DEF SendSelect
    <3>2. CASE IsCurrent(t) /\ tasks[t].todo = {}
      <4>1. AfterPass(t, tasks[t])
        BY <2>6, <3>2 DEF SendSelect
      <4>2. PICK h \in Task : Put(t, h) /\ (h = Ended \/ h.phase = "saving" \/ h.phase = "fetching")
        BY <1>1, <4>1, AfterPassWords
      <4> QED BY <2>1, <4>2
    <3>3. CASE IsCurrent(t) /\ tasks[t].todo # {}
      <4>1. PICK g \in tasks[t].todo : Put(t, [tasks[t] EXCEPT !.phase = "sent", !.sent = g])
        BY <2>6, <3>3 DEF SendSelect
      <4>2. PICK h \in Task : Put(t, h) /\ h.phase = "sent"
        BY <1>1, <4>1, SendWords
      <4> QED BY <4>2
    <3> QED BY <3>1, <3>2, <3>3
  <2>7. CASE SelectLands(t) \/ SelectFails(t)
    <3>1. PICK done \in SUBSET Groups : AfterSelect(t, done)
      <4>1. tasks[t].sent \in Groups
        BY <1>1, <2>7 DEF SelectLands, SelectFails, Phase, Repairs
      <4>2. {tasks[t].sent} \in SUBSET Groups /\ {} \in SUBSET Groups
        BY <4>1
      <4> QED BY <2>7, <4>2 DEF SelectLands, SelectFails
    <3>2. PICK h \in Task : Put(t, h) /\ (h = Ended \/ h.phase = "selecting")
      BY <1>1, <3>1, AfterSelectWords
    <3> QED BY <2>1, <3>2
  <2>8. CASE Save(t)
    BY <2>1, <2>2, <2>8 DEF Save
  <2> QED BY <2>3, <2>4, <2>5, <2>6, <2>7, <2>8 DEF TaskStep
<1> QED BY <1>1, <1>2, <1>3, <1>4, <1>5 DEF Born

\* A task put where one had its turn keeps the order.
LEMMA OrderAfterATask ==
  ASSUME Types, TasksFit, NEW t \in Generations, TaskStep(t)
  PROVE  TasksFit'
<1>1. PICK h \in Task : Put(t, h) /\ h.phase \notin {"none", "queued"}
  BY TaskStepWords
<1>2. /\ tasks[t].phase \notin {"none", "ended"} /\ PreviousOver(t) /\ t <= generation
      /\ UNCHANGED generation /\ undisturbed' \in {undisturbed, t, 0}
  BY TaskStepWords
<1>3. tasks'[t] = h /\ \A s \in Generations \ {t} : tasks'[s] = tasks[s]
  BY <1>1, PutsOneTask, TypesOfTasks DEF Types
<1>4. \A r \in Generations : r \in Nat /\ 1 .. r - 1 \subseteq Generations
  BY BoundsCount DEF Generations
<1>5. \A s \in Generations : Born(s)'
  BY <1>1, <1>2, <1>3 DEF TasksFit, Born
<1>6. \A s \in Generations : Queued(s)'
  BY <1>1, <1>3 DEF TasksFit, Queued
<1>7. \A s \in Generations : Begun(s)'
  <2> SUFFICES ASSUME NEW s \in Generations
      PROVE  Begun(s)'
    OBVIOUS
  <2>1. CASE s = t
    <3>1. \A r \in 1 .. t - 1 : r \in Generations \ {t}
      BY <1>4
    <3> QED BY <1>2, <1>3, <2>1, <3>1 DEF Begun, PreviousOver, Over
  <2>2. CASE s # t
    <3>1. CASE t \in 1 .. s - 1
      BY <1>2, <1>3, <2>2, <3>1 DEF TasksFit, Begun, PreviousOver, Over
    <3>2. CASE t \notin 1 .. s - 1
      <4>1. \A r \in 1 .. s - 1 : tasks'[r] = tasks[r]
        BY <1>3, <1>4, <3>2
      <4> QED BY <1>3, <2>2, <4>1 DEF TasksFit, Begun, PreviousOver, Over
    <3> QED BY <3>1, <3>2
  <2> QED BY <2>1, <2>2
<1>8. (undisturbed <= generation)'
  BY <1>2, BoundsCount DEF TasksFit, Types, TypeOK
<1> QED BY <1>5, <1>6, <1>7, <1>8 DEF TasksFit

\* A new activation queues behind them.
LEMMA OrderAfterAnActivation ==
  ASSUME Types, TasksFit, NEW repair \in {"Prune", "KeepRecords"}, Activate(repair),
         generation + 1 <= MaxGeneration, undisturbed' \in {undisturbed, 0}
  PROVE  TasksFit'
<1>1. /\ generation' = generation + 1 /\ generation' \in Generations
      /\ tasks'[generation'].phase = "queued"
      /\ tasks'[generation'].pass = "first" /\ tasks'[generation'].second = None
      /\ \A s \in Generations \ {generation'} : tasks'[s] = tasks[s]
  BY ActivationTyped
<1>2. generation \in Nat /\ undisturbed \in Nat
  BY BoundsCount DEF Types, TypeOK
<1>3. \A r \in Generations : r \in Nat /\ 1 .. r - 1 \subseteq Generations
  BY BoundsCount DEF Generations
<1>4. \A s \in Generations : Born(s)'
  BY <1>1, <1>2, <1>3 DEF TasksFit, Born
<1>5. \A s \in Generations : Queued(s)'
  BY <1>1 DEF TasksFit, Queued
<1>6. \A s \in Generations : Begun(s)'
  <2> SUFFICES ASSUME NEW s \in Generations, tasks'[s].phase \notin {"none", "queued"}
      PROVE  PreviousOver(s)'
    BY DEF Begun
  <2>1. tasks'[s] = tasks[s] /\ s # generation'
    BY <1>1
  <2>2. s <= generation
    BY <2>1 DEF TasksFit, Born
  <2>3. \A r \in 1 .. s - 1 : tasks'[r] = tasks[r]
    <3> SUFFICES ASSUME NEW r \in 1 .. s - 1
        PROVE  tasks'[r] = tasks[r]
      OBVIOUS
    <3>1. r \in Generations /\ s \in Nat
      BY <1>3
    <3>2. r < generation + 1
      BY <1>2, <2>2, <3>1
    <3>3. r # generation'
      BY <1>1, <1>2, <3>1, <3>2
    <3> QED BY <1>1, <3>1, <3>3
  <2> QED BY <2>1, <2>3 DEF TasksFit, Begun, PreviousOver, Over
<1>7. (undisturbed <= generation)'
  BY <1>1, <1>2 DEF TasksFit
<1> QED BY <1>4, <1>5, <1>6, <1>7 DEF TasksFit

\* A generation that is passed over leaves the tasks as they are.
LEMMA OrderAfterAGeneration ==
  ASSUME Types, TasksFit, UNCHANGED tasks, generation' \in {generation, generation + 1},
         undisturbed' \in {undisturbed, 0}
  PROVE  TasksFit'
<1>1. generation \in Nat /\ undisturbed \in Nat /\ \A t \in Generations : t \in Nat
  BY BoundsCount DEF Types, TypeOK
<1>2. \A s \in Generations : Queued(s)'
  BY DEF TasksFit, Queued
<1>3. \A s \in Generations : Begun(s)'
  BY DEF TasksFit, Begun, PreviousOver, Over
<1>4. \A s \in Generations : Born(s)'
  BY <1>1 DEF TasksFit, Born
<1> QED BY <1>1, <1>2, <1>3, <1>4 DEF TasksFit

LEMMA OrderKept ==
  ASSUME Types, TasksFit, Next
  PROVE  TasksFit'
<1>1. ASSUME NEW t \in Generations, TaskStep(t)
      PROVE  TasksFit'
  BY <1>1, OrderAfterATask
<1>2. ASSUME NEW u \in Users, UserStep(u)
      PROVE  TasksFit'
  <2>1. UNCHANGED tasks /\ generation' \in {generation, generation + 1} /\ undisturbed' \in {undisturbed, 0}
    BY <1>2 DEF UserStep, Pick, Forget, PatchSelected, Record, StandDown, Supersede, Disturb
  <2> QED BY <2>1, OrderAfterAGeneration
<1>3. ASSUME NEW p \in Profiles, StartSwitch(p)
      PROVE  TasksFit'
  <2>1. UNCHANGED tasks /\ generation' \in {generation, generation + 1} /\ undisturbed' \in {undisturbed, 0}
    BY <1>3 DEF StartSwitch, Supersede
  <2> QED BY <2>1, OrderAfterAGeneration
<1>4. generation \in Nat /\ MaxGeneration \in Nat /\ generation + Due <= MaxGeneration
  BY BoundsCount DEF Types, TypeOK, Room
<1>5. CASE SwitchGoesOn
  <2>1. undisturbed' \in {undisturbed, 0}
    BY <1>5 DEF SwitchGoesOn, ReloadSwitched, FailSwitch, RestoreAfterFailure, FinishRestore, CommitSwitch,
       ActivateSwitched, Disturb
  <2>2. CASE UNCHANGED <<generation, tasks>>
    BY <2>1, <2>2, OrderAfterAGeneration
  <2>3. CASE RestoreAfterFailure /\ Activate("KeepRecords")
    <3>1. generation + 1 <= MaxGeneration
      BY <1>4, <2>3 DEF RestoreAfterFailure, SwitchAt, Due
    <3> QED BY <2>1, <2>3, <3>1, OrderAfterAnActivation
  <2>4. CASE ActivateSwitched
    <3>1. generation + 1 <= MaxGeneration
      BY <1>4, <2>4 DEF ActivateSwitched, SwitchAt, Due
    <3> QED BY <2>1, <2>4, <3>1, OrderAfterAnActivation DEF ActivateSwitched
  <2> QED BY <1>5, <2>2, <2>3, <2>4 DEF SwitchGoesOn, ReloadSwitched, FailSwitch, RestoreAfterFailure,
       FinishRestore, CommitSwitch
<1>6. CASE CoreStep
  <2>1. undisturbed' = 0
    BY <1>6 DEF CoreStep, CoreRestarts, ProviderChanges, Disturb
  <2>2. CASE UNCHANGED <<generation, tasks>>
    BY <2>1, <2>2, OrderAfterAGeneration
  <2>3. CASE Activate("KeepRecords") /\ HasRoom(1)
    <3>1. generation + 1 <= MaxGeneration
      BY <1>4, <2>3 DEF HasRoom
    <3> QED BY <2>1, <2>3, <3>1, OrderAfterAnActivation
  <2> QED BY <1>6, <2>2, <2>3 DEF CoreStep, CoreRestarts, ProviderChanges
<1> QED BY <1>1, <1>2, <1>3, <1>5, <1>6 DEF Next, Generations

-----------------------------------------------------------------------------
(* What a task has read *)

\* Nobody is restoring any more once something else has touched the core or the records ...
LEMMA DisturbedRestores ==
  ASSUME undisturbed' = 0
  PROVE  RestoringFits'
<1>1. \A t \in Generations : t # 0
  BY BoundsCount
<1> QED BY <1>1 DEF RestoringFits, Restoring

\* ... or a newer generation has been born.
LEMMA SupersededRestores ==
  ASSUME Types, TasksFit, generation' = generation + 1, undisturbed' = undisturbed
  PROVE  RestoringFits'
<1>1. generation \in Nat /\ undisturbed \in Nat /\ undisturbed <= generation
  BY BoundsCount DEF Types, TypeOK, TasksFit
<1> QED BY <1>1 DEF RestoringFits, Restoring, IsCurrent

\* The core, the records and the task a reading is about decide whether it still fits.
LEMMA ReadingCarriesOver ==
  ASSUME NEW t \in Generations, NEW h, tasks'[t] = h, UNCHANGED <<core, current, selected>>
  PROVE  /\ ReadingFits(h) => ReadingFits(tasks[t])'
         /\ Activations(selected[current], core) = {} => (Activations(selected[current], core) = {})'
<1>1. Activations(selected[current], core)' = Activations(selected[current], core)
  BY DEF Activations, Loaded
<1>2. Activations(tasks[t].sel, core)' = Activations(h.sel, core)
  BY DEF Activations, Loaded
<1>3. Last(tasks[t])' = Last(h)
  BY DEF Last
<1>4. Activations(tasks[t].sel, Last(tasks[t]))' = Activations(h.sel, Last(h))
  BY <1>3 DEF Activations, Loaded
<1>5. SnapshotFits(tasks[t])' <=> SnapshotFits(h)
  BY <1>3, <1>4 DEF SnapshotFits
<1> QED BY <1>1, <1>2, <1>4, <1>5 DEF ReadingFits

LEMMA UnchangedRestores ==
  ASSUME RestoringFits, UNCHANGED <<core, current, selected, generation, tasks, undisturbed>>
  PROVE  RestoringFits'
<1> SUFFICES ASSUME NEW t \in Generations
    PROVE  Restoring(t)'
  BY DEF RestoringFits
<1>1. Restoring(t) /\ tasks'[t] = tasks[t]
  BY DEF RestoringFits
<1>2. /\ ReadingFits(tasks[t]) => ReadingFits(tasks[t])'
      /\ Activations(selected[current], core) = {} => (Activations(selected[current], core) = {})'
  BY <1>1, ReadingCarriesOver
<1> QED BY <1>1, <1>2 DEF Restoring, IsCurrent

\* A task that moves is the only one that has begun and is not over, and none after it has begun.
LEMMA OthersRestore ==
  ASSUME Types, TasksFit, NEW t \in Generations, TaskStep(t), NEW s \in Generations, s # t
  PROVE  Restoring(s)'
<1>1. PICK h \in Task : Put(t, h)
  BY TaskStepWords
<1>2. /\ tasks[t].phase \notin {"none", "ended"} /\ t <= generation
      /\ UNCHANGED generation /\ undisturbed' \in {undisturbed, t, 0}
  BY TaskStepWords
<1>3. tasks'[s] = tasks[s]
  BY <1>1, PutsOneTask, TypesOfTasks DEF Types
<1>4. SUFFICES ASSUME generation = s, tasks[s].phase \in Working \cup {"ended"}
      PROVE  FALSE
  BY <1>2, <1>3 DEF Restoring, IsCurrent
<1>5. PreviousOver(s)
  BY <1>4 DEF TasksFit, Begun, Working
<1>6. t \in 1 .. s - 1
  <2>1. t \in Nat /\ t > 0 /\ s \in Nat /\ t <= s
    BY <1>2, <1>4, BoundsCount
  <2> QED BY <2>1
<1> QED BY <1>2, <1>5, <1>6 DEF PreviousOver, Over

\* The task itself, with what is to be shown of each of its steps.
LEMMA TaskRestores ==
  ASSUME Types, TasksFit, RestoringFits, NEW t \in Generations, TaskStep(t),
         undisturbed' = t /\ IsCurrent(t) => Restoring(t)'
  PROVE  RestoringFits'
<1>1. UNCHANGED generation
  BY TaskStepWords
<1>2. Restoring(t)'
  BY <1>1 DEF Restoring, IsCurrent
<1> QED BY <1>2, OthersRestore DEF RestoringFits

\* A task that begins has read the records, and selects nothing when there are none.
LEMMA BeginReads ==
  ASSUME Types, SwitchFits, TasksFit, NEW t \in Generations, Begin(t), IsCurrent(t)
  PROVE  Restoring(t)'
<1>1. TypeOK /\ Queued(t) /\ tasks[t].phase = "queued" /\ Repairs(tasks[t])
  BY DEF Types, TasksFit, Begin, Phase
<1>2. PICK h \in Task :
        /\ Put(t, h)
        /\ \/ /\ h = Ended
              /\ IsCurrent(t) /\ current \in items => selected[current] = Empty
           \/ /\ h.phase = "fetching" /\ h.sel = selected[current]
              /\ h.repair = tasks[t].repair /\ h.pass = tasks[t].pass
              /\ h.first = tasks[t].first /\ h.second = tasks[t].second
  BY <1>1, BeginWords
<1>3. tasks'[t] = h /\ UNCHANGED <<core, current, selected>>
  BY <1>1, <1>2, PutsOneTask, TypesOfTasks DEF Begin, coreVars, profileVars
<1>4. CASE h = Ended
  <2>1. selected[current] = Empty
    BY <1>2, <1>4, EndedFits DEF SwitchFits
  <2>2. Activations(selected[current], core) = {}
    BY <2>1 DEF Activations, Empty
  <2>3. (Activations(selected[current], core) = {})'
    BY <1>3, <2>2, ReadingCarriesOver
  <2>4. tasks'[t].phase = "ended"
    BY <1>3, <1>4, EndedFits
  <2> QED BY <2>3, <2>4 DEF Restoring, Working
<1>5. CASE h.phase = "fetching" /\ h.sel = selected[current] /\ h.pass = tasks[t].pass
           /\ h.second = tasks[t].second
  <2>1. ReadingFits(h)
    BY <1>1, <1>5 DEF ReadingFits, Queued
  <2>2. ReadingFits(tasks[t])'
    BY <1>3, <2>1, ReadingCarriesOver
  <2> QED BY <1>3, <1>5, <2>2 DEF Restoring
<1> QED BY <1>2, <1>4, <1>5, EndedFits

\* A snapshot is read while the task's own selections are all that has been asked of the core.
LEMMA FetchReads ==
  ASSUME Types, TasksFit, NEW t \in Generations, Fetch(t), IsCurrent(t), ReadingFits(tasks[t])
  PROVE  Restoring(t)'
<1> DEFINE task == tasks[t]
<1>1. /\ TypeOK /\ task.phase = "fetching" /\ Repairs(task) /\ task \in Task /\ core \in Views
      /\ tasks \in [Generations -> Task]
  BY TypesOfTasks DEF Types, Fetch, Phase
<1>2. UNCHANGED <<core, current, selected>>
  BY DEF Fetch, coreVars, profileVars
<1>3. task.pass \in {"first", "second", "settle"}
  BY <1>1 DEF Task, Passes
<1>4. ASSUME NEW h \in Task, Put(t, h), h.phase = "selecting",
             h.repair = task.repair, h.pass = task.pass, h.sel = task.sel,
             Activations(task.sel, core) \subseteq h.todo,
             h.repair = "Prune" => /\ h.todo \subseteq Activations(task.sel, core)
                                   /\ Last(h) = core,
             h.pass = "first" => h.second = None
      PROVE  Restoring(t)'
  <2>1. tasks'[t] = h
    BY <1>1, <1>4, PutsOneTask
  <2>2. ReadingFits(h)
    BY <1>4 DEF ReadingFits, SnapshotFits
  <2>3. ReadingFits(tasks[t])'
    BY <1>2, <2>1, <2>2, ReadingCarriesOver
  <2> QED BY <1>4, <2>1, <2>3 DEF Restoring
<1>5. CASE task.pass = "first"
  <2>1. PICK h \in Task :
           /\ Put(t, h)
           /\ h.phase = "selecting"
           /\ h.repair = task.repair /\ h.pass = task.pass /\ h.sel = task.sel
           /\ h.first = Kept(task) /\ h.second = task.second
           /\ h.todo = Activations(task.sel, core)
    BY <1>1, <1>5, FirstFetchWords
  <2>2. h.second = None
    BY <1>5, <2>1 DEF ReadingFits
  <2>3. h.repair = "Prune" => Last(h) = core
    BY <1>1, <2>1, <2>2, SnapshotsAreKept DEF Last
  <2> QED BY <1>4, <2>1, <2>2, <2>3
<1>6. CASE task.pass \in {"second", "settle"}
  <2>1. Activations(task.sel, core) = {}
    BY <1>1, <1>6 DEF ReadingFits
  <2>2. CASE task.pass = "second"
    <3>1. PICK h \in Task :
             /\ Put(t, h)
             /\ h.phase = "selecting"
             /\ h.repair = task.repair /\ h.pass = task.pass /\ h.sel = task.sel
             /\ h.first = task.first /\ h.second = Kept(task)
             /\ h.todo = Activations(task.sel, core) \ task.done
      BY <1>1, <2>2, SecondFetchWords
    <3>2. h.repair = "Prune" => Last(h) = core
      BY <1>1, <3>1, SnapshotsAreKept, NoneIsNothing DEF Last
    <3> QED BY <1>4, <2>1, <2>2, <3>1, <3>2
  <2>3. CASE task.pass = "settle"
    <3>1. PICK h \in Task :
             /\ Put(t, h)
             /\ \/ h = Ended
                \/ /\ h.phase = "selecting" /\ Remembers(h, task)
                   /\ h.todo = Activations(task.sel, core) \ task.done
      BY <1>1, <2>3, SettleFetchWords
    <3>2. CASE h = Ended
      <4>1. tasks'[t] = h
        BY <1>1, <3>1, PutsOneTask
      <4>2. (Activations(selected[current], core) = {})'
        BY <1>2, <2>1, <4>1, ReadingCarriesOver DEF ReadingFits
      <4> QED BY <3>2, <4>1, <4>2, EndedFits DEF Restoring, Working
    <3>3. CASE h.phase = "selecting" /\ Remembers(h, task) /\ h.todo = Activations(task.sel, core) \ task.done
      <4>1. h.repair # "Prune"
        BY <1>1, <2>3, <3>3 DEF Repairs, Remembers
      <4> QED BY <1>4, <2>1, <2>3, <3>1, <3>3, <4>1 DEF Remembers
    <3> QED BY <3>1, <3>2, <3>3
  <2> QED BY <1>6, <2>2, <2>3
<1> QED BY <1>3, <1>5, <1>6

\* A pass with nothing left to select has selected all there is.
LEMMA SendSelectReads ==
  ASSUME Types, TasksFit, NEW t \in Generations, SendSelect(t), IsCurrent(t), ReadingFits(tasks[t])
  PROVE  Restoring(t)'
<1> DEFINE task == tasks[t]
<1>1. TypeOK /\ task.phase = "selecting" /\ Repairs(task) /\ tasks \in [Generations -> Task]
  BY TypesOfTasks DEF Types, SendSelect, Phase
<1>2. UNCHANGED <<core, current, selected>>
  BY DEF SendSelect, coreVars, profileVars
<1>3. CASE task.todo = {}
  <2>1. Activations(task.sel, core) = {} /\ selected[current] = task.sel
    BY <1>1, <1>3 DEF ReadingFits
  <2>2. AfterPass(t, task)
    BY <1>3 DEF SendSelect
  <2>3. PICK h \in Task :
           /\ Put(t, h)
           /\ \/ h = Ended
              \/ /\ h.phase = "saving" /\ h.repair = "Prune" /\ Remembers(h, task)
              \/ /\ h.phase = "fetching" /\ h.pass # "first"
                 /\ h.repair = task.repair /\ h.sel = task.sel
                 /\ h.first = task.first /\ h.second = task.second
                 /\ h.pass = "second" => task.pass = "first"
                 /\ h.pass = "settle" => task.pass = "settle" \/ task.repair # "Prune"
    BY <1>1, <2>2, AfterPassWords
  <2>4. tasks'[t] = h
    BY <1>1, <2>3, PutsOneTask
  <2>5. CASE h = Ended
    <3>1. (Activations(selected[current], core) = {})'
      BY <1>2, <2>1, <2>4, ReadingCarriesOver
    <3> QED BY <2>4, <2>5, <3>1, EndedFits DEF Restoring, Working
  <2>6. CASE h.phase = "saving" /\ h.repair = "Prune" /\ Remembers(h, task)
    <3>1. SnapshotFits(task)
      BY <1>1, <2>6 DEF ReadingFits, Remembers
    <3>2. SnapshotFits(h)
      BY <2>6, <3>1 DEF SnapshotFits, Remembers, Last
    <3>3. h.pass = "first" => h.second = None
      BY <2>6 DEF ReadingFits, Remembers
    <3>4. ReadingFits(h)
      BY <2>1, <2>6, <3>2, <3>3 DEF ReadingFits, Remembers
    <3>5. ReadingFits(tasks[t])'
      BY <1>2, <2>4, <3>4, ReadingCarriesOver
    <3> QED BY <2>4, <2>6, <3>5 DEF Restoring
  <2>7. CASE /\ h.phase = "fetching" /\ h.pass # "first"
             /\ h.repair = task.repair /\ h.sel = task.sel
             /\ h.first = task.first /\ h.second = task.second
             /\ h.pass = "second" => task.pass = "first"
             /\ h.pass = "settle" => task.pass = "settle" \/ task.repair # "Prune"
    <3>1. h.pass \in {"second", "settle"}
      BY <2>7 DEF Task, Passes
    <3>2. h.second = None
      BY <1>1, <2>7, <3>1 DEF ReadingFits, Repairs
    <3>3. ReadingFits(h)
      BY <2>1, <2>7, <3>2 DEF ReadingFits
    <3>4. ReadingFits(tasks[t])'
      BY <1>2, <2>4, <3>3, ReadingCarriesOver
    <3> QED BY <2>4, <2>7, <3>4 DEF Restoring
  <2> QED BY <2>3, <2>5, <2>6, <2>7
<1>4. CASE task.todo # {}
  <2>1. PICK g \in task.todo : Put(t, [tasks[t] EXCEPT !.phase = "sent", !.sent = g])
    BY <1>4 DEF SendSelect
  <2>2. PICK h \in Task :
           /\ Put(t, h)
           /\ h.phase = "sent" /\ Remembers(h, task)
           /\ h.todo = task.todo /\ h.sent \in task.todo
    BY <1>1, <2>1, SendWords
  <2>3. tasks'[t] = h
    BY <1>1, <2>2, PutsOneTask
  <2>4. h.repair = "Prune" => SnapshotFits(h)
    BY <1>1, <2>2 DEF ReadingFits, SnapshotFits, Remembers, Last
  <2>5. h.repair = "Prune" => h.todo \subseteq Activations(h.sel, Last(h))
    BY <1>1, <2>2 DEF ReadingFits, Remembers, Last
  <2>6. h.pass = "first" => h.second = None
    BY <2>2 DEF ReadingFits, Remembers
  <2>7. selected[current] = h.sel /\ Activations(h.sel, core) \subseteq h.todo
    BY <1>1, <2>2 DEF ReadingFits, Remembers
  <2>8. ReadingFits(h)
    BY <2>2, <2>4, <2>5, <2>6, <2>7 DEF ReadingFits
  <2>9. ReadingFits(tasks[t])'
    BY <1>2, <2>3, <2>8, ReadingCarriesOver
  <2> QED BY <2>2, <2>3, <2>9 DEF Restoring
<1> QED BY <1>3, <1>4

\* A selection that lands is one group less to select, and touches no other.
LEMMA SelectReads ==
  ASSUME Types, TasksFit, NEW t \in Generations, SelectLands(t), IsCurrent(t), ReadingFits(tasks[t])
  PROVE  Restoring(t)'
<1> DEFINE task == tasks[t]
           g == task.sent
<1>1. /\ TypeOK /\ task.phase = "sent" /\ Repairs(task) /\ tasks \in [Generations -> Task]
      /\ core \in Views
  BY TypesOfTasks DEF Types, SelectLands, Phase
<1>2. UNCHANGED <<current, selected>>
  BY DEF SelectLands, profileVars
<1>3. g \in Groups /\ {g} \in SUBSET Groups /\ g \in task.todo
  BY <1>1 DEF Repairs, ReadingFits
<1>4. /\ core'[g].now = task.sel[g]
      /\ \A x \in Groups \ {g} : core'[x] = core[x]
  BY <1>1, <1>3, SelectionLands DEF SelectLands
<1>5. PICK h \in Task :
           /\ Put(t, h)
           /\ \/ h = Ended /\ ~IsCurrent(t)
              \/ /\ h.phase = "selecting" /\ Remembers(h, task)
                 /\ h.todo = task.todo \ {g}
  BY <1>1, <1>3, AfterSelectWords DEF SelectLands
<1>6. tasks'[t] = h /\ h.phase = "selecting" /\ Remembers(h, task) /\ h.todo = task.todo \ {g}
  BY <1>1, <1>5, PutsOneTask
<1>7. Activations(tasks[t].sel, core)' \subseteq Activations(task.sel, core) \ {g}
  BY <1>4, <1>6 DEF Activations, Loaded, Remembers
<1>8. selected'[current'] = tasks'[t].sel
  BY <1>2, <1>6 DEF ReadingFits, Remembers
<1>9. Activations(tasks[t].sel, core)' \subseteq tasks'[t].todo
  BY <1>1, <1>6, <1>7 DEF ReadingFits
<1>10. Last(tasks[t])' = Last(task)
  BY <1>6 DEF Remembers, Last
<1>11. Activations(tasks[t].sel, Last(tasks[t]))' = Activations(task.sel, Last(task))
  BY <1>6, <1>10 DEF Activations, Loaded, Remembers
<1>12. task.repair = "Prune" => SnapshotFits(task) /\ task.todo \subseteq Activations(task.sel, Last(task))
  BY <1>1 DEF ReadingFits
<1>13. task.repair = "Prune" => SnapshotFits(tasks[t])'
  BY <1>3, <1>4, <1>10, <1>11, <1>12 DEF SnapshotFits
<1>14. task.repair = "Prune" => tasks'[t].todo \subseteq Activations(tasks[t].sel, Last(tasks[t]))'
  BY <1>6, <1>11, <1>12
<1>15. tasks'[t].pass = "first" => tasks'[t].second = None
  BY <1>6 DEF ReadingFits, Remembers
<1>16. tasks'[t].phase = "selecting" /\ tasks'[t].repair = task.repair
  BY <1>6 DEF Remembers
<1>17. ReadingFits(tasks[t])'
  BY <1>8, <1>9, <1>13, <1>14, <1>15, <1>16 DEF ReadingFits
<1> QED BY <1>16, <1>17 DEF Restoring

\* Repaired records ask for no selection that the old ones did not: a record is only given up for
\* the node its group is on.
LEMMA RepairsSelectNothing ==
  ASSUME NEW sel, NEW previous, NEW view, Activations(sel, core) = {},
         \A g \in Groups \ Activations(sel, view) : core[g] = view[g]
  PROVE  Activations(Reconciled(sel, previous, view), core) = {}
<1> SUFFICES ASSUME NEW g \in Groups,
                    LET n == Reconciled(sel, previous, view)[g] IN
                    /\ n # None /\ Loaded(core, g)
                    /\ core[g].manual /\ n \in core[g].all /\ core[g].now # n
      PROVE  FALSE
  BY DEF Activations
<1> DEFINE n == Reconciled(sel, previous, view)[g]
           own == IF view[g].now \in view[g].all THEN view[g].now ELSE None
<1>1. n # sel[g]
  BY DEF Activations
<1>2. g \in Activations(sel, view) => n = sel[g]
  BY DEF Activations, Reconciled, Loaded
<1>3. core[g] = view[g]
  BY <1>1, <1>2
<1>4. n = own
  BY <1>1, <1>3 DEF Reconciled, Loaded
<1> QED BY <1>3, <1>4

LEMMA SaveReads ==
  ASSUME Types, TasksFit, NEW t \in Generations, Save(t), IsCurrent(t), ReadingFits(tasks[t])
  PROVE  Restoring(t)'
<1> DEFINE task == tasks[t]
<1>1. /\ TypeOK /\ task.phase = "saving" /\ Repairs(task) /\ tasks \in [Generations -> Task]
      /\ task \in Task /\ current \in Profiles /\ selected \in [Profiles -> Records]
  BY TypesOfTasks DEF Types, Save, Phase, TypeOK
<1>2. task.repair = "Prune"
  BY <1>1 DEF Repairs
<1>3. /\ selected[current] = task.sel /\ Activations(task.sel, core) = {} /\ SnapshotFits(task)
  BY <1>1, <1>2 DEF ReadingFits
<1>4. tasks'[t] = Ended /\ UNCHANGED <<core, current>>
  <2>1. Put(t, Ended)
    BY DEF Save, End, Ended
  <2> QED BY <1>1, <2>1, EndedFits, PutsOneTask DEF Save, coreVars
<1>5. (Activations(selected[current], core) = {})'
  <2>1. CASE UNCHANGED selected
    BY <1>3, <1>4, <2>1, ReadingCarriesOver
  <2>2. CASE MaySave(t) /\ selected' = [selected EXCEPT ![task.uid] = Plan(task)]
    <3>1. selected'[current'] = Plan(task)
      BY <1>1, <1>4, <2>2 DEF MaySave
    <3>2. Activations(Plan(task), core) = {}
      <4>1. CASE task.second = None
        BY <1>3, <4>1, RepairsSelectNothing DEF SnapshotFits, Last, Plan
      <4>2. CASE task.second # None
        BY <1>3, <4>2, RepairsSelectNothing DEF SnapshotFits, Last, Plan
      <4> QED BY <4>1, <4>2
    <3>3. Activations(selected[current], core)' = Activations(Plan(task), core)
      BY <1>4, <3>1 DEF Activations, Loaded
    <3> QED BY <3>2, <3>3
  <2> QED BY <2>1, <2>2 DEF Save
<1> QED BY <1>4, <1>5, EndedFits DEF Restoring, Working

\* Every step of a task leaves the restored nodes restored.
LEMMA TaskStepsRestore ==
  ASSUME Types, SwitchFits, TasksFit, RestoringFits, NEW t \in Generations, TaskStep(t)
  PROVE  RestoringFits'
<1>1. t # 0 /\ Restoring(t)
  BY BoundsCount DEF RestoringFits
<1>2. CASE Begin(t)
  <2>1. IsCurrent(t) => Restoring(t)'
    BY <1>2, BeginReads
  <2> QED BY <2>1, TaskRestores
<1>3. CASE FetchFails(t) \/ SelectFails(t)
  BY <1>3, DisturbedRestores DEF FetchFails, SelectFails
<1>4. CASE Fetch(t) \/ SendSelect(t) \/ SelectLands(t) \/ Save(t)
  <2>1. undisturbed' = undisturbed /\ tasks[t].phase \in Working
    BY <1>4 DEF Fetch, SendSelect, SelectLands, Save, Phase, Working
  <2>2. undisturbed' = t /\ IsCurrent(t) => ReadingFits(tasks[t])
    BY <1>1, <2>1 DEF Restoring
  <2>3. undisturbed' = t /\ IsCurrent(t) => Restoring(t)'
    BY <1>4, <2>2, FetchReads, SendSelectReads, SelectReads, SaveReads
  <2> QED BY <2>3, TaskRestores
<1> QED BY <1>2, <1>3, <1>4 DEF TaskStep

LEMMA RestoringKept ==
  ASSUME Types, SwitchFits, TasksFit, RestoringFits, Next
  PROVE  RestoringFits'
<1>1. ASSUME NEW t \in Generations, TaskStep(t)
      PROVE  RestoringFits'
  BY <1>1, TaskStepsRestore
<1>2. ASSUME NEW u \in Users, UserStep(u)
      PROVE  RestoringFits'
  <2>1. CASE StandDown(u)
    BY <2>1, SupersededRestores DEF StandDown, Supersede
  <2>2. CASE undisturbed' = 0
    BY <2>2, DisturbedRestores
  <2> QED BY <1>2, <2>1, <2>2 DEF UserStep, Pick, Forget, PatchSelected, Record, Disturb
<1>3. ASSUME NEW p \in Profiles, StartSwitch(p)
      PROVE  RestoringFits'
  <2>1. UNCHANGED <<core, current, selected, tasks, undisturbed>>
    BY <1>3 DEF StartSwitch, coreVars, profileVars
  <2>2. CASE UNCHANGED generation
    BY <2>1, <2>2, UnchangedRestores
  <2>3. CASE Supersede
    BY <2>1, <2>3, SupersededRestores DEF Supersede
  <2> QED BY <1>3, <2>2, <2>3 DEF StartSwitch
<1>4. CASE SwitchGoesOn
  <2>1. CASE ReloadSwitched \/ FailSwitch \/ CommitSwitch
    BY <2>1, DisturbedRestores DEF ReloadSwitched, FailSwitch, CommitSwitch, Disturb
  <2>2. CASE RestoreAfterFailure \/ FinishRestore \/ ActivateSwitched
    <3>1. UNCHANGED <<core, current, selected, undisturbed>>
      BY <2>2 DEF RestoreAfterFailure, FinishRestore, ActivateSwitched, coreVars, profileVars
    <3>2. CASE UNCHANGED <<generation, tasks>>
      BY <3>1, <3>2, UnchangedRestores
    <3>3. CASE generation' = generation + 1
      BY <3>1, <3>3, SupersededRestores
    <3> QED BY <2>2, <3>2, <3>3 DEF RestoreAfterFailure, FinishRestore, ActivateSwitched, Activate, Supersede
  <2> QED BY <1>4, <2>1, <2>2 DEF SwitchGoesOn
<1>5. CASE CoreStep
  BY <1>5, DisturbedRestores DEF CoreStep, CoreRestarts, ProviderChanges, Disturb
<1> QED BY <1>1, <1>2, <1>3, <1>4, <1>5 DEF Next, Generations

-----------------------------------------------------------------------------
(* The theorems *)

LEMMA TypesKept ==
  ASSUME Types, SwitchFits, Next
  PROVE  Types'
<1>1. ASSUME NEW t \in Generations, TaskStep(t)
      PROVE  Types'
  BY <1>1, TaskStepTyped
<1>2. ASSUME NEW u \in Users, UserStep(u)
      PROVE  Types'
  BY <1>2, UserStepTyped
<1>3. ASSUME NEW p \in Profiles, StartSwitch(p)
      PROVE  Types'
  BY <1>3, StartSwitchTyped
<1>4. CASE SwitchGoesOn
  BY <1>4, SwitchStepTyped
<1>5. CASE CoreStep
  BY <1>5, CoreStepTyped
<1> QED BY <1>1, <1>2, <1>3, <1>4, <1>5 DEF Next, Generations

LEMMA InitFits ==
  ASSUME Init
  PROVE  IInv
<1>1. Types
  BY InitTyped
<1>2. SwitchFits
  BY DEF Init, NoSwitch, SwitchFits
<1>3. \A t \in Generations : tasks[t].phase = "none"
  BY DEF Init, NoTask, Generations
<1>4. TasksFit
  <2>1. undisturbed <= generation
    BY DEF Init
  <2>2. \A t \in Generations : Born(t) /\ Queued(t) /\ Begun(t)
    BY <1>3 DEF Born, Queued, Begun
  <2> QED BY <2>1, <2>2 DEF TasksFit
<1>5. RestoringFits
  BY <1>3 DEF RestoringFits, Restoring, Working
<1> QED BY <1>1, <1>2, <1>4, <1>5 DEF IInv

LEMMA StuttersFit ==
  ASSUME IInv, UNCHANGED vars
  PROVE  IInv'
<1>1. UNCHANGED <<core, changes, current, items, selected, generation, tasks, users, switch, undisturbed>>
  BY DEF vars
<1>2. Types'
  <2>1. Room' /\ \A s \in Generations : Repairs(tasks'[s])
    BY <1>1 DEF IInv, Types, Room, Due
  <2> QED BY <1>1, <2>1, TypesByVariable DEF IInv, Types, TypeOK, Generations
<1>3. SwitchFits'
  BY <1>1 DEF IInv, SwitchFits
<1>4. TasksFit'
  BY <1>1, OrderAfterAGeneration DEF IInv
<1>5. RestoringFits'
  BY <1>1, UnchangedRestores DEF IInv
<1> QED BY <1>2, <1>3, <1>4, <1>5 DEF IInv

\* The invariant: switches leave profiles that stay for profiles that exist, tasks begin in the
\* order of their generations and one at a time, and while nothing else touches the core or the
\* records, what the current task has still to select is all there is (activate_selected_nodes_with).
THEOREM Invariance == Spec => []IInv
<1>1. Init => IInv
  BY InitFits
<1>2. IInv /\ [Next]_vars => IInv'
  <2> SUFFICES ASSUME IInv, [Next]_vars
      PROVE  IInv'
    OBVIOUS
  <2>1. CASE Next
    <3>1. Types /\ SwitchFits /\ TasksFit /\ RestoringFits
      BY DEF IInv
    <3>2. Types' /\ SwitchFits' /\ TasksFit' /\ RestoringFits'
      BY <2>1, <3>1, TypesKept, SwitchesFit, OrderKept, RestoringKept
    <3> QED BY <3>2 DEF IInv
  <2>2. CASE UNCHANGED vars
    BY <2>2, StuttersFit
  <2> QED BY <2>1, <2>2
<1> QED BY <1>1, <1>2, PTL DEF Spec

\* Every variable has its type, for any profiles, groups, records and bounds.
THEOREM TypeCorrect == Spec => []TypeOK
<1>1. IInv => TypeOK
  BY DEF IInv, Types
<1> QED BY <1>1, Invariance, PTL

\* When the newest activation is over and nothing failed or interfered since it began, every group
\* that takes a selection is on its recorded node, wherever the core has that node
\* (activate_selected_nodes_with, apply_activations).
THEOREM RestoresAlwaysAgree == Spec => []RestoredAgrees
<1>1. IInv => RestoredAgrees
  BY DEF IInv, RestoringFits, Restoring, RestoredAgrees, Phase, Generations
<1> QED BY <1>1, Invariance, PTL

\* What a repair may take from the records of a task.
Confirmed(task, g) ==
    LET node == task.sel[g]
        last == IF task.second = None THEN task.first ELSE task.second
    IN  \/ last[g] # Absent /\ ~last[g].manual
        \/ /\ task.second # None
           /\ \A view \in {task.first, task.second} :
                 view[g] = Absent \/ (Loaded(view, g) /\ node \notin view[g].all)

\* A plan gives up only records that two snapshots lacked the node of, or of groups that take no
\* selection.
LEMMA PlansAreConfirmed ==
  ASSUME NEW task, NEW g \in Groups, Plan(task)[g] # task.sel[g]
  PROVE  Confirmed(task, g)
<1>1. CASE task.second = None
  <2>1. Plan(task) = Reconciled(task.sel, None, task.first)
    BY <1>1 DEF Plan
  <2>2. task.first[g] # Absent /\ ~task.first[g].manual
    BY <2>1 DEF Reconciled
  <2> QED BY <1>1, <2>2 DEF Confirmed
<1>2. CASE task.second # None
  <2>1. Plan(task) = Reconciled(task.sel, task.first, task.second)
    BY <1>2 DEF Plan
  <2>2. CASE task.second[g] = Absent
    <3>1. task.first[g] = Absent
      BY <2>1, <2>2 DEF Reconciled
    <3> QED BY <1>2, <2>2, <3>1 DEF Confirmed
  <2>3. CASE task.second[g] # Absent /\ ~task.second[g].manual
    BY <1>2, <2>3 DEF Confirmed
  <2>4. CASE task.second[g] # Absent /\ task.second[g].manual
    <3>1. /\ task.second[g].all # {} /\ task.sel[g] \notin task.second[g].all
          /\ Loaded(task.first, g) /\ task.sel[g] \notin task.first[g].all
      BY <2>1, <2>4 DEF Reconciled
    <3> QED BY <1>2, <2>4, <3>1 DEF Confirmed, Loaded
  <2> QED BY <2>2, <2>3, <2>4
<1> QED BY <1>1, <1>2

\* Only a save changes records and tasks at once.
LEMMA SavesChangeBoth ==
  ASSUME Next, selected' # selected, tasks' # tasks
  PROVE  \E t \in Generations : Save(t)
<1>1. ASSUME NEW t \in Generations, TaskStep(t)
      PROVE  Save(t)
  BY <1>1 DEF TaskStep, Begin, Fetch, FetchFails, SendSelect, SelectLands, SelectFails, profileVars
<1>2. ASSUME NEW u \in Users, UserStep(u)
      PROVE  FALSE
  BY <1>2 DEF UserStep, Pick, Forget, PatchSelected, Record, StandDown
<1>3. ASSUME NEW p \in Profiles, StartSwitch(p)
      PROVE  FALSE
  BY <1>3 DEF StartSwitch
<1>4. CASE SwitchGoesOn
  BY <1>4 DEF SwitchGoesOn, ReloadSwitched, FailSwitch, RestoreAfterFailure, FinishRestore, CommitSwitch,
     ActivateSwitched, profileVars
<1>5. CASE CoreStep
  BY <1>5 DEF CoreStep, CoreRestarts, ProviderChanges, profileVars
<1> QED BY <1>1, <1>2, <1>3, <1>4, <1>5 DEF Next, Generations

\* One task saves at a time.
LEMMA OneTaskSaves ==
  ASSUME TasksFit, NEW s \in Generations, NEW t \in Generations,
         tasks[s].phase = "saving", tasks[t].phase = "saving"
  PROVE  s = t
<1>1. s \in Nat /\ t \in Nat /\ s > 0 /\ t > 0
  BY BoundsCount
<1>2. PreviousOver(s) /\ PreviousOver(t)
  BY DEF TasksFit, Begun
<1>3. ~(s \in 1 .. t - 1) /\ ~(t \in 1 .. s - 1)
  BY <1>2 DEF PreviousOver, Over
<1> QED BY <1>1, <1>3

\* A record the user chose is repaired only by an activation that may prune, in the profile the
\* task read, while it still holds what the task read, and only if the group refuses selections or
\* both snapshots of the core lacked the node (reconcile_selected_nodes,
\* persist_reconciled_selected).
THEOREM RepairsAlwaysConfirmed == Spec => RepairsAreConfirmed
<1> DEFINE Sound(t) ==
        Phase(t, "saving") /\ selected' # selected /\ tasks' # tasks =>
        LET task == tasks[t] IN
        /\ task.repair = "Prune"
        /\ \A p \in Profiles \ {task.uid} : selected'[p] = selected[p]
        /\ current = task.uid
        /\ \A g \in Groups : selected'[task.uid][g] # selected[task.uid][g] =>
              /\ selected[task.uid][g] = task.sel[g]
              /\ LET node == task.sel[g]
                     last == IF task.second = None THEN task.first ELSE task.second
                 IN  \/ last[g] # Absent /\ ~last[g].manual
                     \/ /\ task.second # None
                        /\ \A view \in {task.first, task.second} :
                              view[g] = Absent \/ (Loaded(view, g) /\ node \notin view[g].all)
<1>1. IInv /\ [Next]_vars => \A t \in 1 .. MaxGeneration : Sound(t)
  <2> SUFFICES ASSUME IInv, [Next]_vars, NEW t \in Generations,
                      Phase(t, "saving"), selected' # selected, tasks' # tasks
      PROVE  Sound(t)
    BY DEF Generations
  <2>1. Next
    BY DEF vars
  <2>2. Types /\ TasksFit /\ tasks[t].phase = "saving"
    BY DEF IInv, Phase
  <2>3. PICK s \in Generations : Save(s)
    BY <2>1, SavesChangeBoth
  <2>4. s = t
    BY <2>2, <2>3, OneTaskSaves DEF Save, Phase
  <2>5. MaySave(t) /\ selected' = [selected EXCEPT ![tasks[t].uid] = Plan(tasks[t])]
    BY <2>3, <2>4 DEF Save
  <2>6. /\ selected \in [Profiles -> Records] /\ current \in Profiles
        /\ tasks[t].repair = "Prune"
    BY <2>2 DEF Types, TypeOK, Repairs
  <2>7. current = tasks[t].uid /\ selected[tasks[t].uid] = tasks[t].sel
    BY <2>5 DEF MaySave
  <2>8. \A p \in Profiles \ {tasks[t].uid} : selected'[p] = selected[p]
    BY <2>5, <2>6
  <2>9. selected'[tasks[t].uid] = Plan(tasks[t])
    BY <2>5, <2>6, <2>7
  <2>10. \A g \in Groups : selected'[tasks[t].uid][g] # selected[tasks[t].uid][g] => Confirmed(tasks[t], g)
    BY <2>7, <2>9, PlansAreConfirmed
  <2> QED BY <2>6, <2>7, <2>8, <2>10 DEF Confirmed
<1> QED BY <1>1, Invariance, PTL DEF Spec, RepairsAreConfirmed

-----------------------------------------------------------------------------
(* Launches: the inductive invariant *)

InstanceSpec == InstanceInit /\ [][InstanceNext]_instanceVars

\* Process ids are neither the name of the root nor the marks of the reserved files.
ProcessIds == Launches \cap {Root, NoLaunch, "empty", "theirs"} = {}

\* Who is the primary holds the lock, although a repair may replace the lock's file.
LockIsHeld == \A p \in Launches : phase[p] \in Primary => locked = p

RepairsAreOnWindows == \A p \in Launches : phase[p] \in Repair => system = "windows"

\* What a launch sets aside is not there before, stays while it is needed, and is empty
\* when it is discarded.
AsideIsOwn ==
    \A p \in Launches :
        /\ phase[p] \in {"idle", "look", "aside"} => dir[p] = "none" /\ holds[p] = {}
        /\ phase[p] \in Aside => dir[p] # "none"
        /\ At(p, "discard") => holds[p] = {}

\* A root that is not there holds nothing: the name that comes back hides no entry.
GoneIsEmpty == dir[Root] = "none" => holds[Root] = {}

\* As long as nothing was `crowded`, nobody else is about while a launch rebuilds.
RebuildsAlone ==
    ~crowded => \A p \in Launches : phase[p] \in Aside => \A q \in Launches \ {p} : ~Live(q)

\* So nobody fills the new root with defaults or takes it away.
NewRootFits ==
    ~crowded => \A p \in Launches : phase[p] \in Aside =>
        /\ defaults = {}
        /\ phase[p] \in {"move", "discard"} => dir[Root] = "ours"

\* The old and the new root together have all of the data, and the root has it when
\* nobody rebuilds it.
Rebuilt ==
    ~crowded /\ ~split =>
        /\ \A p \in Launches : phase[p] \in Aside => holds[p] \cup holds[Root] = Data
        /\ (\A p \in Launches : phase[p] \notin Aside) => holds[Root] = Data /\ defaults = {}

LockInv == InstanceTypeOK /\ LockIsHeld /\ RepairsAreOnWindows
DataInv ==
    /\ AsideIsOwn /\ GoneIsEmpty /\ RebuildsAlone /\ NewRootFits /\ Rebuilt
    /\ NothingIsLost /\ RepairsTakeOver
InstanceInv == LockInv /\ DataInv

-----------------------------------------------------------------------------
(* Launches: what every step does *)

\* A step of p moves p alone, and notes who is about.
LEMMA StepIsNoted ==
  ASSUME InstanceTypeOK, NEW p \in Launches, NEW s \in LaunchPhases, StepTo(p, s)
  PROVE  /\ phase' \in [Launches -> LaunchPhases] /\ system' = system
         /\ phase'[p] = s /\ \A q \in Launches \ {p} : phase'[q] = phase[q]
         /\ ~crowded' => /\ ~crowded
                         /\ s \in Aside => \A q \in Launches \ {p} : ~Live(q)
                         /\ s # "gone" => \A q \in Launches \ {p} : phase[q] \notin Aside
BY DEF StepTo, InstanceTypeOK

\* Whoever joins a rebuild, or rebuilds beside another, makes it `crowded`.
LEMMA StepsLeaveRebuildsAlone ==
  ASSUME InstanceTypeOK, RebuildsAlone, NEW p \in Launches, NEW s \in LaunchPhases, StepTo(p, s)
  PROVE  RebuildsAlone'
<1> SUFFICES ASSUME ~crowded', NEW r \in Launches, phase'[r] \in Aside, NEW q \in Launches \ {r}
    PROVE  ~Live(q)'
  BY DEF RebuildsAlone
<1>1. CASE r = p
  BY <1>1, StepIsNoted DEF Live
<1>2. CASE r # p /\ q = p
  BY <1>2, StepIsNoted DEF Live
<1>3. CASE r # p /\ q # p
  BY <1>3, StepIsNoted DEF Live, RebuildsAlone
<1> QED BY <1>1, <1>2, <1>3

\* A step outside the rebuild that leaves directories and data alone.
LEMMA OtherSteps ==
  ASSUME InstanceInv, NEW p \in Launches, NEW s \in LaunchPhases, StepTo(p, s),
         UNCHANGED <<dir, holds, defaults, split>>,
         phase[p] \notin Aside, s \notin Aside \cup {"drop"},
         s \in {"idle", "look", "aside"} => phase[p] \in {"idle", "look"}
  PROVE  DataInv'
<1> USE StepIsNoted DEF InstanceInv, LockInv, DataInv
<1>1. AsideIsOwn' /\ GoneIsEmpty'
  BY DEF AsideIsOwn, GoneIsEmpty, At, Aside
<1>2. RebuildsAlone'
  BY StepsLeaveRebuildsAlone
<1>3. NewRootFits'
  BY DEF NewRootFits
<1>4. Rebuilt'
  BY DEF Rebuilt
<1>5. NothingIsLost' /\ RepairsTakeOver'
  BY DEF NothingIsLost, RepairsTakeOver, At
<1> QED BY <1>1, <1>2, <1>3, <1>4, <1>5

-----------------------------------------------------------------------------
(* Launches: one lemma for each step *)

LEMMA LaunchFits ==
  ASSUME InstanceInv, NEW p \in Launches, Launch(p)
  PROVE  InstanceInv'
<1> USE DEF InstanceInv, LockInv, Primary, Repair, Aside, LaunchPhases
<1>1. InstanceTypeOK'
  BY StepIsNoted DEF InstanceTypeOK, Launch, reserved
<1>2. LockIsHeld'
  BY StepIsNoted DEF LockIsHeld, Launch
<1>3. RepairsAreOnWindows'
  BY StepIsNoted DEF RepairsAreOnWindows, Launch
<1>4. DataInv'
  BY OtherSteps DEF Launch, At
<1> QED BY <1>1, <1>2, <1>3, <1>4

LEMMA WaitFits ==
  ASSUME InstanceInv, NEW p \in Launches, Wait(p), ProcessIds
  PROVE  InstanceInv'
<1> USE DEF InstanceInv, LockInv, Primary, Repair, Aside, LaunchPhases
<1>1. InstanceTypeOK'
  BY StepIsNoted DEF InstanceTypeOK, Wait, reserved
<1>2. LockIsHeld'
  BY StepIsNoted DEF ProcessIds, LockIsHeld, Wait, TryLock
<1>3. RepairsAreOnWindows'
  BY StepIsNoted DEF RepairsAreOnWindows, Wait
<1>4. DataInv'
  BY OtherSteps DEF Wait, At
<1> QED BY <1>1, <1>2, <1>3, <1>4

LEMMA BindFits ==
  ASSUME InstanceInv, NEW p \in Launches, Bind(p)
  PROVE  InstanceInv'
<1> USE DEF InstanceInv, LockInv, Primary, Repair, Aside, LaunchPhases
<1>1. InstanceTypeOK'
  BY StepIsNoted DEF InstanceTypeOK, Bind, Leaves
<1>2. LockIsHeld'
  BY StepIsNoted DEF LockIsHeld, Bind, At
<1>3. RepairsAreOnWindows'
  BY StepIsNoted DEF RepairsAreOnWindows, Bind
<1>4. DataInv'
  BY OtherSteps DEF Bind, At
<1> QED BY <1>1, <1>2, <1>3, <1>4

LEMMA LoadTokenFits ==
  ASSUME InstanceInv, NEW p \in Launches, LoadToken(p)
  PROVE  InstanceInv'
<1> USE DEF InstanceInv, LockInv, Primary, Repair, Aside, LaunchPhases
<1>1. InstanceTypeOK'
  BY StepIsNoted DEF InstanceTypeOK, LoadToken
<1>2. LockIsHeld'
  BY StepIsNoted DEF LockIsHeld, LoadToken, At
<1>3. RepairsAreOnWindows'
  BY StepIsNoted DEF RepairsAreOnWindows, LoadToken
<1>4. DataInv'
  BY OtherSteps DEF LoadToken, At
<1> QED BY <1>1, <1>2, <1>3, <1>4

LEMMA QuitFits ==
  ASSUME InstanceInv, NEW p \in Launches, Quit(p)
  PROVE  InstanceInv'
<1> USE DEF InstanceInv, LockInv, Primary, Repair, Aside, LaunchPhases
<1>1. InstanceTypeOK'
  BY StepIsNoted DEF InstanceTypeOK, Quit, Leaves, reserved
<1>2. LockIsHeld'
  BY StepIsNoted DEF LockIsHeld, Quit, At
<1>3. RepairsAreOnWindows'
  BY StepIsNoted DEF RepairsAreOnWindows, Quit
<1>4. DataInv'
  BY OtherSteps DEF Quit, At
<1> QED BY <1>1, <1>2, <1>3, <1>4

LEMMA OpenLockFits ==
  ASSUME InstanceInv, NEW p \in Launches, OpenLock(p), ProcessIds
  PROVE  InstanceInv'
<1> USE DEF InstanceInv, LockInv, DataInv, Primary, Repair, Aside, LaunchPhases
<1>1. InstanceTypeOK'
  BY StepIsNoted DEF InstanceTypeOK, Owners, OpenLock
<1>2. LockIsHeld'
  BY StepIsNoted DEF ProcessIds, LockIsHeld, OpenLock
<1>3. RepairsAreOnWindows'
  BY StepIsNoted DEF RepairsAreOnWindows, OpenLock
<1>4. AsideIsOwn'
  BY StepIsNoted DEF ProcessIds, AsideIsOwn, At, OpenLock
<1>5. GoneIsEmpty'
  BY DEF GoneIsEmpty, OpenLock
<1>6. RebuildsAlone'
  BY StepsLeaveRebuildsAlone DEF OpenLock
<1>7. NewRootFits'
  BY StepIsNoted DEF NewRootFits, OpenLock
<1>8. Rebuilt'
  BY StepIsNoted DEF Rebuilt, At, OpenLock
<1>9. NothingIsLost'
  BY StepIsNoted DEF NothingIsLost, OpenLock
<1>10. RepairsTakeOver'
  BY StepIsNoted DEF RepairsTakeOver, At, OpenLock
<1> QED BY <1>1, <1>2, <1>3, <1>4, <1>5, <1>6, <1>7, <1>8, <1>9, <1>10

LEMMA LookFits ==
  ASSUME InstanceInv, NEW p \in Launches, Look(p), ProcessIds
  PROVE  InstanceInv'
<1> USE DEF InstanceInv, LockInv, DataInv, Primary, Repair, Aside, LaunchPhases
<1>1. InstanceTypeOK'
  BY StepIsNoted DEF InstanceTypeOK, Owners, Look, reserved
<1>2. LockIsHeld'
  BY StepIsNoted DEF LockIsHeld, Look
<1>3. RepairsAreOnWindows'
  BY StepIsNoted DEF RepairsAreOnWindows, Look, At
<1>4. AsideIsOwn'
  BY StepIsNoted DEF InstanceTypeOK, Places, ProcessIds, AsideIsOwn, At, Look
<1>5. GoneIsEmpty'
  BY DEF InstanceTypeOK, GoneIsEmpty, Look
<1>6. RebuildsAlone'
  BY StepsLeaveRebuildsAlone DEF Look
<1>7. NewRootFits'
  BY StepIsNoted DEF NewRootFits, Look
<1>8. Rebuilt'
  BY StepIsNoted DEF Rebuilt, At, Look
<1>9. NothingIsLost'
  BY StepIsNoted DEF NothingIsLost, Look
<1>10. RepairsTakeOver'
  BY StepIsNoted DEF InstanceTypeOK, Places, RepairsTakeOver, At, Look
<1> QED BY <1>1, <1>2, <1>3, <1>4, <1>5, <1>6, <1>7, <1>8, <1>9, <1>10

LEMMA DropFits ==
  ASSUME InstanceInv, NEW p \in Launches, Drop(p), ProcessIds
  PROVE  InstanceInv'
<1> USE DEF InstanceInv, LockInv, DataInv, Primary, Repair, Aside, LaunchPhases
<1>1. InstanceTypeOK'
  BY StepIsNoted DEF InstanceTypeOK, Owners, Drop
<1>2. LockIsHeld'
  BY StepIsNoted DEF LockIsHeld, Drop
<1>3. RepairsAreOnWindows'
  BY StepIsNoted DEF RepairsAreOnWindows, Drop
<1>4. AsideIsOwn'
  BY StepIsNoted DEF AsideIsOwn, At, Drop
<1>5. GoneIsEmpty'
  BY DEF GoneIsEmpty, Drop
<1>6. RebuildsAlone'
  BY StepsLeaveRebuildsAlone DEF Drop
<1>7. NewRootFits'
  BY StepIsNoted DEF NewRootFits, Drop
<1>8. Rebuilt'
  BY StepIsNoted DEF Rebuilt, At, Drop
<1>9. NothingIsLost'
  BY StepIsNoted DEF NothingIsLost, Drop
<1>10. RepairsTakeOver'
  BY StepIsNoted DEF RepairsTakeOver, Drop
<1> QED BY <1>1, <1>2, <1>3, <1>4, <1>5, <1>6, <1>7, <1>8, <1>9, <1>10

LEMMA SetupFits ==
  ASSUME InstanceInv, NEW p \in Launches, Setup(p), ProcessIds
  PROVE  InstanceInv'
<1> USE DEF InstanceInv, LockInv, DataInv, Primary, Repair, Aside, LaunchPhases
<1>1. InstanceTypeOK'
  BY StepIsNoted DEF InstanceTypeOK, Setup, reserved
<1>2. LockIsHeld'
  BY StepIsNoted DEF LockIsHeld, Setup, At
<1>3. RepairsAreOnWindows'
  BY StepIsNoted DEF RepairsAreOnWindows, Setup
<1>4. AsideIsOwn'
  BY StepIsNoted DEF AsideIsOwn, At, Setup
<1>5. GoneIsEmpty'
  BY DEF GoneIsEmpty, Setup
<1>6. RebuildsAlone'
  BY StepsLeaveRebuildsAlone DEF Setup
<1>7. NewRootFits'
  BY StepIsNoted DEF NewRootFits, Setup
<1>8. Rebuilt'
  BY StepIsNoted DEF Rebuilt, At, Setup
<1>9. NothingIsLost'
  BY StepIsNoted DEF NothingIsLost, Setup
<1>10. RepairsTakeOver'
  BY StepIsNoted DEF RepairsTakeOver, At, Setup
<1> QED BY <1>1, <1>2, <1>3, <1>4, <1>5, <1>6, <1>7, <1>8, <1>9, <1>10

LEMMA SetAsideFits ==
  ASSUME InstanceInv, NEW p \in Launches, SetAside(p), ProcessIds
  PROVE  InstanceInv'
<1> USE DEF InstanceInv, LockInv, DataInv, Primary, Repair, Aside, LaunchPhases
<1>1. InstanceTypeOK'
  BY StepIsNoted DEF InstanceTypeOK, Places, Owners, SetAside, reserved, Rename, NoReserved
<1>2. LockIsHeld'
  BY StepIsNoted DEF LockIsHeld, RepairsAreOnWindows, SetAside, At, InUse
<1>3. RepairsAreOnWindows'
  BY StepIsNoted DEF RepairsAreOnWindows, SetAside, At
<1>4. AsideIsOwn'
  BY StepIsNoted DEF InstanceTypeOK, Places, ProcessIds, AsideIsOwn, At, SetAside, Rename
<1>5. GoneIsEmpty'
  BY DEF InstanceTypeOK, Places, GoneIsEmpty, SetAside, Rename
<1>6. RebuildsAlone'
  BY StepsLeaveRebuildsAlone DEF SetAside
<1>7. NewRootFits'
  BY StepIsNoted DEF NewRootFits, SetAside
<1>8. Rebuilt'
  BY StepIsNoted DEF InstanceTypeOK, Places, Rebuilt, At, SetAside, Rename
<1>9. NothingIsLost'
  BY StepIsNoted DEF InstanceTypeOK, Places, NothingIsLost, AsideIsOwn, At, SetAside, Rename
<1>10. RepairsTakeOver'
  BY StepIsNoted DEF RepairsTakeOver, Live, At, SetAside
<1> QED BY <1>1, <1>2, <1>3, <1>4, <1>5, <1>6, <1>7, <1>8, <1>9, <1>10

LEMMA RecreateFits ==
  ASSUME InstanceInv, NEW p \in Launches, Recreate(p), ProcessIds
  PROVE  InstanceInv'
<1> USE DEF InstanceInv, LockInv, DataInv, Primary, Repair, Aside, LaunchPhases
<1>1. InstanceTypeOK'
  BY StepIsNoted DEF InstanceTypeOK, Places, Owners, Recreate, reserved, Rename
<1>2. LockIsHeld'
  BY StepIsNoted DEF LockIsHeld, Recreate
<1>3. RepairsAreOnWindows'
  BY StepIsNoted DEF RepairsAreOnWindows, Recreate, At
<1>4. AsideIsOwn'
  BY StepIsNoted DEF InstanceTypeOK, Places, ProcessIds, AsideIsOwn, At, Recreate, Rename
<1>5. GoneIsEmpty'
  BY DEF InstanceTypeOK, Places, GoneIsEmpty, AsideIsOwn, At, Recreate, Rename
<1>6. RebuildsAlone'
  BY StepsLeaveRebuildsAlone DEF Recreate
<1>7. NewRootFits'
  BY StepIsNoted DEF NewRootFits, At, Recreate
<1>8. Rebuilt'
  BY StepIsNoted DEF InstanceTypeOK, Places, ProcessIds, Rebuilt, AsideIsOwn, GoneIsEmpty, NewRootFits,
     RebuildsAlone, Live, At, Recreate, LaunchFails, reserved, Rename
<1>9. NothingIsLost'
  BY StepIsNoted DEF InstanceTypeOK, Places, NothingIsLost, GoneIsEmpty, Recreate, Rename
<1>10. RepairsTakeOver'
  BY StepIsNoted DEF RepairsTakeOver, At, Recreate
<1> QED BY <1>1, <1>2, <1>3, <1>4, <1>5, <1>6, <1>7, <1>8, <1>9, <1>10

LEMMA TakeOverFits ==
  ASSUME InstanceInv, NEW p \in Launches, TakeOver(p), ProcessIds
  PROVE  InstanceInv'
<1> USE DEF InstanceInv, LockInv, DataInv, Primary, Repair, Aside, LaunchPhases
<1>1. InstanceTypeOK'
  BY StepIsNoted DEF InstanceTypeOK, Owners, TakeOver, reserved
<1>2. LockIsHeld'
  BY StepIsNoted DEF LockIsHeld, TakeOver
<1>3. RepairsAreOnWindows'
  BY StepIsNoted DEF RepairsAreOnWindows, TakeOver, At
<1>4. AsideIsOwn'
  BY StepIsNoted DEF InstanceTypeOK, Places, AsideIsOwn, At, TakeOver
<1>5. GoneIsEmpty'
  BY DEF InstanceTypeOK, GoneIsEmpty, TakeOver
<1>6. RebuildsAlone'
  BY StepsLeaveRebuildsAlone DEF TakeOver
<1>7. NewRootFits'
  BY StepIsNoted DEF InstanceTypeOK, Places, NewRootFits, At, TakeOver
<1>8. Rebuilt'
  BY StepIsNoted DEF InstanceTypeOK, Places, Rebuilt, TakeOver
<1>9. NothingIsLost'
  BY StepIsNoted DEF NothingIsLost, TakeOver
<1>10. RepairsTakeOver'
  BY StepIsNoted DEF InstanceTypeOK, RepairsTakeOver, At, TakeOver
<1> QED BY <1>1, <1>2, <1>3, <1>4, <1>5, <1>6, <1>7, <1>8, <1>9, <1>10

LEMMA MoveInFits ==
  ASSUME InstanceInv, NEW p \in Launches, MoveIn(p), ProcessIds
  PROVE  InstanceInv'
<1> USE DEF InstanceInv, LockInv, DataInv, Primary, Repair, Aside, LaunchPhases
<1>1. InstanceTypeOK'
  BY StepIsNoted DEF InstanceTypeOK, Places, MoveIn, reserved
<1>2. LockIsHeld'
  BY StepIsNoted DEF LockIsHeld, MoveIn
<1>3. RepairsAreOnWindows'
  BY StepIsNoted DEF RepairsAreOnWindows, MoveIn, At
<1>4. AsideIsOwn'
  BY StepIsNoted DEF InstanceTypeOK, Places, ProcessIds, AsideIsOwn, At, MoveIn
<1>5. GoneIsEmpty'
  BY DEF GoneIsEmpty, MoveIn
<1>6. RebuildsAlone'
  BY StepsLeaveRebuildsAlone DEF MoveIn
<1>7. NewRootFits'
  BY StepIsNoted DEF NewRootFits, At, MoveIn
<1>8. Rebuilt'
  BY StepIsNoted DEF InstanceTypeOK, Places, Rebuilt, MoveIn
<1>9. NothingIsLost'
  BY StepIsNoted DEF InstanceTypeOK, Places, NothingIsLost, MoveIn
<1>10. RepairsTakeOver'
  BY StepIsNoted DEF RepairsTakeOver, At, MoveIn
<1> QED BY <1>1, <1>2, <1>3, <1>4, <1>5, <1>6, <1>7, <1>8, <1>9, <1>10

LEMMA RestoreFits ==
  ASSUME InstanceInv, NEW p \in Launches, Restore(p), ProcessIds
  PROVE  InstanceInv'
<1> USE DEF InstanceInv, LockInv, DataInv, Primary, Repair, Aside, LaunchPhases
<1>1. InstanceTypeOK'
  BY StepIsNoted DEF InstanceTypeOK, Places, Owners, Restore, reserved, Return, NoReserved
<1>2. LockIsHeld'
  BY StepIsNoted DEF LockIsHeld, RepairsAreOnWindows, Restore, At, Return, InUse
<1>3. RepairsAreOnWindows'
  BY StepIsNoted DEF RepairsAreOnWindows, Restore, At, Return
<1>4. AsideIsOwn'
  BY StepIsNoted DEF InstanceTypeOK, Places, ProcessIds, AsideIsOwn, At, Restore, Return
<1>5. GoneIsEmpty'
  BY DEF InstanceTypeOK, Places, GoneIsEmpty, AsideIsOwn, At, Restore, Return
<1>6. RebuildsAlone'
  BY StepsLeaveRebuildsAlone DEF Restore, Return
<1>7. NewRootFits'
  BY StepIsNoted DEF NewRootFits, At, Restore, Return
<1>8. Rebuilt'
  <2> SUFFICES ASSUME ~crowded', ~split'
      PROVE  /\ \A q \in Launches : phase'[q] \in Aside => holds'[q] \cup holds'[Root] = Data
             /\ (\A q \in Launches : phase'[q] \notin Aside) => holds'[Root] = Data /\ defaults' = {}
    BY DEF Rebuilt
  <2>1. ~crowded /\ defaults = {} /\ \A q \in Launches \ {p} : phase'[q] \notin Aside
    BY StepIsNoted DEF Restore, Return, At, NewRootFits
  <2>2. ~split /\ Return(p)
    BY DEF Restore, Return
  <2>. holds[p] \cup holds[Root] = Data
    BY <2>1, <2>2 DEF Restore, Rebuilt, At
  <2>3. CASE phase'[p] = "restore"
    BY <2>1, <2>2, <2>3 DEF Return, InstanceTypeOK, Places
  <2>4. CASE phase'[p] = "start"
    BY <2>1, <2>2, <2>4, StepIsNoted DEF Return, InstanceTypeOK, Places
  <2> QED BY <2>2, <2>3, <2>4, StepIsNoted DEF Return
<1>9. NothingIsLost'
  BY StepIsNoted DEF InstanceTypeOK, Places, NothingIsLost, NewRootFits, At, Restore, Return
<1>10. RepairsTakeOver'
  <2> SUFFICES ASSUME ~crowded', NEW q \in Launches, phase'[q] = "drop"
      PROVE  FALSE
    BY DEF RepairsTakeOver, At
  <2>1. q # p /\ phase[q] = "drop" /\ ~crowded
    BY StepIsNoted DEF Restore, Return
  <2> QED BY <2>1 DEF RebuildsAlone, Restore, At, Live
<1> QED BY <1>1, <1>2, <1>3, <1>4, <1>5, <1>6, <1>7, <1>8, <1>9, <1>10

LEMMA DiscardFits ==
  ASSUME InstanceInv, NEW p \in Launches, Discard(p), ProcessIds
  PROVE  InstanceInv'
<1> USE DEF InstanceInv, LockInv, DataInv, Primary, Repair, Aside, LaunchPhases
<1>1. InstanceTypeOK'
  BY StepIsNoted DEF InstanceTypeOK, Owners, Discard, reserved
<1>2. LockIsHeld'
  BY StepIsNoted DEF LockIsHeld, Discard
<1>3. RepairsAreOnWindows'
  BY StepIsNoted DEF RepairsAreOnWindows, Discard, At
<1>4. AsideIsOwn'
  BY StepIsNoted DEF InstanceTypeOK, Places, AsideIsOwn, At, Discard
<1>5. GoneIsEmpty'
  BY DEF InstanceTypeOK, Places, GoneIsEmpty, Discard
<1>6. RebuildsAlone'
  BY StepsLeaveRebuildsAlone DEF Discard
<1>7. NewRootFits'
  BY StepIsNoted DEF NewRootFits, Discard
<1>8. Rebuilt'
  BY StepIsNoted DEF InstanceTypeOK, Places, ProcessIds, Rebuilt, AsideIsOwn, NewRootFits,
     RebuildsAlone, At, Discard, LaunchFails, reserved
<1>9. NothingIsLost'
  BY StepIsNoted DEF InstanceTypeOK, NothingIsLost, AsideIsOwn, Discard
<1>10. RepairsTakeOver'
  BY StepIsNoted DEF InstanceTypeOK, Places, ProcessIds, RepairsTakeOver, NewRootFits, At, Discard
<1> QED BY <1>1, <1>2, <1>3, <1>4, <1>5, <1>6, <1>7, <1>8, <1>9, <1>10

LEMMA KilledFits ==
  ASSUME InstanceInv, NEW p \in Launches, LaunchKilled(p), ProcessIds
  PROVE  InstanceInv'
<1> USE DEF InstanceInv, LockInv, DataInv, Primary, Repair, Aside, LaunchPhases
<1>1. InstanceTypeOK'
  BY DEF InstanceTypeOK, LaunchKilled, Leaves, reserved
<1>2. LockIsHeld'
  BY DEF LockIsHeld, InstanceTypeOK, LaunchKilled, Leaves
<1>3. RepairsAreOnWindows'
  BY DEF RepairsAreOnWindows, LaunchKilled
<1>4. AsideIsOwn'
  BY DEF AsideIsOwn, At, LaunchKilled
<1>5. GoneIsEmpty'
  BY DEF GoneIsEmpty, LaunchKilled
<1>6. RebuildsAlone'
  BY DEF RebuildsAlone, LaunchKilled, InstanceTypeOK
<1>7. NewRootFits'
  BY DEF NewRootFits, LaunchKilled
<1>8. Rebuilt'
  <2> SUFFICES ASSUME ~crowded, ~split'
      PROVE  /\ \A q \in Launches : phase'[q] \in Aside => holds[q] \cup holds[Root] = Data
             /\ (\A q \in Launches : phase'[q] \notin Aside) => holds[Root] = Data /\ defaults = {}
    BY DEF Rebuilt, LaunchKilled
  <2>1. ~split /\ phase[p] \notin Aside \ {"discard"}
    BY DEF LaunchKilled
  <2>2. CASE phase[p] = "discard"
    <3>1. holds[p] = {} /\ holds[Root] = Data /\ defaults = {}
      BY <2>1, <2>2 DEF AsideIsOwn, At, Rebuilt, NewRootFits
    <3>2. \A q \in Launches : phase'[q] \notin Aside
      BY <2>2 DEF LaunchKilled, InstanceTypeOK, RebuildsAlone
    <3> QED BY <3>1, <3>2
  <2>3. CASE phase[p] \notin Aside
    BY <2>1, <2>3 DEF LaunchKilled, Rebuilt
  <2> QED BY <2>1, <2>2, <2>3
<1>9. NothingIsLost'
  BY DEF NothingIsLost, LaunchKilled
<1>10. RepairsTakeOver'
  BY DEF RepairsTakeOver, At, LaunchKilled
<1> QED BY <1>1, <1>2, <1>3, <1>4, <1>5, <1>6, <1>7, <1>8, <1>9, <1>10

LEMMA StartFits == ASSUME InstanceInit, ProcessIds PROVE InstanceInv
<1> USE DEF InstanceInit, ProcessIds, Places, LaunchPhases, Owners, Primary, Repair, Aside, reserved, launchHistory, launchCounts
<1>1. LockInv
  BY DEF LockInv, InstanceTypeOK, LockIsHeld, RepairsAreOnWindows
<1>2. AsideIsOwn /\ GoneIsEmpty /\ NothingIsLost
  BY DEF AsideIsOwn, GoneIsEmpty, NothingIsLost
<1>3. RebuildsAlone /\ NewRootFits /\ Rebuilt /\ RepairsTakeOver
  BY DEF RebuildsAlone, NewRootFits, Rebuilt, RepairsTakeOver, At
<1> QED BY <1>1, <1>2, <1>3 DEF InstanceInv, DataInv

LEMMA RestFits == ASSUME InstanceInv, UNCHANGED instanceVars PROVE InstanceInv'
BY DEF InstanceInv, LockInv, DataInv, instanceVars, reserved, launchHistory, InstanceTypeOK, LockIsHeld,
   RepairsAreOnWindows, AsideIsOwn, GoneIsEmpty, RebuildsAlone, NewRootFits, Rebuilt, NothingIsLost,
   RepairsTakeOver, At, Live

LEMMA StepsFit == ASSUME InstanceInv, ProcessIds, InstanceNext PROVE InstanceInv'
<1> PICK p \in Launches :
        \/ Launch(p) \/ Look(p) \/ SetAside(p) \/ Recreate(p) \/ TakeOver(p) \/ MoveIn(p) \/ Restore(p)
        \/ Discard(p) \/ Drop(p) \/ OpenLock(p) \/ Wait(p) \/ Bind(p) \/ Setup(p) \/ LoadToken(p)
        \/ Quit(p) \/ LaunchKilled(p)
  BY DEF InstanceNext
<1> QED BY LaunchFits, LookFits, SetAsideFits, RecreateFits, TakeOverFits, MoveInFits, RestoreFits,
           DiscardFits, DropFits, OpenLockFits, WaitFits, BindFits, SetupFits, LoadTokenFits, QuitFits,
           KilledFits

-----------------------------------------------------------------------------
(* Launches: the theorems *)

\* Whatever fails, is killed or races: one primary holds the lock, and a rebuild of the data
\* directory that nobody else runs beside keeps old and new directory complete.
THEOREM LaunchesKeepTheData == ProcessIds => (InstanceSpec => []InstanceInv)
<1> SUFFICES ASSUME ProcessIds PROVE InstanceSpec => []InstanceInv
  OBVIOUS
<1>1. InstanceInit => InstanceInv
  BY StartFits
<1>2. InstanceInv /\ [InstanceNext]_instanceVars => InstanceInv'
  BY StepsFit, RestFits
<1> QED BY <1>1, <1>2, PTL DEF InstanceSpec

\* At most one launch is the primary; nothing of the user's is deleted or replaced, and the
\* primary finds all of it unless the restore itself failed or was killed; what is repaired
\* belongs to the user.
THEOREM StartsAreAlwaysSafe == ProcessIds => (InstanceSpec => []StartsAreSafe)
<1> SUFFICES ASSUME ProcessIds PROVE InstanceSpec => []StartsAreSafe
  OBVIOUS
<1>1. InstanceInv => StartsAreSafe
  <2> SUFFICES ASSUME InstanceInv PROVE OnePrimary /\ NothingIsSplit
    BY DEF InstanceInv, LockInv, DataInv, StartsAreSafe
  <2>1. OnePrimary
    BY DEF InstanceInv, LockInv, LockIsHeld, OnePrimary
  <2>2. NothingIsSplit
    <3> SUFFICES ASSUME ~crowded, ~split, NEW p \in Launches, phase[p] \in Primary
        PROVE  holds[Root] = Data /\ defaults = {}
      BY DEF NothingIsSplit
    <3>1. \A q \in Launches : phase[q] \notin Aside
      BY DEF InstanceInv, DataInv, RebuildsAlone, Live, Primary, Aside
    <3> QED BY <3>1 DEF InstanceInv, DataInv, Rebuilt
  <2> QED BY <2>1, <2>2
<1> QED BY <1>1, LaunchesKeepTheData, PTL

=============================================================================
