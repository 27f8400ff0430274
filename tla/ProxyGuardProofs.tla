--------------------------- MODULE ProxyGuardProofs ---------------------------
(***************************************************************************)
(* Theorems about what the system and the user see of the application:     *)
(* ProxyGuard, for any targets, settings, number of jobs and of failures,  *)
(* on macOS and elsewhere; the tray, the latency monitor, the window and   *)
(* the hotkeys, for any callers, tasks, profiles, keys and bounds.         *)
(***************************************************************************)
EXTENDS ProxyGuard, Interface, SequenceTheorems, FiniteSetTheorems, TLAPS

-----------------------------------------------------------------------------
(* The inductive invariant *)

\* What a job may still have to do.
Outlooks == { <<>>, <<"apply", "refresh">>, <<"refresh">>, <<"clear", "stop core">>, <<"stop core">>,
              <<"stop guard", "stop core">>, <<"stop guard", "try clear", "halt">>, <<"stop guard", "halt">>,
              <<"try clear", "halt">>, <<"halt">>, <<"try clear", "stop guard">>, <<"stop guard">> }

\* The call the job is in; "halting" is the clear for a lost owner, past its guards.
First(cs) == IF cs = <<>> THEN "rest"
             ELSE IF cs = <<"try clear", "halt">> THEN "halting" ELSE Head(cs)
Doing == First(calls)

Clearing == Doing \in {"clear", "try clear", "halting"}

\* Which places each call has, and on which route.
PlacesFit ==
    /\ calls \in Outlooks /\ (Doing = "rest" => step = "begin")
    /\ Doing = "apply" => /\ step \in {"begin", "drain", "lock", "request", "write"}
                          /\ step \in {"lock", "request"} => Route = "Service"
                          /\ step = "write" => Route = "Local"
    /\ Doing = "refresh" => step \in {"begin", "lock", "drain", "guard"}
    /\ Clearing => /\ step \in {"begin", "lock", "request", "drain", "write", "drain again", "write again"}
                   /\ step \in {"lock", "request"} => Route = "Service"
                   /\ step \in {"drain", "write", "drain again", "write again"} => Route = "Local"
    /\ Doing = "stop guard" => step \in {"begin", "lock", "drain"}
    /\ Doing \in {"stop core", "halt"} => step = "begin"

\* An apply is for a core that runs, and no patch changes under it what is wanted.
JobsFit ==
    Doing \in {"apply", "refresh"} =>
        patch \in {"idle", "applying"} /\ (verge.proxy # "off" => mode # "NotRunning")

\* Once applied, the setting is what the guard will be pointed at.
AppliedFit ==
    Doing = "refresh" =>
        /\ asked = verge.proxy
        /\ Route = "Local" => local.target = (IF GuardWanted THEN verge.proxy ELSE NoTarget)

\* Where the local guard was shut down.
Shut ==
    \/ Doing \in {"refresh", "stop core", "halt", "halting"}
    \/ (Doing = "apply" \/ Clearing) /\ step # "begin"
    \/ Doing = "stop guard" /\ step = "drain"
    \/ Clearing /\ Route = "Service"

\* The local guard runs, or an apply that fails will start it again.
WillRun == Running \/ (Doing = "apply" /\ step \in {"drain", "write"} /\ wasRunning)

\* No guard of the Service is of the current generation.
Fresh == \A g \in guards : g.gen < gen

LocalFits ==
    /\ Shut => ~Running /\ (step \notin {"drain", "drain again"} /\ drained => ~local.runs)
    /\ local.writing # NoTarget => local.runs
    /\ WillRun => /\ Fresh /\ mode # "NotRunning"
                  /\ local.target # NoTarget => local.target = asked

NoRequest == \A g \in guards : g.pc # "requesting"

\* The job has operation_lock.
Locked == step = "request" \/ (Doing \in {"refresh", "stop guard"} /\ step = "drain")

\* A request of a guard holds operation_lock and asks for what the setting is; a job
\* withdraws the generation before it queues, and ends a core when no request is left.
RequestsFit ==
    /\ \A g \in guards : g.pc = "requesting" => lock = "guard" /\ mode = "Service" /\ g.target = asked
    /\ \A g, h \in guards : g.pc = "requesting" /\ h.pc = "requesting" => g = h
    /\ Locked => lock = "job"
    /\ Locked \/ step \in {"lock", "guard"} => Fresh
    /\ Doing \in {"stop core", "halt", "halting"} /\ Route = "Service" => Fresh /\ NoRequest

\* Guards of the Service: one a generation, none older than its session.
GuardsFit ==
    /\ guards # {} => IsMacOS
    /\ session <= jobs
    /\ \A g \in guards : g.gen <= gen /\ g.proof <= jobs
    /\ \A g, h \in guards : g.gen = h.gen => g = h
    /\ \A g \in ServiceGuards : g.target = asked
    /\ notice => ServiceGuards = {}

\* A target that is set or being set is what was asked for, but for a write that hung.
SettingFits ==
    /\ os \in Targets => os = asked \/ loose
    /\ local.writing # NoTarget => local.writing = asked \/ loose

IInv == PlacesFit /\ JobsFit /\ AppliedFit /\ LocalFits /\ RequestsFit /\ GuardsFit /\ SettingFits

-----------------------------------------------------------------------------
(* Calls and how they end *)

LEMMA TailOfTwo ==
    ASSUME NEW a, NEW b PROVE Len(<<a, b>>) = 2 /\ Tail(<<a, b>>) = <<b>>
OBVIOUS

LEMMA TailOfThree ==
    ASSUME NEW a, NEW b, NEW c
    PROVE  Len(<<a, b, c>>) = 3 /\ Tail(<<a, b, c>>) = <<b, c>>
<1>. DEFINE s == <<a, b, c>>
            t == Tail(s)
<1>1. s \in Seq({a, b, c}) /\ s # <<>> /\ Len(s) = 3 /\ s[2] = b /\ s[3] = c
  OBVIOUS
<1>. HIDE DEF s
<1>2. t \in Seq({a, b, c}) /\ Len(t) = 2 /\ \A i \in 1 .. Len(t) : t[i] = s[i + 1]
  BY <1>1, HeadTailProperties
<1>. HIDE DEF t
<1>3. t[1] = s[1 + 1] /\ t[2] = s[2 + 1]
  BY <1>2
<1>4. t[1] = b /\ t[2] = c
  BY <1>1, <1>3
<1>5. t = <<b, c>>
  BY <1>2, <1>4
<1>. QED BY <1>1, <1>5 DEF s, t

LEMMA OutlookHeads ==
    /\ Head(<<"apply", "refresh">>) = "apply" /\ Head(<<"refresh">>) = "refresh"
    /\ Head(<<"clear", "stop core">>) = "clear" /\ Head(<<"stop core">>) = "stop core"
    /\ Head(<<"stop guard", "stop core">>) = "stop guard"
    /\ Head(<<"stop guard", "try clear", "halt">>) = "stop guard"
    /\ Head(<<"stop guard", "halt">>) = "stop guard" /\ Head(<<"stop guard">>) = "stop guard"
    /\ Head(<<"try clear", "halt">>) = "try clear" /\ Head(<<"halt">>) = "halt"
    /\ Head(<<"try clear", "stop guard">>) = "try clear"
OBVIOUS

LEMMA OutlookTails ==
    /\ Tail(<<"apply", "refresh">>) = <<"refresh">> /\ Len(<<"apply", "refresh">>) = 2
    /\ Tail(<<"clear", "stop core">>) = <<"stop core">> /\ Len(<<"clear", "stop core">>) = 2
    /\ Tail(<<"stop guard", "stop core">>) = <<"stop core">> /\ Len(<<"stop guard", "stop core">>) = 2
    /\ Tail(<<"stop guard", "try clear", "halt">>) = <<"try clear", "halt">>
    /\ Len(<<"stop guard", "try clear", "halt">>) = 3
    /\ Tail(<<"stop guard", "halt">>) = <<"halt">> /\ Len(<<"stop guard", "halt">>) = 2
    /\ Tail(<<"try clear", "halt">>) = <<"halt">> /\ Len(<<"try clear", "halt">>) = 2
    /\ Tail(<<"try clear", "stop guard">>) = <<"stop guard">> /\ Len(<<"try clear", "stop guard">>) = 2
    /\ Len(<<"refresh">>) = 1 /\ Len(<<"stop core">>) = 1 /\ Len(<<"halt">>) = 1 /\ Len(<<"stop guard">>) = 1
<1>1. \A a, b : Len(<<a, b>>) = 2 /\ Tail(<<a, b>>) = <<b>>
  BY TailOfTwo
<1>2. \A a, b, c : Len(<<a, b, c>>) = 3 /\ Tail(<<a, b, c>>) = <<b, c>>
  BY TailOfThree
<1>3. \A a : Len(<<a>>) = 1
  OBVIOUS
<1>. QED BY <1>1, <1>2, <1>3, Zenon

LEMMA OutlooksAreCalls == Outlooks \subseteq Seq(Calls)
BY DEF Outlooks, Calls

\* The call of an outlook.
LEMMA Firsts ==
    /\ First(<<>>) = "rest" /\ First(<<"apply", "refresh">>) = "apply" /\ First(<<"refresh">>) = "refresh"
    /\ First(<<"clear", "stop core">>) = "clear" /\ First(<<"stop core">>) = "stop core"
    /\ First(<<"stop guard", "stop core">>) = "stop guard" /\ First(<<"stop guard", "halt">>) = "stop guard"
    /\ First(<<"stop guard", "try clear", "halt">>) = "stop guard" /\ First(<<"stop guard">>) = "stop guard"
    /\ First(<<"try clear", "halt">>) = "halting" /\ First(<<"halt">>) = "halt"
    /\ First(<<"try clear", "stop guard">>) = "try clear"
BY OutlookHeads DEF First

LEMMA Heads ==
    ASSUME calls \in Outlooks
    PROVE  /\ AtRest <=> Doing = "rest"
           /\ ~AtRest => Head(calls) = (IF Doing = "halting" THEN "try clear" ELSE Doing)
           /\ Doing \in {"rest", "apply", "refresh", "clear", "stop core", "stop guard", "try clear",
                         "halting", "halt"}
BY OutlookHeads, Firsts DEF Outlooks, Doing, AtRest

\* What a job does once a call of it returned.
Onward ==
    \/ Doing' = "rest"
    \/ Doing = "apply" /\ Doing' = "refresh" /\ patch' = patch
    \/ Doing \in {"apply", "refresh"} /\ Doing' = "try clear"
    \/ Doing = "clear" /\ Doing' = "stop core"
    \/ Doing = "stop guard" /\ Doing' \in {"stop core", "halt", "halting"}
    \/ Doing = "halting" /\ Doing' = "halt"
    \/ Doing = "try clear" /\ Doing' = "stop guard"

LEMMA Returns ==
    ASSUME calls \in Outlooks, calls # <<>>, Return
    PROVE  step' = "begin" /\ calls' \in Outlooks /\ Onward
<1>. USE OutlookHeads, OutlookTails, Firsts DEF Return, EndJob, Doing, Onward
<1>1. CASE calls = <<"apply", "refresh">>
  BY <1>1 DEF Outlooks
<1>2. CASE calls \in {<<"refresh">>, <<"stop core">>, <<"halt">>, <<"stop guard">>}
  BY <1>2 DEF Outlooks
<1>3. CASE calls = <<"clear", "stop core">>
  BY <1>3 DEF Outlooks
<1>4. CASE calls \in {<<"stop guard", "stop core">>, <<"stop guard", "try clear", "halt">>, <<"stop guard", "halt">>}
  BY <1>4 DEF Outlooks
<1>5. CASE calls \in {<<"try clear", "halt">>, <<"try clear", "stop guard">>}
  BY <1>5 DEF Outlooks
<1>. QED BY <1>1, <1>2, <1>3, <1>4, <1>5 DEF Outlooks

-----------------------------------------------------------------------------
(* Types *)

LocalGuard == [runs : BOOLEAN, stopping : BOOLEAN,
               target : Targets \cup {NoTarget}, writing : Targets \cup {NoTarget}]

PatchStates == {"idle", "staged", "applying", "applied", "failed"}

ControlTypes ==
    /\ verge \in Wishes /\ before \in Wishes /\ patch \in PatchStates
    /\ calls \in Outlooks /\ step \in Steps
    /\ checked \in BOOLEAN /\ drained \in BOOLEAN /\ wasRunning \in BOOLEAN /\ jobs \in Nat

CoreTypes == mode \in {"NotRunning", "Service", "Sidecar"} /\ session \in Nat /\ svc \in Nat

GuardTypes ==
    gen \in Nat /\ lock \in {"free", "job", "guard"} /\ guards \subseteq Guards /\ notice \in BOOLEAN

LocalTypes == local \in LocalGuard

SettingTypes ==
    os \in Targets \cup {"off", "foreign"} /\ asked \in Targets \cup {"off"} /\ loose \in BOOLEAN

Types == ControlTypes /\ CoreTypes /\ GuardTypes /\ LocalTypes /\ SettingTypes

LEMMA TypesAreTypeOK == Types => TypeOK
BY OutlooksAreCalls
   DEF Types, TypeOK, ControlTypes, CoreTypes, GuardTypes, LocalTypes, SettingTypes, LocalGuard, PatchStates

\* The words the local guard is told, and what it then is.
LEMMA LocalWords ==
    ASSUME LocalTypes
    PROVE  /\ ShutDown \in LocalGuard
           /\ ShutDown.runs = (local.runs /\ local.writing # NoTarget) /\ ShutDown.stopping = local.runs
           /\ ShutDown.target = local.target /\ ShutDown.writing = local.writing
           /\ Started \in LocalGuard /\ Started.runs = TRUE
           /\ Started.stopping = (local.runs /\ local.stopping)
           /\ Started.target = local.target /\ Started.writing = local.writing
           /\ \A t \in Targets \cup {NoTarget} :
                /\ Pointed(t) \in LocalGuard /\ Pointed(t).target = t /\ Pointed(t).writing = local.writing
                /\ Pointed(t).runs = local.runs /\ Pointed(t).stopping = local.stopping
<1>. USE DEF LocalTypes, LocalGuard
<1>1. /\ ShutDown \in LocalGuard
      /\ ShutDown.runs = (local.runs /\ local.writing # NoTarget) /\ ShutDown.stopping = local.runs
      /\ ShutDown.target = local.target /\ ShutDown.writing = local.writing
  BY DEF ShutDown
<1>2. /\ Started \in LocalGuard /\ Started.runs = TRUE
      /\ Started.stopping = (local.runs /\ local.stopping)
      /\ Started.target = local.target /\ Started.writing = local.writing
  BY DEF Started
<1>3. ASSUME NEW t \in Targets \cup {NoTarget}
      PROVE  /\ Pointed(t) \in LocalGuard /\ Pointed(t).target = t /\ Pointed(t).writing = local.writing
             /\ Pointed(t).runs = local.runs /\ Pointed(t).stopping = local.stopping
  BY DEF Pointed
<1>. QED BY <1>1, <1>2, <1>3

\* What the loop of the local guard does to it.
LEMMA LoopWords ==
    ASSUME LocalTypes, LocalStep
    PROVE  /\ local' \in LocalGuard /\ local'.target = local.target
           /\ \/ /\ Running /\ local.target # NoTarget /\ local.writing = NoTarget
                 /\ local'.runs = local.runs /\ local'.stopping = local.stopping
                 /\ local'.writing = local.target /\ os' = os
              \/ /\ local.writing # NoTarget /\ os' = local.writing
                 /\ local'.runs = ~local.stopping /\ local'.stopping = FALSE
                 /\ local'.writing = NoTarget
<1>1. CASE LocalBegins
  BY <1>1 DEF LocalTypes, LocalGuard, LocalBegins
<1>2. CASE LocalWrites
  BY <1>2 DEF LocalTypes, LocalGuard, LocalWrites
<1>. QED BY <1>1, <1>2 DEF LocalStep

\* A guard of the Service keeps its generation, its session and its target.
Same(h, g) == h \in Guards /\ h.gen = g.gen /\ h.proof = g.proof /\ h.target = g.target

LEMMA GuardWords ==
    ASSUME GuardTypes, NEW g \in guards, GuardStep(g)
    PROVE  \/ /\ guards' = guards \ {g} /\ lock' = lock /\ os' = os
              /\ g.pc \in {"sleeping", "reporting"}
              /\ notice' = notice \/ (g.pc = "reporting" /\ notice' = (notice \/ g.gen = gen))
           \/ \E h : /\ guards' = (guards \ {g}) \cup {h} /\ Same(h, g) /\ notice' = notice
                     /\ \/ g.pc = "sleeping" /\ lock = "free" /\ lock' = "guard" /\ Current(g)
                           /\ h.pc = "requesting" /\ os' = os
                        \/ g.pc = "requesting" /\ lock' = "free" /\ h.pc \in {"sleeping", "reporting"}
                           /\ os' \in {os, "off", g.target}
<1>0. g \in Guards /\ FailuresBeforeStopping \in Nat
  BY ProxyGuardAssumption DEF GuardTypes
<1>1. CASE GuardAsks(g)
  <2>. DEFINE h == [g EXCEPT !.pc = "requesting"]
  <2>1. Same(h, g) /\ h.pc = "requesting"
    BY <1>0 DEF Guards, Same
  <2>2. g.pc = "sleeping" /\ lock = "free" /\ notice' = notice /\ os' = os
    BY <1>1 DEF GuardAsks
  <2>3. \/ Current(g) /\ lock' = "guard" /\ guards' = (guards \ {g}) \cup {h}
        \/ lock' = lock /\ guards' = guards \ {g}
    BY <1>1 DEF GuardAsks
  <2>. HIDE DEF h
  <2>. QED BY <2>1, <2>2, <2>3
<1>2. CASE GuardWrites(g)
  <2>. DEFINE h == [g EXCEPT !.pc = "sleeping", !.failures = 0]
  <2>1. Same(h, g) /\ h.pc = "sleeping"
    BY <1>0 DEF Guards, Same
  <2>2. /\ g.pc = "requesting" /\ lock' = "free" /\ notice' = notice /\ os' = g.target
        /\ guards' = (guards \ {g}) \cup {h}
    BY <1>2 DEF GuardWrites
  <2>. HIDE DEF h
  <2>. QED BY <2>1, <2>2
<1>3. CASE GuardFails(g)
  <2>. DEFINE n == g.failures + 1
              next == IF n < FailuresBeforeStopping THEN "sleeping" ELSE "reporting"
              h == [g EXCEPT !.failures = n, !.pc = next]
  <2>0. n \in Nat /\ next \in {"sleeping", "reporting"}
    BY <1>0 DEF Guards
  <2>1. Same(h, g) /\ h.pc \in {"sleeping", "reporting"}
    <3>. HIDE DEF n, next
    <3>. QED BY <1>0, <2>0 DEF Guards, Same
  <2>2. /\ g.pc = "requesting" /\ lock' = "free" /\ notice' = notice /\ os' \in {os, "off"}
        /\ guards' = (guards \ {g}) \cup {h}
    BY <1>3 DEF GuardFails, AfterFailure
  <2>. HIDE DEF h
  <2>. QED BY <2>1, <2>2
<1>4. CASE GuardReports(g)
  BY <1>0, <1>4 DEF GuardReports
<1>. QED BY <1>1, <1>2, <1>3, <1>4 DEF GuardStep

LEMMA NewGuardWords ==
    ASSUME ControlTypes, CoreTypes, GuardTypes, GuardWanted
    PROVE  /\ NewGuard \in Guards /\ NewGuard.gen = gen /\ NewGuard.proof = session
           /\ NewGuard.target = verge.proxy /\ NewGuard.pc = "sleeping"
BY DEF ControlTypes, CoreTypes, GuardTypes, GuardWanted, NewGuard, Guards, Wishes

LEMMA InitTypes == Init => Types
<1>. SUFFICES ASSUME Init PROVE Types
  OBVIOUS
<1>1. ControlTypes
  BY ProxyGuardAssumption DEF Init, ControlTypes, Wishes, PatchStates, Outlooks, Steps
<1>2. CoreTypes /\ GuardTypes /\ SettingTypes
  BY DEF Init, CoreTypes, GuardTypes, SettingTypes, NoSession
<1>3. LocalTypes
  BY DEF Init, LocalTypes, LocalGuard
<1>. QED BY <1>1, <1>2, <1>3 DEF Types

\* However a call ends, the job is at the beginning of another, or over.
LEMMA Ends ==
    ASSUME ControlTypes, ~AtRest, Return \/ Fail \/ EndJob(FALSE)
    PROVE  /\ calls' \in Outlooks /\ step' = "begin" /\ checked' \in BOOLEAN /\ patch' \in PatchStates
           /\ Onward
           /\ Fail \/ EndJob(FALSE) =>
                \/ Doing' = "rest" \/ (Doing = "halting" /\ Doing' = "halt")
                \/ (Doing = "try clear" /\ Doing' = "stop guard")
<1>1. calls \in Outlooks /\ calls # <<>> /\ checked \in BOOLEAN /\ patch \in PatchStates
  BY DEF ControlTypes, AtRest
<1>2. ASSUME EndJob(FALSE)
      PROVE  /\ calls' \in Outlooks /\ step' = "begin" /\ checked' \in BOOLEAN /\ patch' \in PatchStates
             /\ Doing' = "rest"
  BY <1>1, <1>2, Firsts DEF EndJob, Outlooks, PatchStates, Doing
<1>3. ASSUME Return
      PROVE  /\ calls' \in Outlooks /\ step' = "begin" /\ checked' \in BOOLEAN /\ patch' \in PatchStates
             /\ Onward
  <2>1. calls' \in Outlooks /\ step' = "begin" /\ Onward
    BY <1>1, <1>3, Returns
  <2>2. checked' \in BOOLEAN /\ patch' \in PatchStates
    BY <1>1, <1>3 DEF Return, EndJob, PatchStates
  <2>. QED BY <2>1, <2>2
<1>4. Fail => \/ EndJob(FALSE) \/ (Doing \in {"try clear", "halting"} /\ Return)
  BY <1>1, Heads DEF Fail, AtRest
<1>. QED BY <1>1, <1>2, <1>3, <1>4, Heads DEF Onward, AtRest

LEMMA Goes ==
    ASSUME ControlTypes, NEW s \in Steps, Goto(s)
    PROVE  /\ calls' \in Outlooks /\ step' = s /\ step' \in Steps /\ checked' \in BOOLEAN
           /\ patch' \in PatchStates /\ patch' = patch /\ Doing' = Doing
BY DEF ControlTypes, Goto, Doing

LEMMA Begins ==
    ASSUME NEW cs \in Outlooks, NEW check \in BOOLEAN, Job(cs, check)
    PROVE  /\ AtRest /\ jobs' = jobs + 1 /\ calls' \in Outlooks /\ step' = "begin" /\ checked' \in BOOLEAN
           /\ Doing' = First(cs)
           /\ UNCHANGED <<verge, before, drained, wasRunning, gen, lock, guards, local, notice, setting>>
BY DEF Job, Doing

LEMMA Invalidates == ASSUME GuardTypes, InvalidateGuard PROVE gen' = gen + 1 /\ gen' \in Nat
BY DEF GuardTypes, InvalidateGuard

LEMMA NoSessionType == NoSession \in Nat
BY DEF NoSession

\* A job under way.
LEMMA HolderTypes ==
    ASSUME Types, HolderStep
    PROVE  Types'
<1>. USE DEF Types, CoreTypes, GuardTypes, SettingTypes
<1>0. /\ {"drain", "lock", "request", "write", "guard", "drain again", "write again"} \subseteq Steps
      /\ "begin" \in Steps
  BY DEF Steps
<1>1. /\ verge.proxy \in Targets \cup {"off"} /\ Asks \in Targets \cup {"off"}
      /\ (IF GuardWanted THEN verge.proxy ELSE NoTarget) \in Targets \cup {NoTarget}
      /\ NoTarget \in Targets \cup {NoTarget}
  BY DEF ControlTypes, Wishes, Asks, GuardWanted
<1>2. ASSUME NEW s \in Steps, Goto(s), UNCHANGED <<verge, before, jobs>>,
             drained' \in BOOLEAN, wasRunning' \in BOOLEAN
      PROVE  ControlTypes'
  BY <1>2, Goes DEF ControlTypes
<1>3. ASSUME ~AtRest, Return \/ Fail \/ EndJob(FALSE), UNCHANGED <<verge, before, jobs>>,
             drained' \in BOOLEAN, wasRunning' \in BOOLEAN
      PROVE  ControlTypes'
  <2>1. step' \in Steps
    BY <1>0, <1>3, Ends
  <2>. QED BY <1>3, <2>1, Ends DEF ControlTypes
<1>4. ASSUME NEW c, NEW s, Calling(c, s) PROVE ~AtRest
  BY <1>4 DEF Calling, AtRest
<1>5. ASSUME local' \in {local, ShutDown, Started} \/ \E t \in Targets \cup {NoTarget} : local' = Pointed(t)
      PROVE  LocalTypes'
  BY <1>5, LocalWords DEF LocalTypes
<1>6. ASSUME NEW t \in Targets \cup {"off"}, Wrote(t)
      PROVE  SettingTypes'
  BY <1>6 DEF Wrote, ControlTypes
<1>7. ControlTypes => drained \in BOOLEAN /\ wasRunning \in BOOLEAN /\ (~local.runs) \in BOOLEAN
  BY DEF ControlTypes
<1>8. (Running /\ Calling("apply", "begin")) \in BOOLEAN
  BY DEF Running, Calling, LocalTypes, LocalGuard
<1>10. CASE BeginDrain
  BY <1>0, <1>2, <1>5, <1>7, <1>8, <1>10 DEF BeginDrain, core, setting
<1>11. CASE BeginQueue
  <2>1. ControlTypes' /\ LocalTypes'
    BY <1>0, <1>2, <1>5, <1>7, <1>11 DEF BeginQueue
  <2>2. GuardTypes'
    BY <1>11, Invalidates DEF BeginQueue
  <2>. QED BY <1>11, <2>1, <2>2 DEF BeginQueue, core, setting
<1>12. CASE Lock
  BY <1>0, <1>2, <1>5, <1>7, <1>12 DEF Lock, core, setting
<1>13. CASE Drain
  <2>1. ControlTypes' /\ LocalTypes'
    BY <1>0, <1>2, <1>3, <1>5, <1>7, <1>13 DEF Drain
  <2>2. GuardTypes'
    BY <1>13, Invalidates DEF Drain, Unlock
  <2>. QED BY <1>13, <2>1, <2>2 DEF Drain, core, setting
<1>14. CASE Request
  BY <1>1, <1>3, <1>5, <1>6, <1>7, <1>14 DEF Request, core, setting
<1>15. CASE Apply
  BY <1>1, <1>3, <1>4, <1>5, <1>6, <1>7, <1>15 DEF Apply, core, setting
<1>16. CASE ApplyFails
  BY <1>1, <1>3, <1>4, <1>5, <1>7, <1>16 DEF ApplyFails, Restored, core, setting
<1>17. CASE Clear
  BY <1>0, <1>2, <1>3, <1>4, <1>5, <1>6, <1>7, <1>17 DEF Clear, core, setting
<1>18. CASE DrainAgain
  BY <1>0, <1>2, <1>5, <1>7, <1>18 DEF DrainAgain, core, setting
<1>19. CASE ClearAgain
  BY <1>3, <1>5, <1>6, <1>7, <1>19 DEF ClearAgain, core, setting
<1>20. CASE RefreshLocal
  BY <1>3, <1>4, <1>5, <1>7, <1>20 DEF RefreshLocal, core, setting
<1>21. CASE RefreshService
  BY <1>3, <1>4, <1>5, <1>7, <1>21, NewGuardWords DEF RefreshService, core, setting
<1>22. CASE StopCore
  <2>1. ControlTypes' /\ LocalTypes'
    BY <1>3, <1>4, <1>5, <1>7, <1>22 DEF StopCore
  <2>2. CoreTypes'
    BY <1>22, NoSessionType DEF StopCore
  <2>3. SettingTypes'
    BY <1>6, <1>22 DEF StopCore, setting
  <2>. QED BY <1>22, <2>1, <2>2, <2>3 DEF StopCore
<1>23. CASE StopRefused
  BY <1>3, <1>4, <1>5, <1>7, <1>23 DEF StopRefused, core, setting
<1>24. CASE Halt
  BY <1>3, <1>4, <1>5, <1>7, <1>24, NoSessionType DEF Halt, setting
<1>. QED BY <1>10, <1>11, <1>12, <1>13, <1>14, <1>15, <1>16, <1>17, <1>18, <1>19, <1>20, <1>21,
            <1>22, <1>23, <1>24 DEF HolderStep

JobStep == CoreUp \/ StartFailed \/ NetworkChanged \/ Stop \/ OwnerLost \/ SidecarEnded
PatchStep == StagePatch \/ ApplyPatch \/ RefusePatch \/ CommitPatch \/ RollBackPatch
Outside == SomebodyElse \/ ServiceLost

LEMMA OneMoreJob == ASSUME Types PROVE jobs \in Nat /\ jobs + 1 \in Nat
<1>1. jobs \in Nat
  BY DEF Types, ControlTypes
<1>. QED BY <1>1

\* What a job that begins has before it, and for which core.
LEMMA JobWords ==
    ASSUME Types, JobStep
    PROVE  /\ AtRest /\ calls' \in Outlooks /\ step' = "begin" /\ checked' \in BOOLEAN
           /\ UNCHANGED <<verge, before, patch, drained, wasRunning, gen, lock, guards, local, notice,
                          os, asked, loose>>
           /\ jobs' = jobs + 1 /\ jobs' \in Nat
           /\ \/ Doing' = "apply" /\ patch = "idle" /\ UNCHANGED core /\ mode # "NotRunning"
              \/ /\ Doing' = "apply" /\ patch = "idle" /\ mode = "NotRunning"
                 /\ \/ mode' = "Service" /\ session' = jobs + 1 /\ svc' = jobs + 1
                    \/ mode' = "Sidecar" /\ UNCHANGED <<session, svc>>
              \/ Doing' = "stop guard" /\ UNCHANGED core
              \/ Doing' = "clear" /\ UNCHANGED core /\ Route = "Local"
<1>. USE Firsts DEF setting, core
<1>0. /\ {<<"apply", "refresh">>, <<"stop guard">>, <<"clear", "stop core">>, <<"stop guard", "stop core">>,
           <<"stop guard", "try clear", "halt">>, <<"stop guard", "halt">>} \subseteq Outlooks
      /\ TRUE \in BOOLEAN /\ FALSE \in BOOLEAN
  BY DEF Outlooks
<1>7. jobs \in Nat /\ jobs + 1 \in Nat
  BY OneMoreJob
<1>1. CASE CoreUp
  BY <1>0, <1>1, <1>7, Begins DEF CoreUp
<1>2. CASE StartFailed
  BY <1>0, <1>2, <1>7, Begins DEF StartFailed
<1>3. CASE NetworkChanged
  BY <1>0, <1>3, <1>7, Begins DEF NetworkChanged
<1>4. CASE Stop
  BY <1>0, <1>4, <1>7, Begins DEF Stop
<1>5. CASE OwnerLost
  BY <1>0, <1>5, <1>7, Begins DEF OwnerLost
<1>6. CASE SidecarEnded
  BY <1>0, <1>6, <1>7, Begins DEF SidecarEnded
<1>. QED BY <1>1, <1>2, <1>3, <1>4, <1>5, <1>6 DEF JobStep

LEMMA PatchWords ==
    ASSUME Types, PatchStep
    PROVE  /\ UNCHANGED <<mode, session, svc, drained, wasRunning, gen, lock, guards, local, notice,
                          os, asked, loose>>
           /\ jobs' \in {jobs, jobs + 1} /\ jobs' \in Nat
           /\ verge' \in Wishes /\ before' \in Wishes /\ patch' \in PatchStates
           /\ step' \in Steps /\ calls' \in Outlooks /\ checked' \in BOOLEAN
           /\ \/ AtRest /\ UNCHANGED <<calls, step>> /\ Doing' = "rest"
              \/ AtRest /\ Doing' = "apply" /\ step' = "begin" /\ verge' = verge /\ patch' = "applying"
                 /\ (verge.proxy # "off" => mode # "NotRunning")
              \/ patch \in {"applied", "failed"} /\ UNCHANGED <<calls, step>> /\ Doing' = Doing
<1>. USE Firsts DEF setting, core, config, holder, PatchStates
<1>0. /\ jobs \in Nat /\ jobs + 1 \in Nat
      /\ verge \in Wishes /\ before \in Wishes /\ Wanted \subseteq Wishes
      /\ calls \in Outlooks /\ step \in Steps /\ checked \in BOOLEAN
  BY OneMoreJob, ProxyGuardAssumption DEF Types, ControlTypes, Wishes
<1>1. CASE StagePatch
  BY <1>0, <1>1, Heads DEF StagePatch, Doing
<1>2. CASE ApplyPatch
  <2>1. <<"apply", "refresh">> \in Outlooks /\ "begin" \in Steps
    BY DEF Outlooks, Steps
  <2>2. calls' \in Outlooks /\ Doing' = "apply"
    BY <1>2, <2>1 DEF ApplyPatch, Doing
  <2>3. checked' \in BOOLEAN
    BY <1>2 DEF ApplyPatch
  <2>. QED BY <1>0, <1>2, <2>1, <2>2, <2>3 DEF ApplyPatch
<1>3. CASE RefusePatch
  BY <1>0, <1>3, Heads DEF RefusePatch, Doing
<1>4. CASE CommitPatch
  BY <1>0, <1>4 DEF CommitPatch, Doing
<1>5. CASE RollBackPatch
  BY <1>0, <1>5 DEF RollBackPatch, Doing
<1>. QED BY <1>1, <1>2, <1>3, <1>4, <1>5 DEF PatchStep

\* What the guards leave alone.
LEMMA GuardFrame ==
    ASSUME BesideHolder
    PROVE  UNCHANGED <<verge, before, patch, mode, session, svc, calls, step, checked, drained, wasRunning,
                       gen, asked, loose, jobs, Doing>>
BY DEF BesideHolder, config, core, holder, Doing

LEMMA Besides ==
    /\ \A g \in guards : GuardStep(g) => BesideHolder /\ UNCHANGED local
    /\ LocalStep => BesideHolder /\ UNCHANGED <<lock, guards, notice>>
BY DEF GuardStep, GuardAsks, GuardWrites, GuardFails, GuardReports, LocalStep, LocalBegins, LocalWrites

LEMMA OutsideFrame ==
    ASSUME Types, Outside
    PROVE  /\ UNCHANGED <<verge, before, patch, mode, session, calls, step, checked, drained, wasRunning,
                          gen, lock, guards, local, notice, asked, loose, jobs, Doing>>
           /\ os' \in {os, "foreign"} /\ svc' \in {svc, NoSession}
BY GuardFrame DEF Outside, SomebodyElse, ServiceLost, config, holder, Doing

LEMMA TypesKept ==
    ASSUME Types, [Next]_vars
    PROVE  Types'
<1>. USE DEF Types, CoreTypes, GuardTypes, SettingTypes
<1>1. CASE HolderStep
  BY <1>1, HolderTypes
<1>2. CASE JobStep
  <2>1. ControlTypes'
    BY <1>2, JobWords DEF ControlTypes, Steps
  <2>2. CoreTypes'
    BY <1>2, JobWords DEF core
  <2>. QED BY <1>2, <2>1, <2>2, JobWords DEF LocalTypes
<1>3. CASE PatchStep
  BY <1>3, PatchWords DEF ControlTypes, LocalTypes
<1>4. ASSUME NEW g \in guards, GuardStep(g) PROVE Types'
  <2>1. ControlTypes' /\ CoreTypes' /\ LocalTypes' /\ gen' \in Nat
    BY <1>4, Besides, GuardFrame DEF ControlTypes, LocalTypes
  <2>2. g \in Guards /\ g.target \in Targets
    BY DEF Guards
  <2>3. guards' \subseteq Guards /\ lock' \in {"free", "job", "guard"} /\ notice' \in BOOLEAN
        /\ os' \in Targets \cup {"off", "foreign"}
    BY <1>4, <2>2, GuardWords DEF Same
  <2>. QED BY <1>4, <2>1, <2>3, Besides, GuardFrame
<1>5. CASE LocalStep
  <2>1. ControlTypes' /\ CoreTypes' /\ GuardTypes'
    BY <1>5, Besides, GuardFrame DEF ControlTypes
  <2>2. LocalTypes'
    BY <1>5, LoopWords DEF LocalTypes
  <2>3. os' \in Targets \cup {"off", "foreign"}
    BY <1>5, LoopWords DEF LocalTypes, LocalGuard
  <2>. QED BY <1>5, <2>1, <2>2, <2>3, Besides, GuardFrame
<1>6. CASE Outside
  BY <1>6, OutsideFrame, NoSessionType DEF ControlTypes, LocalTypes
<1>7. CASE UNCHANGED vars
  BY <1>7 DEF vars, config, core, holder, setting, ControlTypes, LocalTypes
<1>. QED BY <1>1, <1>2, <1>3, <1>4, <1>5, <1>6, <1>7 DEF Next, JobStep, PatchStep, Outside

-----------------------------------------------------------------------------
(* What the steps of a job do *)

\* The call ended: what is next is at its beginning.
Ended == step' = "begin" /\ Onward

\* It ended with a failure.
Failed ==
    /\ step' = "begin"
    /\ \/ Doing' = "rest" \/ (Doing = "halting" /\ Doing' = "halt")
       \/ (Doing = "try clear" /\ Doing' = "stop guard")

\* It goes on at place s.
GoesOn(s) == step' = s /\ Doing' = Doing /\ patch' = patch

\* The local guard: shut down, started, pointed at t, or as it was.
ShutsDown ==
    /\ ~Running' /\ local'.runs = (local.runs /\ local.writing # NoTarget)
    /\ local'.target = local.target /\ local'.writing = local.writing
Starts ==
    /\ local'.runs /\ Running' = ~(local.runs /\ local.stopping)
    /\ local'.target = local.target /\ local'.writing = local.writing
PointsAt(t) ==
    /\ Running' = Running /\ local'.runs = local.runs
    /\ local'.target = t /\ local'.writing = local.writing

LEMMA LocalMoves ==
    ASSUME LocalTypes
    PROVE  /\ local' = ShutDown => ShutsDown
           /\ local' = Started => Starts
           /\ \A t \in Targets \cup {NoTarget} : local' = Pointed(t) => PointsAt(t)
           /\ local' = local => PointsAt(local.target)
<1>. USE LocalWords
<1>1. local' = ShutDown => ShutsDown
  BY DEF ShutsDown, Running
<1>2. local' = Started => Starts
  BY DEF Starts, Running
<1>3. ASSUME NEW t \in Targets \cup {NoTarget}, local' = Pointed(t) PROVE PointsAt(t)
  BY <1>3 DEF PointsAt, Running
<1>4. local' = local => PointsAt(local.target)
  BY DEF PointsAt, Running
<1>. QED BY <1>1, <1>2, <1>3, <1>4

\* What the steps of a job have in common.
LEMMA Busy ==
    ASSUME Types
    PROVE  /\ \A c \in Calls, s \in Steps :
                Calling(c, s) => /\ ~AtRest /\ step = s
                                 /\ (Doing = c \/ (c = "try clear" /\ Doing = "halting"))
           /\ ~AtRest /\ Return => Ended
           /\ ~AtRest /\ (Fail \/ EndJob(FALSE)) => Failed
           /\ \A s \in Steps : Goto(s) => GoesOn(s)
<1>0. ControlTypes /\ calls \in Outlooks
  BY DEF Types, ControlTypes
<1>1. ASSUME NEW c \in Calls, NEW s \in Steps, Calling(c, s)
      PROVE  /\ ~AtRest /\ step = s
             /\ Doing = c \/ (c = "try clear" /\ Doing = "halting")
  BY <1>0, <1>1, Heads DEF Calling, AtRest
<1>2. ~AtRest /\ Return => Ended
  BY <1>0, Ends DEF Ended
<1>3. ~AtRest /\ (Fail \/ EndJob(FALSE)) => Failed
  BY <1>0, Ends DEF Failed
<1>4. ASSUME NEW s \in Steps, Goto(s) PROVE GoesOn(s)
  BY <1>0, <1>4, Goes DEF GoesOn
<1>. QED BY <1>1, <1>2, <1>3, <1>4

LEMMA CallNames ==
    /\ Calls = {"apply", "refresh", "clear", "try clear", "stop guard", "stop core", "halt"}
    /\ Steps = {"begin", "drain", "lock", "request", "write", "guard", "drain again", "write again"}
BY DEF Calls, Steps

LEMMA BeginWords ==
    ASSUME Types, PlacesFit, BeginDrain
    PROVE  /\ step = "begin" /\ GoesOn("drain") /\ ShutsDown
           /\ Doing = "apply" \/ (Clearing /\ Route = "Local")
           /\ wasRunning' => Running
           /\ UNCHANGED <<verge, mode, session, drained, gen, lock, guards, notice, os, asked, loose, jobs>>
<1>1. Types => ControlTypes /\ LocalTypes /\ calls \in Outlooks
  BY DEF Types, ControlTypes
<1>. QED BY <1>1, LocalMoves, Busy, CallNames, Heads DEF BeginDrain, DrainsFirst, Clearing, core, setting

LEMMA QueueWords ==
    ASSUME Types, PlacesFit, BeginQueue
    PROVE  /\ step = "begin" /\ GoesOn("lock") /\ gen' = gen + 1
           /\ Doing \in {"refresh", "stop guard"} \/ (Clearing /\ Route = "Service")
           /\ UNCHANGED <<verge, mode, session, drained, wasRunning, lock, guards, local, notice,
                          os, asked, loose, jobs>>
<1>1. Types => ControlTypes /\ GuardTypes /\ calls \in Outlooks
  BY DEF Types, ControlTypes
<1>2. Route \in {"Local", "Service"}
  BY DEF Route
<1>. QED BY <1>1, <1>2, Busy, CallNames, Heads, Invalidates
         DEF BeginQueue, DrainsFirst, Clearing, core, setting

LEMMA LockWords ==
    ASSUME Types, PlacesFit, Lock
    PROVE  /\ step = "lock" /\ lock = "free" /\ lock' = "job"
           /\ \/ Doing \in {"refresh", "stop guard"} /\ GoesOn("drain") /\ ShutsDown
              \/ (Doing = "apply" \/ Clearing) /\ Route = "Service" /\ GoesOn("request") /\ local' = local
           /\ UNCHANGED <<verge, mode, session, drained, wasRunning, gen, guards, notice,
                          os, asked, loose, jobs>>
<1>1. Types => ControlTypes /\ LocalTypes /\ calls \in Outlooks
  BY DEF Types, ControlTypes
<1>. QED BY <1>1, LocalMoves, Busy, CallNames, Heads DEF Lock, Clearing, core, setting, PlacesFit

LEMMA DrainWords ==
    ASSUME Types, PlacesFit, Drain
    PROVE  /\ step = "drain" /\ drained' = ~local.runs
           /\ \/ Doing = "stop guard" /\ lock' = "free" /\ Ended /\ gen' = gen
              \/ Doing = "refresh" /\ lock' = "free" /\ GoesOn("guard") /\ gen' = gen
              \/ Doing = "apply" /\ Route = "Service" /\ lock' = lock /\ GoesOn("lock") /\ gen' = gen + 1
              \/ /\ (Doing = "apply" \/ Clearing) /\ Route = "Local" /\ lock' = lock
                 /\ GoesOn("write") /\ gen' = gen
           /\ UNCHANGED <<verge, mode, session, wasRunning, guards, local, notice, os, asked, loose, jobs>>
<1>1. Types => ControlTypes /\ GuardTypes /\ calls \in Outlooks
  BY DEF Types, ControlTypes
<1>2. Route \in {"Local", "Service"}
  BY DEF Route
<1>3. /\ ~AtRest /\ step = "drain" /\ drained' = ~local.runs
      /\ \/ Head(calls) = "stop guard" /\ Unlock /\ Return /\ UNCHANGED gen
         \/ Head(calls) = "refresh" /\ Unlock /\ Goto("guard") /\ UNCHANGED gen
         \/ Head(calls) = "apply" /\ Route = "Service" /\ InvalidateGuard /\ Goto("lock") /\ UNCHANGED lock
         \/ /\ Head(calls) \notin {"stop guard", "refresh"} /\ ~(Head(calls) = "apply" /\ Route = "Service")
            /\ Goto("write") /\ UNCHANGED <<gen, lock>>
      /\ UNCHANGED <<verge, mode, session, wasRunning, guards, local, notice, os, asked, loose, jobs>>
  BY DEF Drain, core, setting
<1>. QED BY <1>1, <1>2, <1>3, Busy, CallNames, Heads, Invalidates DEF Unlock, Clearing, PlacesFit

LEMMA RequestWords ==
    ASSUME Types, PlacesFit, Request
    PROVE  /\ step = "request" /\ lock' = "free" /\ (Doing = "apply" \/ Clearing) /\ Route = "Service"
           /\ \/ Doing = "apply" /\ Wrote(verge.proxy) /\ Ended
              \/ Clearing /\ Wrote("off") /\ Ended
              \/ Wrote("off") /\ Failed
              \/ UNCHANGED <<os, asked, loose>> /\ Failed
           /\ UNCHANGED <<verge, mode, session, drained, wasRunning, gen, guards, local, notice, jobs>>
<1>1. ControlTypes /\ calls \in Outlooks
  BY DEF Types, ControlTypes
<1>2. ~AtRest /\ step = "request"
  BY DEF Request
<1>3. (Doing = "apply" \/ Clearing) /\ Route = "Service"
  BY <1>1, <1>2, Heads DEF PlacesFit, Clearing
<1>4. Asks = IF Doing = "apply" THEN verge.proxy ELSE "off"
  BY <1>1, <1>2, <1>3, Heads DEF Asks, Clearing
<1>5. \/ Wrote(Asks) /\ Ended
      \/ Wrote("off") /\ Failed
      \/ UNCHANGED <<os, asked, loose>> /\ Failed
  BY <1>2, Busy DEF Request, setting
<1>6. lock' = "free" /\ UNCHANGED <<verge, mode, session, drained, wasRunning, gen, guards, local, notice, jobs>>
  BY DEF Request, core
<1>. QED BY <1>2, <1>3, <1>4, <1>5, <1>6

LEMMA ApplyWords ==
    ASSUME Types, Apply
    PROVE  /\ Doing = "apply" /\ step = "write" /\ Ended /\ Wrote(verge.proxy)
           /\ PointsAt(IF GuardWanted THEN verge.proxy ELSE NoTarget) /\ GuardWanted' = GuardWanted
           /\ UNCHANGED <<verge, mode, session, drained, gen, lock, guards, notice, jobs>>
<1>1. Calling("apply", "write") /\ {"apply"} \subseteq Calls /\ {"write"} \subseteq Steps
  BY CallNames DEF Apply
<1>2. (IF GuardWanted THEN verge.proxy ELSE NoTarget) \in Targets \cup {NoTarget} /\ LocalTypes
  BY DEF Types, ControlTypes, Wishes, GuardWanted
<1>3. UNCHANGED <<verge, mode, session, drained, gen, lock, guards, notice, jobs>> /\ GuardWanted' = GuardWanted
  BY DEF Apply, core, GuardWanted
<1>. QED BY <1>1, <1>2, <1>3, Busy, LocalMoves DEF Apply

LEMMA ApplyFailsWords ==
    ASSUME Types, ApplyFails
    PROVE  /\ Doing = "apply" /\ step = "write" /\ Failed
           /\ \/ /\ UNCHANGED <<os, asked, loose>>
                 /\ IF wasRunning THEN Starts ELSE PointsAt(local.target)
              \/ os' \in {"off", "foreign"} /\ asked' = "off" /\ loose' = ~drained /\ PointsAt(NoTarget)
           /\ UNCHANGED <<verge, mode, session, drained, gen, lock, guards, notice, jobs>>
<1>1. Calling("apply", "write") /\ {"apply"} \subseteq Calls /\ {"write"} \subseteq Steps
  BY CallNames DEF ApplyFails
<1>2. NoTarget \in Targets \cup {NoTarget} /\ LocalTypes
  BY DEF Types
<1>3. UNCHANGED <<verge, mode, session, drained, gen, lock, guards, notice, jobs>>
  BY DEF ApplyFails, core
<1>. QED BY <1>1, <1>2, <1>3, Busy, LocalMoves DEF ApplyFails, Restored, setting

LEMMA ClearWords ==
    ASSUME Types, PlacesFit, Clear \/ ClearAgain
    PROVE  /\ Clearing /\ Route = "Local" /\ step \in {"write", "write again"}
           /\ \/ Wrote("off") /\ (Ended \/ (GoesOn("drain again") /\ ~drained))
              \/ os' \in {os, "foreign"} /\ UNCHANGED <<asked, loose>> /\ Failed
           /\ UNCHANGED <<verge, mode, session, drained, wasRunning, gen, lock, guards, local, notice, jobs>>
<1>0. calls \in Outlooks
  BY DEF Types, ControlTypes
<1>1. CASE Clear
  <2>1. Calling("clear", "write") \/ Calling("try clear", "write")
    BY <1>1 DEF Clear
  <2>2. ~AtRest /\ step = "write" /\ Clearing
    BY <2>1, Busy, CallNames DEF Clearing
  <2>3. UNCHANGED <<verge, mode, session, drained, wasRunning, gen, lock, guards, local, notice, jobs>>
    BY <1>1 DEF Clear, core
  <2>. QED BY <1>1, <2>2, <2>3, Busy, CallNames DEF Clear, PlacesFit
<1>2. CASE ClearAgain
  <2>1. ~AtRest /\ step = "write again"
    BY <1>2 DEF ClearAgain
  <2>2. Clearing
    BY <1>0, <2>1, Heads DEF PlacesFit, Clearing
  <2>3. UNCHANGED <<verge, mode, session, drained, wasRunning, gen, lock, guards, local, notice, jobs>>
    BY <1>2 DEF ClearAgain, core
  <2>. QED BY <1>2, <2>1, <2>2, <2>3, Busy DEF ClearAgain, PlacesFit
<1>. QED BY <1>1, <1>2

LEMMA DrainAgainWords ==
    ASSUME Types, PlacesFit, DrainAgain
    PROVE  /\ Clearing /\ Route = "Local" /\ step = "drain again" /\ GoesOn("write again")
           /\ drained' = ~local.runs
           /\ UNCHANGED <<verge, mode, session, wasRunning, gen, lock, guards, local, notice,
                          os, asked, loose, jobs>>
<1>0. calls \in Outlooks
  BY DEF Types, ControlTypes
<1>1. ~AtRest /\ step = "drain again"
  BY DEF DrainAgain
<1>2. Clearing
  BY <1>0, <1>1, Heads DEF PlacesFit, Clearing
<1>. QED BY <1>1, <1>2, Busy, CallNames DEF DrainAgain, PlacesFit, core, setting

LEMMA RefreshWords ==
    ASSUME Types, RefreshLocal \/ RefreshService
    PROVE  /\ Doing = "refresh" /\ step = "guard" /\ Ended
           /\ \/ /\ Route = "Local" /\ (IF GuardWanted THEN Starts ELSE ShutsDown)
                 /\ (notice' => notice) /\ guards' = guards
              \/ /\ Route = "Service" /\ local' = local /\ notice' = FALSE
                 /\ guards' = (IF GuardWanted THEN guards \cup {NewGuard} ELSE guards)
           /\ UNCHANGED <<verge, mode, session, drained, wasRunning, gen, lock, os, asked, loose, jobs>>
<1>1. Calling("refresh", "guard") /\ LocalTypes
  BY DEF RefreshLocal, RefreshService, Types
<1>2. Doing = "refresh" /\ step = "guard" /\ ~AtRest
  BY <1>1, Busy, CallNames
<1>3. UNCHANGED <<verge, mode, session, drained, wasRunning, gen, lock, os, asked, loose, jobs>>
  BY DEF RefreshLocal, RefreshService, core, setting
<1>. QED BY <1>1, <1>2, <1>3, Busy, LocalMoves DEF RefreshLocal, RefreshService

LEMMA StopWords ==
    ASSUME Types, StopCore \/ StopRefused \/ Halt
    PROVE  /\ Doing \in {"stop core", "halt"} /\ step = "begin"
           /\ \/ /\ mode' = "NotRunning" /\ session' = NoSession /\ Ended
                 /\ \/ UNCHANGED <<os, asked, loose>>
                    \/ Wrote("off") /\ IsMacOS /\ mode = "Service"
              \/ UNCHANGED <<mode, session, os, asked, loose>> /\ Failed
           /\ UNCHANGED <<verge, drained, wasRunning, gen, lock, guards, local, notice, jobs>>
<1>1. Calling("stop core", "begin") \/ Calling("halt", "begin")
  BY DEF StopCore, StopRefused, Halt
<1>2. Doing \in {"stop core", "halt"} /\ step = "begin" /\ ~AtRest
  BY <1>1, Busy, CallNames
<1>3. CASE StopCore
  BY <1>2, <1>3, Busy DEF StopCore, setting
<1>4. CASE StopRefused
  BY <1>2, <1>4, Busy DEF StopRefused, core, setting
<1>5. CASE Halt
  BY <1>2, <1>5, Busy DEF Halt, setting
<1>. QED BY <1>3, <1>4, <1>5

-----------------------------------------------------------------------------
(* Where a job is and what it knows *)

LEMMA RouteFacts ==
    /\ mode' = mode => Route' = Route
    /\ Route = "Service" <=> IsMacOS /\ mode = "Service"
    /\ Route \in {"Local", "Service"}
    /\ verge' = verge => GuardWanted' = GuardWanted
    /\ GuardWanted => verge.proxy # "off"
BY DEF Route, GuardWanted

LEMMA BeginFits == ASSUME Types', step' = "begin" PROVE PlacesFit'
BY DEF Types, ControlTypes, PlacesFit

LEMMA StandFits ==
    ASSUME PlacesFit, UNCHANGED <<calls, step, mode>> PROVE PlacesFit'
BY DEF PlacesFit, Clearing, Doing, Route

LEMMA GoingFits ==
    ASSUME Types', PlacesFit, NEW s \in Steps, GoesOn(s), mode' = mode,
           \/ Doing = "apply" /\ s \in {"drain", "lock", "request", "write"}
              /\ (s \in {"lock", "request"} => Route = "Service") /\ (s = "write" => Route = "Local")
           \/ Doing = "refresh" /\ s \in {"lock", "drain", "guard"}
           \/ Clearing /\ s \in {"lock", "request"} /\ Route = "Service"
           \/ Clearing /\ s \in {"drain", "write", "drain again", "write again"} /\ Route = "Local"
           \/ Doing = "stop guard" /\ s \in {"lock", "drain"}
    PROVE  PlacesFit'
<1>1. Route' = Route /\ calls' \in Outlooks /\ step' = s /\ Doing' = Doing /\ s # "begin"
  BY RouteFacts DEF GoesOn, Types, ControlTypes
<1>2. Doing # "rest"
  BY DEF Clearing
<1>. QED BY <1>1, <1>2 DEF PlacesFit, Clearing

LEMMA PlacesKept ==
    ASSUME Types, Types', IInv, Next
    PROVE  PlacesFit'
<1>. USE DEF IInv
<1>1. CASE BeginDrain
  BY <1>1, BeginWords, GoingFits, CallNames
<1>2. CASE BeginQueue
  BY <1>2, QueueWords, GoingFits, CallNames
<1>3. CASE Lock
  BY <1>3, LockWords, GoingFits, CallNames
<1>4. CASE Drain
  <2>1. CASE GoesOn("write")
    BY <1>4, <2>1, DrainWords, GoingFits, CallNames DEF GoesOn, Ended
  <2>2. CASE GoesOn("lock")
    BY <1>4, <2>2, DrainWords, GoingFits, CallNames DEF GoesOn, Ended
  <2>3. CASE GoesOn("guard")
    BY <1>4, <2>3, DrainWords, GoingFits, CallNames DEF GoesOn, Ended
  <2>4. CASE Ended
    BY <2>4, BeginFits DEF Ended
  <2>. QED BY <1>4, <2>1, <2>2, <2>3, <2>4, DrainWords
<1>5. CASE Request
  BY <1>5, RequestWords, BeginFits DEF Ended, Failed
<1>6. CASE Apply
  BY <1>6, ApplyWords, BeginFits DEF Ended
<1>7. CASE ApplyFails
  BY <1>7, ApplyFailsWords, BeginFits DEF Failed
<1>8. CASE Clear \/ ClearAgain
  BY <1>8, ClearWords, BeginFits, GoingFits, CallNames DEF Ended, Failed
<1>9. CASE DrainAgain
  BY <1>9, DrainAgainWords, GoingFits, CallNames
<1>10. CASE RefreshLocal \/ RefreshService
  BY <1>10, RefreshWords, BeginFits DEF Ended
<1>11. CASE StopCore \/ StopRefused \/ Halt
  BY <1>11, StopWords, BeginFits DEF Ended, Failed
<1>12. CASE JobStep
  BY <1>12, JobWords, BeginFits
<1>13. CASE PatchStep
  BY <1>13, PatchWords, BeginFits, StandFits
<1>14. ASSUME NEW g \in guards, GuardStep(g) PROVE PlacesFit'
  BY <1>14, Besides, GuardFrame, StandFits
<1>15. CASE LocalStep
  BY <1>15, Besides, GuardFrame, StandFits
<1>16. CASE Outside
  BY <1>16, OutsideFrame, StandFits
<1>. QED BY <1>1, <1>2, <1>3, <1>4, <1>5, <1>6, <1>7, <1>8, <1>9, <1>10, <1>11, <1>12, <1>13, <1>14,
            <1>15, <1>16 DEF Next, HolderStep, JobStep, PatchStep, Outside

\* What the conjuncts about jobs speak of stays while a call goes on.
LEMMA JobsStand ==
    ASSUME JobsFit, Doing' = Doing, UNCHANGED <<patch, verge, mode>> PROVE JobsFit'
BY DEF JobsFit

LEMMA JobsOver ==
    ASSUME Doing' \notin {"apply", "refresh"} PROVE JobsFit' /\ AppliedFit'
BY DEF JobsFit, AppliedFit

LEMMA JobsKept ==
    ASSUME Types, IInv, Next
    PROVE  JobsFit'
<1>. USE DEF IInv
<1>1. ASSUME Ended, UNCHANGED <<verge, mode>> PROVE JobsFit'
  BY <1>1 DEF Ended, Onward, JobsFit
<1>2. ASSUME Failed PROVE JobsFit'
  BY <1>2, JobsOver DEF Failed
<1>3. CASE BeginDrain \/ BeginQueue \/ Lock
  BY <1>3, BeginWords, QueueWords, LockWords, JobsStand DEF GoesOn
<1>4. CASE Drain
  BY <1>1, <1>4, DrainWords, JobsStand DEF GoesOn
<1>5. CASE Request \/ Apply \/ ApplyFails
  BY <1>1, <1>2, <1>5, RequestWords, ApplyWords, ApplyFailsWords
<1>6. CASE Clear \/ ClearAgain \/ DrainAgain
  BY <1>1, <1>2, <1>6, ClearWords, DrainAgainWords, JobsStand DEF GoesOn
<1>7. CASE RefreshLocal \/ RefreshService
  BY <1>1, <1>7, RefreshWords
<1>8. CASE StopCore \/ StopRefused \/ Halt
  BY <1>2, <1>8, StopWords, JobsOver DEF Ended, Onward
<1>9. CASE JobStep
  BY <1>9, JobWords DEF JobsFit, core
<1>10. CASE PatchStep
  BY <1>10, PatchWords, JobsOver DEF JobsFit
<1>11. ASSUME NEW g \in guards, GuardStep(g) PROVE JobsFit'
  BY <1>11, Besides, GuardFrame, JobsStand
<1>12. CASE LocalStep
  BY <1>12, Besides, GuardFrame, JobsStand
<1>13. CASE Outside
  BY <1>13, OutsideFrame, JobsStand
<1>. QED BY <1>3, <1>4, <1>5, <1>6, <1>7, <1>8, <1>9, <1>10, <1>11, <1>12, <1>13
         DEF Next, HolderStep, JobStep, PatchStep, Outside

LEMMA AppliedKept ==
    ASSUME Types, IInv, Next
    PROVE  AppliedFit'
<1>. USE DEF IInv
<1>1. ASSUME Doing' = Doing \/ Doing' # "refresh", UNCHANGED <<verge, mode, asked>>,
             local'.target = local.target
      PROVE  AppliedFit'
  BY <1>1, RouteFacts DEF AppliedFit
<1>2. ASSUME Failed PROVE AppliedFit'
  BY <1>2 DEF Failed, AppliedFit
<1>3. ASSUME Ended, Doing # "apply" PROVE AppliedFit'
  BY <1>3 DEF Ended, Onward, AppliedFit
<1>4. CASE BeginDrain \/ BeginQueue \/ Lock
  BY <1>1, <1>4, BeginWords, QueueWords, LockWords DEF GoesOn, ShutsDown
<1>5. CASE Drain
  BY <1>1, <1>3, <1>5, DrainWords DEF GoesOn
<1>6. CASE Request
  <2>1. CASE Doing = "apply" /\ Wrote(verge.proxy) /\ Ended
    <3>1. asked' = verge'.proxy /\ Route' = "Service"
      BY <1>6, <2>1, RequestWords, RouteFacts DEF Wrote
    <3>. QED BY <3>1 DEF AppliedFit
  <2>2. CASE Clearing /\ Ended
    BY <1>3, <2>2 DEF Clearing
  <2>. QED BY <1>2, <1>6, <2>1, <2>2, RequestWords
<1>7. CASE Apply
  <2>1. asked' = verge'.proxy /\ local'.target = (IF GuardWanted' THEN verge'.proxy ELSE NoTarget)
    BY <1>7, ApplyWords DEF Wrote, PointsAt
  <2>. QED BY <2>1 DEF AppliedFit
<1>8. CASE ApplyFails
  BY <1>2, <1>8, ApplyFailsWords
<1>9. CASE Clear \/ ClearAgain \/ DrainAgain
  <2>1. Clearing /\ Doing # "refresh" /\ Doing # "apply"
    BY <1>9, ClearWords, DrainAgainWords DEF Clearing
  <2>2. Doing' = Doing \/ Ended \/ Failed
    BY <1>9, ClearWords, DrainAgainWords DEF GoesOn
  <2>. QED BY <1>2, <1>3, <2>1, <2>2 DEF AppliedFit
<1>10. CASE RefreshLocal \/ RefreshService
  BY <1>3, <1>10, RefreshWords
<1>11. CASE StopCore \/ StopRefused \/ Halt
  BY <1>2, <1>3, <1>11, StopWords
<1>12. CASE JobStep
  BY <1>12, JobWords DEF AppliedFit
<1>13. CASE PatchStep
  BY <1>13, PatchWords DEF AppliedFit, JobsFit
<1>14. ASSUME NEW g \in guards, GuardStep(g) PROVE AppliedFit'
  BY <1>1, <1>14, Besides, GuardFrame
<1>15. CASE LocalStep
  BY <1>1, <1>15, Besides, GuardFrame, LoopWords DEF Types
<1>16. CASE Outside
  BY <1>1, <1>16, OutsideFrame
<1>. QED BY <1>4, <1>5, <1>6, <1>7, <1>8, <1>9, <1>10, <1>11, <1>12, <1>13, <1>14, <1>15, <1>16
         DEF Next, HolderStep, JobStep, PatchStep, Outside

-----------------------------------------------------------------------------
(* The setting *)

LEMMA NotTargets == "off" \notin Targets /\ "foreign" \notin Targets /\ NoTarget \notin Targets
BY ProxyGuardAssumption DEF NoTarget

\* Whoever writes waited for the local guard, or knows that its write hangs.
LEMMA WritesAreLast ==
    ASSUME LocalFits, Shut, step \notin {"drain", "drain again"}, drained
    PROVE  local.writing = NoTarget
BY DEF LocalFits

LEMMA WriteFits ==
    ASSUME LocalFits, Shut, step \notin {"drain", "drain again"}, local'.writing = local.writing,
           loose' = ~drained, os' \in Targets => os' = asked'
    PROVE  SettingFits'
BY WritesAreLast DEF SettingFits

LEMMA SettingStands ==
    ASSUME SettingFits, os' \in {os, "off", "foreign"}, UNCHANGED <<asked, loose>>,
           local'.writing \in {local.writing, NoTarget}
    PROVE  SettingFits'
BY NotTargets DEF SettingFits

LEMMA SettingKept ==
    ASSUME Types, IInv, Next
    PROVE  SettingFits'
<1>. USE DEF IInv
<1>1. CASE BeginDrain \/ BeginQueue \/ Lock \/ Drain \/ DrainAgain
  BY <1>1, BeginWords, QueueWords, LockWords, DrainWords, DrainAgainWords, SettingStands DEF ShutsDown
<1>2. CASE Request
  <2>1. Shut /\ step \notin {"drain", "drain again"}
    BY <1>2, RequestWords DEF Shut
  <2>. QED BY <1>2, <2>1, RequestWords, WriteFits, SettingStands DEF Wrote
<1>3. CASE Apply
  <2>1. Shut /\ step \notin {"drain", "drain again"}
    BY <1>3, ApplyWords DEF Shut
  <2>. QED BY <1>3, <2>1, ApplyWords, WriteFits DEF Wrote, PointsAt
<1>4. CASE ApplyFails
  <2>1. Shut /\ step \notin {"drain", "drain again"}
    BY <1>4, ApplyFailsWords DEF Shut
  <2>. QED BY <1>4, <2>1, ApplyFailsWords, WriteFits, SettingStands, NotTargets DEF PointsAt, Starts
<1>5. CASE Clear \/ ClearAgain
  <2>1. Shut /\ step \notin {"drain", "drain again"}
    BY <1>5, ClearWords DEF Shut
  <2>. QED BY <1>5, <2>1, ClearWords, WriteFits, SettingStands DEF Wrote
<1>6. CASE RefreshLocal \/ RefreshService
  BY <1>6, RefreshWords, SettingStands DEF Starts, ShutsDown
<1>7. CASE StopCore \/ StopRefused \/ Halt
  <2>1. Shut /\ step \notin {"drain", "drain again"}
    BY <1>7, StopWords DEF Shut
  <2>. QED BY <1>7, <2>1, StopWords, WriteFits, SettingStands DEF Wrote
<1>8. CASE JobStep
  BY <1>8, JobWords, SettingStands
<1>9. CASE PatchStep
  BY <1>9, PatchWords, SettingStands
<1>10. ASSUME NEW g \in guards, GuardStep(g) PROVE SettingFits'
  <2>1. os' \in {os, "off"} \/ (g.pc = "requesting" /\ os' = g.target)
    BY <1>10, GuardWords DEF Types
  <2>2. UNCHANGED <<asked, loose, local>>
    BY <1>10, Besides, GuardFrame
  <2>. QED BY <2>1, <2>2, SettingStands DEF RequestsFit, SettingFits
<1>11. CASE LocalStep
  <2>1. UNCHANGED <<asked, loose>>
    BY <1>11, Besides, GuardFrame
  <2>2. \/ Running /\ local.target # NoTarget /\ local'.writing = local.target /\ os' = os
        \/ local.writing # NoTarget /\ os' = local.writing /\ local'.writing = NoTarget
    BY <1>11, LoopWords DEF Types
  <2>. QED BY <2>1, <2>2 DEF SettingFits, LocalFits, WillRun
<1>12. CASE Outside
  BY <1>12, OutsideFrame, SettingStands
<1>. QED BY <1>1, <1>2, <1>3, <1>4, <1>5, <1>6, <1>7, <1>8, <1>9, <1>10, <1>11, <1>12
         DEF Next, HolderStep, JobStep, PatchStep, Outside

-----------------------------------------------------------------------------
(* The local guard *)

LEMMA FreshKept ==
    ASSUME Types, GuardsFit, guards' = guards, gen' \in {gen, gen + 1}
    PROVE  (Fresh => Fresh') /\ (gen' = gen + 1 => Fresh')
<1>1. gen \in Nat /\ \A g \in guards : g.gen \in Nat /\ g.gen <= gen
  BY DEF Types, GuardTypes, GuardsFit, Guards
<1>. QED BY <1>1 DEF Fresh

\* A guard that was shut down stays so while nobody starts it.
LEMMA LocalStands ==
    ASSUME LocalFits, ~Running, ~Running', local'.runs = local.runs, local'.writing = local.writing,
           \/ Shut /\ step \notin {"drain", "drain again"} /\ (drained' => drained)
           \/ drained' = ~local.runs
           \/ step' \in {"drain", "drain again"}
           \/ ~Shut',
           Doing' # "apply" \/ step' \notin {"drain", "write"}
    PROVE  LocalFits'
BY DEF LocalFits, WillRun

\* Nothing that concerns the guard is touched.
LEMMA LocalRests ==
    ASSUME LocalFits, UNCHANGED <<local, wasRunning, asked>>, Fresh => Fresh',
           mode # "NotRunning" => mode' # "NotRunning",
           Shut' => Shut /\ step \notin {"drain", "drain again"} /\ drained' = drained,
           Doing' = Doing \/ step' \notin {"drain", "write"},
           Doing' = Doing => step' = step \/ step' \notin {"drain", "write"}
    PROVE  LocalFits'
<1>1. Running' <=> Running
  BY DEF Running
<1>2. WillRun' => WillRun
  BY <1>1 DEF WillRun
<1>3. Shut' => ~Running' /\ (step' \notin {"drain", "drain again"} /\ drained' => ~local'.runs)
  BY <1>1 DEF LocalFits
<1>4. local'.writing # NoTarget => local'.runs
  BY DEF LocalFits
<1>5. WillRun' => /\ Fresh' /\ mode' # "NotRunning"
                  /\ local'.target # NoTarget => local'.target = asked'
  BY <1>2 DEF LocalFits
<1>. QED BY <1>3, <1>4, <1>5 DEF LocalFits

LEMMA ShutDownFits ==
    ASSUME LocalFits, ShutsDown, step' \in {"drain", "drain again"} \/ ~Shut',
           Doing' # "apply" \/ step' \notin {"drain", "write"} \/ ~wasRunning'
    PROVE  LocalFits'
BY DEF LocalFits, ShutsDown, WillRun

LEMMA LocalKept ==
    ASSUME Types, IInv, Next
    PROVE  LocalFits'
<1>. USE DEF IInv
<1>1. CASE BeginDrain
  <2>1. step = "begin" /\ GoesOn("drain") /\ ShutsDown /\ (wasRunning' => Running)
        /\ UNCHANGED <<mode, gen, guards, asked>>
    BY <1>1, BeginWords
  <2>2. Fresh => Fresh'
    BY <2>1, FreshKept
  <2>. QED BY <2>1, <2>2 DEF LocalFits, ShutsDown, WillRun, GoesOn
<1>2. CASE BeginQueue
  <2>1. Fresh => Fresh'
    BY <1>2, QueueWords, FreshKept
  <2>2. Shut' => Shut
    BY <1>2, QueueWords, RouteFacts DEF Shut, GoesOn, Clearing
  <2>. QED BY <1>2, <2>1, <2>2, QueueWords, LocalRests DEF GoesOn
<1>3. CASE Lock
  <2>1. CASE GoesOn("drain") /\ ShutsDown /\ Doing \in {"refresh", "stop guard"}
    BY <2>1, ShutDownFits DEF GoesOn
  <2>2. CASE GoesOn("request") /\ local' = local /\ (Doing = "apply" \/ Clearing)
    <3>1. Fresh => Fresh'
      BY <1>3, LockWords DEF Fresh
    <3>2. Shut
      BY <1>3, <2>2, LockWords DEF Shut
    <3>. QED BY <1>3, <2>2, <3>1, <3>2, LockWords, LocalRests DEF GoesOn
  <2>. QED BY <1>3, <2>1, <2>2, LockWords
<1>4. CASE Drain
  <2>1. Shut
    BY <1>4, DrainWords DEF Shut
  <2>2. ~Running /\ ~Running' /\ local' = local
    BY <1>4, <2>1, DrainWords DEF LocalFits, Running
  <2>3. CASE Doing' = "apply" /\ step' = "write"
    <3>1. Doing = "apply" /\ UNCHANGED <<asked, mode, wasRunning, gen, guards>> /\ step = "drain"
      BY <1>4, <2>3, DrainWords DEF Ended, Onward, GoesOn
    <3>2. drained' = ~local.runs
      BY <1>4, DrainWords
    <3>. QED BY <2>2, <3>1, <3>2 DEF LocalFits, WillRun, Fresh
  <2>4. CASE ~(Doing' = "apply" /\ step' = "write")
    <3>1. Doing' # "apply" \/ step' \notin {"drain", "write"}
      BY <1>4, <2>4, DrainWords DEF Ended, GoesOn
    <3>. QED BY <1>4, <2>2, <3>1, DrainWords, LocalStands
  <2>. QED BY <2>3, <2>4
<1>5. CASE Request
  <2>1. Shut /\ step \notin {"drain", "drain again"}
    BY <1>5, RequestWords DEF Shut
  <2>2. ~Running /\ ~Running' /\ local' = local /\ step' = "begin" /\ drained' = drained
    BY <1>5, <2>1, RequestWords DEF LocalFits, Running, Ended, Failed
  <2>. QED BY <2>1, <2>2, LocalStands
<1>6. CASE Apply
  <2>1. Shut /\ step \notin {"drain", "drain again"}
    BY <1>6, ApplyWords DEF Shut
  <2>2. /\ ~Running /\ ~Running' /\ local'.runs = local.runs /\ local'.writing = local.writing
        /\ step' = "begin" /\ drained' = drained
    BY <1>6, <2>1, ApplyWords DEF LocalFits, PointsAt, Ended
  <2>. QED BY <2>1, <2>2, LocalStands
<1>7. CASE ApplyFails
  <2>1. Shut /\ step = "write" /\ Doing = "apply" /\ ~Running
    BY <1>7, ApplyFailsWords DEF Shut, LocalFits
  <2>2. step' = "begin" /\ Doing' = "rest" /\ ~Shut'
    BY <1>7, ApplyFailsWords DEF Failed, Shut, Clearing
  <2>3. CASE wasRunning /\ Starts /\ asked' = asked
    <3>1. Fresh /\ mode # "NotRunning" /\ (local.target # NoTarget => local.target = asked)
      BY <2>1, <2>3 DEF LocalFits, WillRun
    <3>2. Fresh' /\ mode' # "NotRunning"
      BY <1>7, <3>1, ApplyFailsWords DEF Fresh
    <3>. QED BY <2>2, <2>3, <3>1, <3>2 DEF LocalFits, WillRun, Starts
  <2>4. CASE \E t : PointsAt(t)
    BY <2>1, <2>2, <2>4, LocalStands DEF PointsAt
  <2>. QED BY <1>7, <2>3, <2>4, ApplyFailsWords
<1>8. CASE Clear \/ ClearAgain
  <2>1. Shut /\ step \notin {"drain", "drain again"}
    BY <1>8, ClearWords DEF Shut
  <2>2. ~Running /\ ~Running' /\ local' = local /\ drained' = drained
    BY <1>8, <2>1, ClearWords DEF LocalFits, Running
  <2>3. step' \notin {"drain", "write"}
    BY <1>8, ClearWords DEF Ended, Failed, GoesOn
  <2>. QED BY <2>1, <2>2, <2>3, LocalStands
<1>9. CASE DrainAgain
  <2>1. ~Running /\ ~Running' /\ local' = local /\ drained' = ~local.runs /\ step' = "write again"
    BY <1>9, DrainAgainWords DEF LocalFits, Running, Shut, GoesOn
  <2>. QED BY <2>1, LocalStands
<1>10. CASE RefreshLocal \/ RefreshService
  <2>1. Doing = "refresh" /\ step = "guard" /\ step' = "begin" /\ Doing' \in {"rest", "try clear"}
        /\ UNCHANGED <<verge, mode, drained, wasRunning, gen, asked>> /\ Route' = Route
    BY <1>10, RefreshWords, RouteFacts DEF Ended, Onward
  <2>2. Shut /\ ~Running
    BY <2>1 DEF Shut, LocalFits
  <2>3. CASE Route = "Local" /\ GuardWanted /\ Starts /\ guards' = guards
    <3>1. ~Shut'
      BY <2>1, <2>3 DEF Shut, Clearing
    <3>2. Fresh'
      BY <2>1, <2>3 DEF RequestsFit, Fresh
    <3>3. mode' # "NotRunning" /\ local'.target = asked'
      BY <2>1, <2>3, RouteFacts DEF JobsFit, AppliedFit, Starts
    <3>. QED BY <2>1, <2>3, <3>1, <3>2, <3>3 DEF LocalFits, Starts
  <2>4. CASE Route = "Local" /\ ShutsDown
    <3>1. ~Shut'
      BY <2>1, <2>4 DEF Shut, Clearing
    <3>. QED BY <2>1, <2>4, <3>1, ShutDownFits
  <2>5. CASE local' = local
    <3>1. ~Running'
      BY <2>2, <2>5 DEF Running
    <3>. QED BY <2>1, <2>2, <2>5, <3>1, LocalStands
  <2>. QED BY <1>10, <2>3, <2>4, <2>5, RefreshWords
<1>11. CASE StopCore \/ StopRefused \/ Halt
  <2>1. Shut /\ step \notin {"drain", "drain again"}
    BY <1>11, StopWords DEF Shut
  <2>2. ~Running /\ ~Running' /\ local' = local /\ step' = "begin" /\ drained' = drained
    BY <1>11, <2>1, StopWords DEF LocalFits, Running, Ended, Failed
  <2>. QED BY <2>1, <2>2, LocalStands
<1>12. CASE JobStep
  <2>1. Fresh => Fresh'
    BY <1>12, JobWords DEF Fresh
  <2>2. ~Shut' /\ step' = "begin"
    BY <1>12, JobWords, RouteFacts DEF Shut, Clearing, core
  <2>. QED BY <1>12, <2>1, <2>2, JobWords, LocalRests DEF core
<1>13. CASE PatchStep
  <2>1. Fresh => Fresh'
    BY <1>13, PatchWords DEF Fresh
  <2>2. \/ Doing' = "rest" /\ ~Shut'
        \/ Doing' = "apply" /\ step' = "begin" /\ ~Shut'
        \/ Doing' = Doing /\ step' = step /\ Shut' = Shut
    BY <1>13, PatchWords, RouteFacts DEF Shut, Clearing
  <2>3. UNCHANGED <<local, wasRunning, asked, mode, drained>>
    BY <1>13, PatchWords
  <2>4. Running' <=> Running
    BY <2>3 DEF Running
  <2>5. WillRun' => WillRun
    BY <2>2, <2>3, <2>4 DEF WillRun
  <2>6. Shut' => Shut /\ step' = step
    BY <2>2
  <2>7. Shut' => ~Running' /\ (step' \notin {"drain", "drain again"} /\ drained' => ~local'.runs)
    BY <2>3, <2>4, <2>6 DEF LocalFits
  <2>8. local'.writing # NoTarget => local'.runs
    BY <2>3 DEF LocalFits
  <2>9. WillRun' => /\ Fresh' /\ mode' # "NotRunning"
                    /\ local'.target # NoTarget => local'.target = asked'
    BY <2>1, <2>3, <2>5 DEF LocalFits
  <2>. QED BY <2>7, <2>8, <2>9 DEF LocalFits
<1>14. ASSUME NEW g \in guards, GuardStep(g) PROVE LocalFits'
  <2>1. UNCHANGED <<local, wasRunning, asked, mode, drained, gen, step, Doing>>
    BY <1>14, Besides, GuardFrame
  <2>2. Fresh => Fresh'
    BY <1>14, <2>1, GuardWords DEF Types, Fresh, Same
  <2>3. Shut' = Shut /\ Running' = Running
    BY <2>1, RouteFacts DEF Shut, Clearing, Running
  <2>. QED BY <2>1, <2>2, <2>3 DEF LocalFits, WillRun
<1>15. CASE LocalStep
  <2>1. UNCHANGED <<wasRunning, asked, mode, drained, gen, guards, step, Doing>>
    BY <1>15, Besides, GuardFrame
  <2>2. Shut' = Shut /\ Fresh' = Fresh
    BY <2>1, RouteFacts DEF Shut, Clearing, Fresh
  <2>3. /\ local'.target = local.target /\ (local'.writing # NoTarget => local'.runs)
        /\ (Running' => Running) /\ (local'.runs => local.runs)
    BY <1>15, LoopWords DEF Types, Running, LocalFits, LocalTypes, LocalGuard
  <2>. QED BY <2>1, <2>2, <2>3 DEF LocalFits, WillRun
<1>16. CASE Outside
  <2>1. UNCHANGED <<local, wasRunning, asked, mode, drained, gen, guards, step, Doing>>
    BY <1>16, OutsideFrame
  <2>2. Shut' = Shut /\ Running' = Running /\ Fresh' = Fresh
    BY <2>1, RouteFacts DEF Shut, Clearing, Running, Fresh
  <2>. QED BY <2>1, <2>2 DEF LocalFits, WillRun
<1>. QED BY <1>1, <1>2, <1>3, <1>4, <1>5, <1>6, <1>7, <1>8, <1>9, <1>10, <1>11, <1>12, <1>13, <1>14,
            <1>15, <1>16 DEF Next, HolderStep, JobStep, PatchStep, Outside

-----------------------------------------------------------------------------
(* The guards of the Service *)

LEMMA NoRequests ==
    ASSUME IInv, lock # "guard" \/ Route = "Local" PROVE NoRequest
BY RouteFacts DEF IInv, RequestsFit, NoRequest, GuardsFit

\* No guard of the Service is at work without a session or under an old generation.
LEMMA NoServiceGuards ==
    ASSUME Types, GuardsFit, Fresh \/ Route = "Local" \/ mode # "Service" PROVE ServiceGuards = {}
<1>1. gen \in Nat /\ \A g \in guards : g.gen \in Nat
  BY DEF Types, GuardTypes, Guards
<1>. QED BY <1>1, RouteFacts DEF Fresh, ServiceGuards, Current, GuardsFit

LEMMA RequestsStand ==
    ASSUME RequestsFit, guards' = guards, NoRequest \/ UNCHANGED <<lock, mode, asked>>,
           Locked' => lock' = "job",
           Locked' \/ step' \in {"lock", "guard"} => Fresh',
           Doing' \in {"stop core", "halt", "halting"} /\ Route' = "Service" => Fresh' /\ NoRequest'
    PROVE  RequestsFit'
BY DEF RequestsFit, NoRequest

\* At the beginning of a call, or where it goes on without the lock.
LEMMA RequestsBegin ==
    ASSUME RequestsFit, guards' = guards, NoRequest \/ UNCHANGED <<lock, mode, asked>>,
           step' \in {"begin", "write", "drain again", "write again"},
           Doing' \in {"stop core", "halt", "halting"} /\ Route' = "Service" => Fresh' /\ NoRequest'
    PROVE  RequestsFit'
BY RequestsStand DEF Locked

LEMMA RequestsKept ==
    ASSUME Types, IInv, Next
    PROVE  RequestsFit'
<1>. USE DEF IInv
<1>1. CASE BeginDrain
  <2>1. Doing' \notin {"refresh", "stop guard", "stop core", "halt"} /\ step' = "drain"
        /\ (Doing' = "halting" => Route' = "Local")
    BY <1>1, BeginWords, RouteFacts DEF GoesOn, Clearing
  <2>. QED BY <1>1, <2>1, BeginWords, RequestsStand DEF Locked
<1>2. CASE BeginQueue
  <2>1. Fresh' /\ step' = "lock" /\ Doing' = Doing /\ Route' = Route
    BY <1>2, QueueWords, FreshKept, RouteFacts DEF GoesOn
  <2>2. Doing' \in {"stop core", "halt", "halting"} /\ Route' = "Service" => NoRequest'
    BY <1>2, <2>1, QueueWords DEF RequestsFit, NoRequest
  <2>. QED BY <1>2, <2>1, <2>2, QueueWords, RequestsStand DEF Locked
<1>3. CASE Lock
  <2>1. NoRequest /\ NoRequest'
    BY <1>3, LockWords, NoRequests DEF NoRequest
  <2>2. Fresh /\ Fresh'
    BY <1>3, LockWords DEF RequestsFit, Fresh
  <2>. QED BY <1>3, <2>1, <2>2, LockWords, RequestsStand DEF GoesOn
<1>4. CASE Drain
  <2>1. CASE Doing \in {"stop guard", "refresh"}
    <3>1. Locked
      BY <1>4, <2>1, DrainWords DEF Locked
    <3>2. NoRequest /\ NoRequest' /\ Fresh
      BY <1>4, <3>1, DrainWords, NoRequests DEF RequestsFit, NoRequest
    <3>3. Fresh'
      BY <1>4, <2>1, <3>2, DrainWords, FreshKept
    <3>4. step' \in {"begin", "guard"} /\ ~Locked'
      BY <1>4, <2>1, DrainWords DEF Ended, GoesOn, Locked, Clearing
    <3>. QED BY <1>4, <3>2, <3>3, <3>4, DrainWords, RequestsStand
  <2>2. CASE Doing = "apply" /\ GoesOn("lock") /\ gen' = gen + 1
    <3>1. Fresh'
      BY <1>4, <2>2, DrainWords, FreshKept
    <3>. QED BY <1>4, <2>2, <3>1, DrainWords, RequestsStand DEF GoesOn, Locked
  <2>3. CASE Route = "Local" /\ GoesOn("write")
    <3>1. Route' = "Local" /\ NoRequest
      BY <1>4, <2>3, DrainWords, RouteFacts, NoRequests
    <3>. QED BY <1>4, <2>3, <3>1, DrainWords, RequestsBegin DEF GoesOn
  <2>. QED BY <1>4, <2>1, <2>2, <2>3, DrainWords
<1>5. CASE Request
  <2>1. Locked
    BY <1>5, RequestWords DEF Locked
  <2>2. NoRequest /\ NoRequest' /\ Fresh /\ Fresh'
    BY <1>5, <2>1, RequestWords, NoRequests DEF RequestsFit, NoRequest, Fresh
  <2>. QED BY <1>5, <2>2, RequestWords, RequestsBegin DEF Ended, Failed
<1>6. CASE Apply \/ ApplyFails
  <2>1. Doing = "apply" /\ step = "write" /\ mode' = mode /\ guards' = guards /\ step' = "begin"
    BY <1>6, ApplyWords, ApplyFailsWords DEF Ended, Failed
  <2>2. Route = "Local" /\ Route' = "Local"
    BY <2>1, RouteFacts DEF PlacesFit
  <2>. QED BY <2>1, <2>2, NoRequests, RequestsBegin
<1>7. CASE Clear \/ ClearAgain \/ DrainAgain
  <2>1. Route = "Local" /\ Route' = "Local" /\ guards' = guards
    BY <1>7, ClearWords, DrainAgainWords, RouteFacts
  <2>2. step' \in {"begin", "drain again", "write again"}
    BY <1>7, ClearWords, DrainAgainWords DEF Ended, Failed, GoesOn
  <2>. QED BY <2>1, <2>2, NoRequests, RequestsBegin
<1>8. CASE RefreshLocal \/ RefreshService
  <2>1. step' = "begin" /\ Doing' \in {"rest", "try clear"} /\ UNCHANGED <<lock, mode, asked>>
    BY <1>8, RefreshWords DEF Ended, Onward
  <2>2. \A g \in guards' : g.pc = "requesting" => g \in guards
    BY <1>8, RefreshWords, NewGuardWords DEF Types
  <2>. QED BY <2>1, <2>2 DEF RequestsFit, Locked
<1>9. CASE StopCore \/ StopRefused \/ Halt
  <2>1. NoRequest
    BY <1>9, StopWords, NoRequests, RouteFacts DEF RequestsFit
  <2>2. step' = "begin" /\ Doing' = "rest" /\ guards' = guards
    BY <1>9, StopWords DEF Ended, Onward, Failed
  <2>. QED BY <2>1, <2>2, RequestsBegin
<1>10. CASE JobStep
  <2>1. Doing' \notin {"stop core", "halt", "halting"} /\ step' = "begin" /\ UNCHANGED <<guards, lock, asked>>
    BY <1>10, JobWords
  <2>2. NoRequest \/ mode' = mode
    <3>1. mode = "NotRunning" => NoRequest
      BY DEF RequestsFit, NoRequest
    <3>. QED BY <1>10, <3>1, JobWords DEF core
  <2>. QED BY <2>1, <2>2, RequestsBegin
<1>11. CASE PatchStep
  <2>1. UNCHANGED <<guards, lock, asked, mode, gen>> /\ Route' = Route /\ Fresh' = Fresh /\ NoRequest' = NoRequest
    BY <1>11, PatchWords, RouteFacts DEF Fresh, NoRequest
  <2>2. \/ Doing' = "rest" /\ step' = step
        \/ Doing' = "apply" /\ step' = "begin"
        \/ Doing' = Doing /\ step' = step
    BY <1>11, PatchWords
  <2>3. (Locked' => Locked) /\ (step' \in {"lock", "guard"} => step \in {"lock", "guard"})
    BY <2>2 DEF Locked
  <2>4. Doing' \in {"stop core", "halt", "halting"} => Doing' = Doing
    BY <2>2
  <2>. QED BY <2>1, <2>3, <2>4, RequestsStand DEF RequestsFit
<1>12. ASSUME NEW g \in guards, GuardStep(g) PROVE RequestsFit'
  <2>1. UNCHANGED <<asked, mode, gen, step, Doing>>
    BY <1>12, Besides, GuardFrame
  <2>2. Route' = Route /\ (Locked' <=> Locked)
    BY <2>1, RouteFacts DEF Locked
  <2>3. Fresh => Fresh'
    BY <1>12, <2>1, GuardWords DEF Types, Fresh, Same
  <2>4. CASE guards' = guards \ {g} /\ lock' = lock
    BY <2>1, <2>2, <2>3, <2>4 DEF RequestsFit, NoRequest
  <2>5. CASE \E h : /\ guards' = (guards \ {g}) \cup {h} /\ Same(h, g)
                    /\ g.pc = "sleeping" /\ lock = "free" /\ lock' = "guard" /\ Current(g)
                    /\ h.pc = "requesting"
    <3>1. NoRequest /\ ~Locked /\ ~Fresh
      <4>1. gen \in Nat
        BY DEF Types, GuardTypes
      <4>2. NoRequest
        BY <2>5, NoRequests
      <4>3. ~Locked
        BY <2>5 DEF RequestsFit
      <4>4. ~Fresh
        <5>1. g.gen = gen
          BY <2>5 DEF Current
        <5>. QED BY <4>1, <5>1 DEF Fresh
      <4>. QED BY <4>2, <4>3, <4>4
    <3>2. g.target = asked /\ mode = "Service"
      BY <2>5 DEF GuardsFit, ServiceGuards, Current
    <3>. QED BY <2>1, <2>2, <2>3, <2>5, <3>1, <3>2 DEF RequestsFit, NoRequest, Same
  <2>6. CASE \E h : /\ guards' = (guards \ {g}) \cup {h} /\ g.pc = "requesting" /\ lock' = "free"
                    /\ h.pc \in {"sleeping", "reporting"}
    <3>1. NoRequest' /\ ~Locked /\ ~NoRequest
      BY <2>6 DEF RequestsFit, NoRequest
    <3>. QED BY <2>1, <2>2, <2>3, <3>1 DEF RequestsFit, NoRequest
  <2>. QED BY <1>12, <2>4, <2>5, <2>6, GuardWords DEF Types
<1>13. CASE LocalStep \/ Outside
  <2>1. UNCHANGED <<guards, lock, asked, mode, gen, step, Doing>>
    BY <1>13, Besides, GuardFrame, OutsideFrame
  <2>2. Route' = Route /\ (Locked' <=> Locked) /\ (Fresh' <=> Fresh) /\ (NoRequest' <=> NoRequest)
    BY <2>1, RouteFacts DEF Locked, Fresh, NoRequest
  <2>. QED BY <2>1, <2>2 DEF RequestsFit
<1>. QED BY <1>1, <1>2, <1>3, <1>4, <1>5, <1>6, <1>7, <1>8, <1>9, <1>10, <1>11, <1>12, <1>13
         DEF Next, HolderStep, JobStep, PatchStep, Outside

LEMMA GuardsStand ==
    ASSUME Types, Types', GuardsFit, guards' = guards, jobs' \in {jobs, jobs + 1}, session' <= jobs',
           gen' \in {gen, gen + 1},
           \/ Fresh' \/ Route' = "Local" \/ mode' # "Service"
           \/ UNCHANGED <<gen, mode, session, asked>> /\ (notice' => notice)
    PROVE  GuardsFit'
<1>1. /\ gen \in Nat /\ jobs \in Nat /\ gen' >= gen /\ jobs' >= jobs
      /\ \A g \in guards : g.gen \in Nat /\ g.proof \in Nat
  BY DEF Types, GuardTypes, ControlTypes, Guards
<1>2. /\ guards' # {} => IsMacOS
      /\ session' <= jobs'
      /\ \A g \in guards' : g.gen <= gen' /\ g.proof <= jobs'
      /\ \A g, h \in guards' : g.gen = h.gen => g = h
  BY <1>1 DEF GuardsFit
<1>3. CASE Fresh' \/ Route' = "Local" \/ mode' # "Service"
  <2>1. \A g \in guards' : g.gen \in Nat
    BY <1>1
  <2>2. ServiceGuards' = {}
    BY <1>2, <1>3, <2>1 DEF Fresh, Route, ServiceGuards, Current, Types, GuardTypes
  <2>. QED BY <1>2, <2>2 DEF GuardsFit
<1>4. CASE UNCHANGED <<gen, mode, session, asked>> /\ (notice' => notice)
  <2>1. ServiceGuards' = ServiceGuards
    BY <1>4 DEF ServiceGuards, Current
  <2>. QED BY <1>2, <1>4, <2>1 DEF GuardsFit
<1>. QED BY <1>3, <1>4

LEMMA GuardsKept ==
    ASSUME Types, Types', IInv, Next
    PROVE  GuardsFit'
<1>. USE DEF IInv
<1>0. jobs \in Nat /\ jobs + 1 \in Nat /\ gen \in Nat /\ session \in Nat /\ session <= jobs /\ session <= jobs + 1
  <2>1. jobs \in Nat /\ gen \in Nat /\ session \in Nat /\ session <= jobs
    BY DEF Types, ControlTypes, CoreTypes, GuardTypes, GuardsFit
  <2>. QED BY <2>1
<1>1. CASE BeginDrain \/ Lock
  <2>1. UNCHANGED <<mode, session, guards, gen, asked, jobs, notice>>
    BY <1>1, BeginWords, LockWords
  <2>. QED BY <1>0, <2>1, GuardsStand
<1>2. CASE BeginQueue
  <2>1. Fresh'
    BY <1>2, QueueWords, FreshKept
  <2>. QED BY <1>0, <1>2, <2>1, QueueWords, GuardsStand
<1>3. CASE Drain
  <2>1. gen' = gen \/ (gen' = gen + 1 /\ Fresh')
    BY <1>3, DrainWords, FreshKept
  <2>2. UNCHANGED <<mode, session, guards, asked, jobs, notice>>
    BY <1>3, DrainWords
  <2>. QED BY <1>0, <2>1, <2>2, GuardsStand
<1>4. CASE Request
  <2>1. Fresh'
    BY <1>4, RequestWords DEF RequestsFit, Fresh, Locked
  <2>. QED BY <1>0, <1>4, <2>1, RequestWords, GuardsStand
<1>5. CASE Apply \/ ApplyFails \/ Clear \/ ClearAgain \/ DrainAgain
  <2>1. UNCHANGED <<mode, session, guards, gen, jobs, notice>>
    BY <1>5, ApplyWords, ApplyFailsWords, ClearWords, DrainAgainWords
  <2>2. Route = "Local"
    BY <1>5, ApplyWords, ApplyFailsWords, ClearWords, DrainAgainWords DEF PlacesFit
  <2>. QED BY <1>0, <2>1, <2>2, RouteFacts, GuardsStand
<1>6. CASE RefreshLocal \/ RefreshService
  <2>1. Doing = "refresh" /\ UNCHANGED <<verge, mode, session, gen, asked, jobs>> /\ Fresh
        /\ asked = verge.proxy
    BY <1>6, RefreshWords DEF RequestsFit, AppliedFit
  <2>2. CASE guards' = guards
    BY <1>0, <2>1, <2>2, GuardsStand DEF Fresh
  <2>3. CASE Route = "Service" /\ GuardWanted /\ notice' = FALSE /\ guards' = guards \cup {NewGuard}
    <3>1. NewGuard.gen = gen /\ NewGuard.proof = session /\ NewGuard.target = asked
      BY <2>1, <2>3, NewGuardWords DEF Types
    <3>2. /\ IsMacOS /\ session' <= jobs'
          /\ \A g \in guards' : g.gen <= gen' /\ g.proof <= jobs'
      BY <1>0, <2>1, <2>3, <3>1, RouteFacts DEF GuardsFit
    <3>3. \A g, h \in guards' : g.gen = h.gen => g = h
      <4>1. \A g \in guards : g.gen # gen
        <5>1. \A g \in guards : g.gen \in Nat /\ g.gen < gen
          BY <2>1 DEF Fresh, Types, GuardTypes, Guards
        <5>. QED BY <1>0, <5>1
      <4>. QED BY <2>3, <3>1, <4>1 DEF GuardsFit
    <3>4. \A g \in ServiceGuards' : g.target = asked'
      <4>1. \A g \in guards : g.gen \in Nat /\ g.gen < gen
        BY <2>1 DEF Fresh, Types, GuardTypes, Guards
      <4>2. \A g \in guards : g.gen # gen
        BY <1>0, <4>1
      <4>. QED BY <2>1, <2>3, <3>1, <4>2 DEF ServiceGuards, Current
    <3>. QED BY <2>3, <3>2, <3>3, <3>4 DEF GuardsFit
  <2>. QED BY <1>6, <2>2, <2>3, RefreshWords
<1>7. CASE StopCore \/ StopRefused \/ Halt
  <2>1. NoSession <= jobs
    BY <1>0 DEF NoSession
  <2>2. UNCHANGED <<guards, gen, jobs, notice>>
    BY <1>7, StopWords
  <2>3. (mode' = "NotRunning" /\ session' = NoSession) \/ UNCHANGED <<mode, session, asked>>
    BY <1>7, StopWords
  <2>. QED BY <1>0, <2>1, <2>2, <2>3, GuardsStand
<1>8. CASE JobStep
  <2>1. UNCHANGED <<gen, guards, asked, notice>> /\ jobs' = jobs + 1
    BY <1>8, JobWords
  <2>2. CASE UNCHANGED <<mode, session>>
    BY <1>0, <2>1, <2>2, GuardsStand
  <2>3. CASE mode' = "Sidecar" /\ session' = session
    BY <1>0, <2>1, <2>3, GuardsStand
  <2>4. CASE session' = jobs + 1
    <3>1. \A g \in guards' : g.proof \in Nat /\ g.proof <= jobs
      BY <2>1 DEF GuardsFit, Types, GuardTypes, Guards
    <3>2. \A g \in guards' : g.proof # session'
      BY <1>0, <2>4, <3>1
    <3>3. ServiceGuards' = {}
      BY <3>2 DEF ServiceGuards, Current
    <3>4. \A g \in guards' : g.proof <= jobs'
      BY <1>0, <2>1, <3>1
    <3>5. session' <= jobs'
      BY <1>0, <2>1, <2>4
    <3>. QED BY <2>1, <3>3, <3>4, <3>5 DEF GuardsFit
  <2>. QED BY <1>8, <2>2, <2>3, <2>4, JobWords DEF core
<1>9. CASE PatchStep
  BY <1>0, <1>9, PatchWords, GuardsStand
<1>10. ASSUME NEW g \in guards, GuardStep(g) PROVE GuardsFit'
  <2>1. UNCHANGED <<gen, mode, session, asked, jobs>>
    BY <1>10, Besides, GuardFrame
  <2>2. CASE guards' = guards \ {g} /\ g.pc # "requesting"
    <3>1. ServiceGuards' \subseteq ServiceGuards
      BY <2>1, <2>2 DEF ServiceGuards, Current
    <3>2. notice' => ServiceGuards' = {}
      <4>1. CASE notice' = notice
        BY <3>1, <4>1 DEF GuardsFit
      <4>2. CASE g.pc = "reporting" /\ notice' = (notice \/ g.gen = gen)
        <5>1. g.gen = gen => ServiceGuards' = {}
          BY <2>1, <2>2, <4>2 DEF GuardsFit, ServiceGuards, Current
        <5>. QED BY <3>1, <4>2, <5>1 DEF GuardsFit
      <4>. QED BY <1>10, <2>2, <4>1, <4>2, GuardWords DEF Types
    <3>. QED BY <2>1, <2>2, <3>1, <3>2 DEF GuardsFit
  <2>3. CASE \E h : /\ guards' = (guards \ {g}) \cup {h} /\ Same(h, g) /\ notice' = notice
                    /\ g.pc # "reporting"
    <3>1. PICK h : /\ guards' = (guards \ {g}) \cup {h} /\ Same(h, g) /\ notice' = notice
                   /\ g.pc # "reporting"
      BY <2>3
    <3>2. h.gen = g.gen /\ h.proof = g.proof /\ h.target = g.target
      BY <3>1 DEF Same
    <3>3. \A k \in ServiceGuards' : k \in ServiceGuards \/ (k = h /\ g \in ServiceGuards)
      BY <2>1, <3>1, <3>2 DEF ServiceGuards, Current
    <3>4. (notice' => ServiceGuards' = {}) /\ \A k \in ServiceGuards' : k.target = asked'
      BY <2>1, <3>1, <3>2, <3>3 DEF GuardsFit
    <3>5. /\ guards' # {} => IsMacOS
          /\ \A k \in guards' : k.gen <= gen' /\ k.proof <= jobs'
          /\ \A k, l \in guards' : k.gen = l.gen => k = l
      BY <2>1, <3>1, <3>2 DEF GuardsFit
    <3>. QED BY <1>0, <2>1, <3>4, <3>5 DEF GuardsFit
  <2>. QED BY <1>10, <2>2, <2>3, GuardWords DEF Types
<1>11. CASE LocalStep \/ Outside
  <2>1. UNCHANGED <<guards, gen, mode, session, asked, jobs, notice>>
    BY <1>11, Besides, GuardFrame, OutsideFrame
  <2>. QED BY <1>0, <2>1, GuardsStand
<1>. QED BY <1>1, <1>2, <1>3, <1>4, <1>5, <1>6, <1>7, <1>8, <1>9, <1>10, <1>11
         DEF Next, HolderStep, JobStep, PatchStep, Outside

-----------------------------------------------------------------------------
(* The theorems *)

LEMMA InitFits == Init => IInv
<1>. SUFFICES ASSUME Init PROVE IInv
  OBVIOUS
<1>1. Doing = "rest" /\ calls \in Outlooks
  BY Firsts DEF Init, Doing, Outlooks
<1>2. ~Running
  BY DEF Init, Running
<1>3. PlacesFit /\ JobsFit /\ AppliedFit
  BY <1>1 DEF Init, PlacesFit, JobsFit, AppliedFit, Clearing
<1>4. LocalFits
  BY <1>1, <1>2 DEF Init, LocalFits, Shut, WillRun, Clearing
<1>5. RequestsFit
  BY <1>1 DEF Init, RequestsFit, Locked
<1>6. GuardsFit
  BY DEF Init, GuardsFit, ServiceGuards, NoSession
<1>7. SettingFits
  BY DEF Init, SettingFits
<1>. QED BY <1>3, <1>4, <1>5, <1>6, <1>7 DEF IInv

LEMMA StutterFits ==
    ASSUME IInv, UNCHANGED vars PROVE IInv'
<1>1. UNCHANGED <<verge, before, patch, mode, session, svc, calls, step, checked, drained, wasRunning,
                  gen, lock, guards, local, notice, os, asked, loose, jobs>>
  BY DEF vars, config, core, holder, setting
<1>2. UNCHANGED <<Doing, Route>> /\ (Running' <=> Running) /\ (Fresh' <=> Fresh) /\ (NoRequest' <=> NoRequest)
      /\ ServiceGuards' = ServiceGuards
  BY <1>1 DEF Doing, Route, Running, Fresh, NoRequest, ServiceGuards, Current
<1>3. (Shut' <=> Shut) /\ (WillRun' <=> WillRun) /\ (Locked' <=> Locked) /\ (GuardWanted' <=> GuardWanted)
  BY <1>1, <1>2 DEF Shut, WillRun, Locked, Clearing, GuardWanted
<1>4. PlacesFit' /\ JobsFit' /\ AppliedFit'
  BY <1>1, <1>2, <1>3 DEF IInv, PlacesFit, JobsFit, AppliedFit, Clearing
<1>5. LocalFits'
  BY <1>1, <1>2, <1>3 DEF IInv, LocalFits
<1>6. RequestsFit' /\ GuardsFit' /\ SettingFits'
  BY <1>1, <1>2, <1>3 DEF IInv, RequestsFit, GuardsFit, SettingFits
<1>. QED BY <1>4, <1>5, <1>6 DEF IInv

\* The invariant holds of every behaviour.
THEOREM Invariance == Spec => [](Types /\ IInv)
<1>1. Init => Types /\ IInv
  BY InitTypes, InitFits
<1>2. Types /\ IInv /\ [Next]_vars => Types' /\ IInv'
  <2>. SUFFICES ASSUME Types, IInv, [Next]_vars PROVE Types' /\ IInv'
    OBVIOUS
  <2>1. Types'
    BY TypesKept
  <2>2. CASE Next
    BY <2>1, <2>2, PlacesKept, JobsKept, AppliedKept, LocalKept, RequestsKept, GuardsKept, SettingKept
       DEF IInv
  <2>3. CASE UNCHANGED vars
    BY <2>1, <2>3, StutterFits
  <2>. QED BY <2>2, <2>3
<1>. QED BY <1>1, <1>2, PTL DEF Spec

\* However jobs, guards and the Service interleave, the words they share keep their
\* types: the typing of ServiceProxyOperations, the GuardMonitor and Sysopt.
THEOREM TypeCorrect == Spec => []TypeOK
BY Invariance, TypesAreTypeOK, PTL

\* Once a job is over, what is set is what the last apply or clear asked for, however long
\* a write of the local guard hung: it is only ever brought back by a write the
\* job knew to be loose (disable_and_drain, cancel_and_drain, reset_sysproxy).
THEOREM NoTargetComesBack == Spec => []NoStaleTarget
<1>1. Types /\ IInv => NoStaleTarget
  BY DEF IInv, SettingFits, NoStaleTarget
<1>. QED BY <1>1, Invariance, PTL

\* The local guard and those of the Service never enforce side by side.
LEMMA Either ==
    ASSUME Types, IInv, NEW a \in Enforcers, NEW b \in Enforcers
    PROVE  a = b
<1>1. LocalGuards # {} => LocalGuards = {local} /\ ServiceGuards = {}
  <2>1. LocalGuards # {} => Fresh /\ LocalGuards = {local}
    BY DEF LocalGuards, IInv, LocalFits, WillRun
  <2>. QED BY <2>1, NoServiceGuards DEF IInv
<1>2. \A g, h \in ServiceGuards : g = h
  BY DEF IInv, GuardsFit, ServiceGuards, Current
<1>. QED BY <1>1, <1>2 DEF Enforcers

\* For any targets, settings and limit of failures: of the local guard and the guards of
\* the Service at most one enforces; at rest it enforces what was last asked for, never
\* for a core that is gone, and none does while the failure says the guard has stopped
\* (refresh_guard, run_guard_request, recover_guard_after_failure, report_guard_stopped).
THEOREM GuardsAlwaysAgree == Spec => []GuardsAgree
<1>1. Types /\ IInv => GuardsAgree
  <2>. SUFFICES ASSUME Types, IInv PROVE GuardsAgree
    OBVIOUS
  <2>1. OneEnforcer
    <3>1. Enforcers = {} \/ \E a : Enforcers = {a}
      BY Either
    <3>2. Cardinality({}) = 0
      BY FS_EmptySet
    <3>3. \A a : Cardinality({a}) = 1
      BY FS_Singleton
    <3>4. Cardinality(Enforcers) \in {0, 1}
      BY <3>1, <3>2, <3>3
    <3>. QED BY <3>4 DEF OneEnforcer
  <2>2. \A g \in LocalGuards : g.target = asked /\ mode # "NotRunning"
    BY DEF LocalGuards, IInv, LocalFits, WillRun
  <2>3. \A g \in ServiceGuards : g.target = asked /\ mode = "Service"
    BY DEF IInv, GuardsFit, ServiceGuards, Current
  <2>4. EnforcersAgree /\ NoEnforcerWithoutCore
    BY <2>2, <2>3 DEF Enforcers, EnforcersAgree, NoEnforcerWithoutCore
  <2>5. NoticeMeansStopped
    BY DEF IInv, GuardsFit, NoticeMeansStopped
  <2>. QED BY <2>1, <2>4, <2>5, TypesAreTypeOK DEF GuardsAgree
<1>. QED BY <1>1, Invariance, PTL

-----------------------------------------------------------------------------
(* The tray: the inductive invariant *)

Flying(t)  == drawing[t].at \in {"fetch", "set"}
Dropped(t) == drawing[t].does \in {"superseded", "replaced"}

\* The lists of surfaces that tasks work through, and those a purpose goes with.
Todos == {<<>>, <<"menu">>, <<"icon">>, <<"tooltip">>, <<"icon", "tooltip">>, <<"tooltip", "menu">>, <<"menu", "icon">>,
          <<"menu", "icon", "tooltip">>, <<"bare", "icon", "tooltip">>}
TodosOf(does) ==
    CASE does = NoTask  -> Todos
      [] does = "patch" -> {<<"menu", "icon", "tooltip">>, <<"icon", "tooltip">>, <<"tooltip">>, <<>>}
      [] does = "sync"  -> {<<"menu">>, <<>>}
      [] does \in {"activate", "superseded", "replaced"} -> {<<"tooltip", "menu">>, <<"menu">>}
      [] OTHER -> {}

\* The surfaces of a list, and those for which a task still has to read.
Named(name) == IF name = "bare" THEN "menu" ELSE name
Names(todo) == {Named(todo[i]) : i \in DOMAIN todo}
Left(t)     == IF Flying(t) THEN Names(Tail(drawing[t].todo)) ELSE Names(drawing[t].todo)

\* What a task looks like at each place and for each purpose.
TaskFits(t) ==
    /\ drawing[t].at \in {"idle", "next", "fetch", "set", "pend", "stopping", "stopped"}
    /\ drawing[t].overtaken \in BOOLEAN
    /\ drawing[t].todo \in TodosOf(drawing[t].does)
    /\ DrawingAt(t, "next") /\ drawing[t].todo = <<>> => drawing[t].does \in {"patch", "sync"}
    /\ DrawingAt(t, "idle") \/ DrawingAt(t, "pend") => Does(t, NoTask) /\ drawing[t].todo = <<>>
    /\ DrawingAt(t, "stopping") \/ DrawingAt(t, "stopped") => Does(t, "sync") /\ drawing[t].todo = <<>>
    /\ Flying(t) => drawing[t].todo # <<>> /\ drawing[t].saw \in [Shows(Surface(t)) -> -1..MaxTrayEvents]
    /\ DrawingAt(t, "fetch") => Head(drawing[t].todo) = "menu"

TasksFit ==
    /\ drawing = [t \in TrayTasks |-> [at |-> drawing[t].at, does |-> drawing[t].does, todo |-> drawing[t].todo,
                                       saw |-> drawing[t].saw, overtaken |-> drawing[t].overtaken]]
    /\ \A t \in TrayTasks : TaskFits(t)
    /\ Does(Spawned, NoTask) /\ drawing[Spawned].todo \in {<<>>, <<"menu">>}

\* One patch is under way, and one loop runs, and the flag of each knows.
Patching(t) == Does(t, "patch")
Syncing(t)  == Does(t, "sync") /\ ~DrawingAt(t, "stopped")
SyncFits ==
    /\ \A t, u \in TrayTasks : Patching(t) /\ Patching(u) => t = u
    /\ stagedFacts <=> \E t \in TrayTasks : Patching(t)
    /\ \A t, u \in TrayTasks : Syncing(t) /\ Syncing(u) => t = u
    /\ syncRunning <=> \E t \in TrayTasks : Syncing(t)

\* Somebody will still read the state for a surface, or say that it is missed.
Serves(t, s) ==
    \/ s \in Left(t) /\ ~Dropped(t) /\ (s = "icon" /\ stagedFacts => Patching(t))
    \/ s = "tooltip" /\ DrawingAt(t, "next") /\ Does(t, "superseded") /\ drawing[t].todo = <<"tooltip", "menu">>
    \/ s = "menu" /\ (DrawingAt(t, "pend") \/ (syncPending /\ Does(t, "sync")))
Due(s) == \E t \in TrayTasks : Serves(t, s)

Says(s, view) == \A f \in Shows(s) : view[f] = Latest[f] \/ (f = "node" /\ view[f] = -1 /\ trayFailures > 0)

\* The update of a surface whose result will count.
Counts(t, s) == Flying(t) /\ Surface(t) = s /\ ~drawing[t].overtaken

\* A surface says what is the case, or will; and so does what will be shown next.
SurfaceFits(s) ==
    /\ s \in old \/ Says(s, shown[s]) \/ Due(s) \/ \E t \in TrayTasks : Counts(t, s)
    /\ \A t \in TrayTasks : Counts(t, s) => Says(s, drawing[t].saw) \/ Due(s)

TrayTypes ==
    /\ TrayTypeOK /\ syncRunning \in BOOLEAN /\ syncPending \in BOOLEAN
    /\ DOMAIN shown = Surfaces
    /\ trayChanges \in Nat /\ trayFailures \in Nat
    /\ \A f \in Facts : Latest[f] <= trayChanges /\ Latest[f] <= MaxTrayEvents

TrayInvariant == TrayTypes /\ TasksFit /\ SyncFits /\ \A s \in Surfaces : SurfaceFits(s)

TraySpec == TrayInit /\ [][TrayNext]_trayVars

\* The task that update_part leaves behind is none of the callers.
TrayBounds == Spawned \notin Callers /\ MaxTrayEvents \in Nat

-----------------------------------------------------------------------------
(* The tray: lists of surfaces *)

LEMMA ListEnds ==
    /\ Tail(<<"menu">>) = <<>> /\ Tail(<<"icon">>) = <<>> /\ Tail(<<"tooltip">>) = <<>>
    /\ Tail(<<"icon", "tooltip">>) = <<"tooltip">> /\ Tail(<<"tooltip", "menu">>) = <<"menu">>
    /\ Tail(<<"menu", "icon">>) = <<"icon">>
    /\ Tail(<<"menu", "icon", "tooltip">>) = <<"icon", "tooltip">>
    /\ Tail(<<"bare", "icon", "tooltip">>) = <<"icon", "tooltip">>
OBVIOUS

LEMMA ListNames ==
    /\ Names(<<>>) = {} /\ Names(<<"menu">>) = {"menu"} /\ Names(<<"icon">>) = {"icon"} /\ Names(<<"tooltip">>) = {"tooltip"}
    /\ Names(<<"icon", "tooltip">>) = {"icon", "tooltip"} /\ Names(<<"tooltip", "menu">>) = {"tooltip", "menu"}
    /\ Names(<<"menu", "icon">>) = {"menu", "icon"}
    /\ Names(<<"menu", "icon", "tooltip">>) = Surfaces
    /\ Names(<<"bare", "icon", "tooltip">>) = Surfaces
<1>1. Names(<<>>) = {}
  BY DEF Names
<1>2. \A a : Names(<<a>>) = {Named(a)}
  BY DEF Names
<1>3. \A a, b : Names(<<a, b>>) = {Named(a), Named(b)}
  BY DEF Names
<1>4. \A a, b, c : Names(<<a, b, c>>) = {Named(a), Named(b), Named(c)}
  BY DEF Names
<1> QED BY <1>1, <1>2, <1>3, <1>4 DEF Named, Surfaces

ListEndsWell(todo) ==
    /\ Named(Head(todo)) \in Surfaces /\ Names(todo) = {Named(Head(todo))} \cup Names(Tail(todo)) /\ Names(todo) \subseteq Surfaces
    /\ Tail(todo) \in Todos /\ (Len(todo) = 1 <=> Tail(todo) = <<>>)

LEMMA ListsEndWell == \A todo \in Todos : todo # <<>> => ListEndsWell(todo)
<1>1. ListEndsWell(<<"menu">>)
  <2>1. Head(<<"menu">>) = "menu" /\ Len(<<"menu">>) = 1
    OBVIOUS
  <2>2. Tail(<<"menu">>) = <<>>
    BY ListEnds
  <2> QED BY <2>1, <2>2, ListEnds, ListNames DEF ListEndsWell, Named, Surfaces, Todos
<1>2. ListEndsWell(<<"icon">>)
  <2>1. Head(<<"icon">>) = "icon" /\ Len(<<"icon">>) = 1
    OBVIOUS
  <2>2. Tail(<<"icon">>) = <<>>
    BY ListEnds
  <2> QED BY <2>1, <2>2, ListEnds, ListNames DEF ListEndsWell, Named, Surfaces, Todos
<1>3. ListEndsWell(<<"tooltip">>)
  <2>1. Head(<<"tooltip">>) = "tooltip" /\ Len(<<"tooltip">>) = 1
    OBVIOUS
  <2>2. Tail(<<"tooltip">>) = <<>>
    BY ListEnds
  <2> QED BY <2>1, <2>2, ListEnds, ListNames DEF ListEndsWell, Named, Surfaces, Todos
<1>4. ListEndsWell(<<"icon", "tooltip">>)
  <2>1. Head(<<"icon", "tooltip">>) = "icon" /\ Len(<<"icon", "tooltip">>) = 2
    OBVIOUS
  <2>2. Tail(<<"icon", "tooltip">>) # <<>>
    BY ListEnds
  <2> QED BY <2>1, <2>2, ListEnds, ListNames DEF ListEndsWell, Named, Surfaces, Todos
<1>5. ListEndsWell(<<"tooltip", "menu">>)
  <2>1. Head(<<"tooltip", "menu">>) = "tooltip" /\ Len(<<"tooltip", "menu">>) = 2
    OBVIOUS
  <2>2. Tail(<<"tooltip", "menu">>) # <<>>
    BY ListEnds
  <2> QED BY <2>1, <2>2, ListEnds, ListNames DEF ListEndsWell, Named, Surfaces, Todos
<1>6. ListEndsWell(<<"menu", "icon">>)
  <2>1. Head(<<"menu", "icon">>) = "menu" /\ Len(<<"menu", "icon">>) = 2
    OBVIOUS
  <2>2. Tail(<<"menu", "icon">>) # <<>>
    BY ListEnds
  <2> QED BY <2>1, <2>2, ListEnds, ListNames DEF ListEndsWell, Named, Surfaces, Todos
<1>7. ListEndsWell(<<"menu", "icon", "tooltip">>)
  <2>1. Head(<<"menu", "icon", "tooltip">>) = "menu" /\ Len(<<"menu", "icon", "tooltip">>) = 3
    OBVIOUS
  <2>2. Tail(<<"menu", "icon", "tooltip">>) # <<>>
    BY ListEnds
  <2> QED BY <2>1, <2>2, ListEnds, ListNames DEF ListEndsWell, Named, Surfaces, Todos
<1>8. ListEndsWell(<<"bare", "icon", "tooltip">>)
  <2>1. Head(<<"bare", "icon", "tooltip">>) = "bare" /\ Len(<<"bare", "icon", "tooltip">>) = 3
    OBVIOUS
  <2>2. Tail(<<"bare", "icon", "tooltip">>) # <<>>
    BY ListEnds
  <2> QED BY <2>1, <2>2, ListEnds, ListNames DEF ListEndsWell, Named, Surfaces, Todos
<1> QED BY <1>1, <1>2, <1>3, <1>4, <1>5, <1>6, <1>7, <1>8 DEF Todos

LEMMA ListsOf ==
    ASSUME NEW does, NEW todo \in TodosOf(does)
    PROVE  /\ todo \in Todos /\ does \in {NoTask, "patch", "sync", "activate", "superseded", "replaced"}
           /\ todo # <<>> => Tail(todo) \in TodosOf(does) \/ (Tail(todo) = <<>> /\ does \notin {NoTask, "patch", "sync"})
           /\ todo # <<>> /\ Head(todo) = "bare" => does = NoTask
<1>1. CASE does = NoTask
  <2>1. TodosOf(does) = Todos
    BY <1>1 DEF TodosOf, NoTask
  <2> QED BY <1>1, <2>1, ListsEndWell DEF ListEndsWell
<1>2. CASE does = "patch"
  <2>1. TodosOf(does) = {<<"menu", "icon", "tooltip">>, <<"icon", "tooltip">>, <<"tooltip">>, <<>>}
    BY <1>2 DEF TodosOf, NoTask
  <2>2. Head(<<"menu", "icon", "tooltip">>) = "menu" /\ Head(<<"icon", "tooltip">>) = "icon" /\ Head(<<"tooltip">>) = "tooltip"
    OBVIOUS
  <2>3. todo \in Todos
    BY <2>1 DEF Todos
  <2>4. todo # <<>> => Tail(todo) \in {<<"icon", "tooltip">>, <<"tooltip">>, <<>>}
    BY <2>1, ListEnds
  <2>5. todo # <<>> => Head(todo) # "bare"
    BY <2>1, <2>2
  <2> QED BY <1>2, <2>1, <2>3, <2>4, <2>5
<1>3. CASE does = "sync"
  <2>1. TodosOf(does) = {<<"menu">>, <<>>}
    BY <1>3 DEF TodosOf, NoTask
  <2>2. Head(<<"menu">>) = "menu"
    OBVIOUS
  <2> QED BY <1>3, <2>1, <2>2, ListEnds DEF Todos
<1>4. CASE does \in {"activate", "superseded", "replaced"}
  <2>1. TodosOf(does) = {<<"tooltip", "menu">>, <<"menu">>}
    BY <1>4 DEF TodosOf, NoTask
  <2>2. Head(<<"tooltip", "menu">>) = "tooltip" /\ Head(<<"menu">>) = "menu"
    OBVIOUS
  <2> QED BY <1>4, <2>1, <2>2, ListEnds DEF Todos, NoTask
<1> QED BY <1>1, <1>2, <1>3, <1>4 DEF TodosOf

-----------------------------------------------------------------------------
(* The tray: updates are records, each at its task. *)

Task(x)    == x = [at |-> x.at, does |-> x.does, todo |-> x.todo, saw |-> x.saw, overtaken |-> x.overtaken]
Records(d) == d = [t \in TrayTasks |-> [at |-> d[t].at, does |-> d[t].does, todo |-> d[t].todo, saw |-> d[t].saw,
                                        overtaken |-> d[t].overtaken]]

LEMMA RecordsTasks ==
    ASSUME NEW d, Records(d) PROVE \A t \in TrayTasks : Task(d[t])
<1>1. \A t \in TrayTasks : d[t] = [at |-> d[t].at, does |-> d[t].does, todo |-> d[t].todo, saw |-> d[t].saw,
                                   overtaken |-> d[t].overtaken]
  BY DEF Records
<1> QED BY <1>1 DEF Task

LEMMA RecordsAre ==
    ASSUME NEW d, d = [t \in TrayTasks |-> d[t]], \A t \in TrayTasks : Task(d[t]) PROVE Records(d)
<1>1. \A t \in TrayTasks : d[t] = [at |-> d[t].at, does |-> d[t].does, todo |-> d[t].todo, saw |-> d[t].saw,
                                   overtaken |-> d[t].overtaken]
  BY DEF Task
<1> QED BY <1>1 DEF Records

LEMMA OneMoves ==
    ASSUME NEW d, Records(d), NEW t \in TrayTasks, NEW x, Task(x), drawing' = [d EXCEPT ![t] = x]
    PROVE  Records(drawing') /\ drawing'[t] = x /\ \A u \in TrayTasks \ {t} : drawing'[u] = d[u]
<1>1. d = [u \in TrayTasks |-> d[u]] /\ \A u \in TrayTasks : Task(d[u])
  BY RecordsTasks DEF Records
<1>2. drawing' = [u \in TrayTasks |-> drawing'[u]] /\ drawing'[t] = x /\ \A u \in TrayTasks \ {t} : drawing'[u] = d[u]
  BY <1>1
<1>3. \A u \in TrayTasks : drawing'[u] = [at |-> drawing'[u].at, does |-> drawing'[u].does, todo |-> drawing'[u].todo,
                                          saw |-> drawing'[u].saw, overtaken |-> drawing'[u].overtaken]
  BY <1>1, <1>2 DEF Task
<1>4. Records(drawing')
  BY <1>2, <1>3 DEF Records
<1> QED BY <1>2, <1>4

\* A task as it was, but perhaps overtaken, or superseded.
Alike(x, y) == y.at = x.at /\ y.todo = x.todo /\ y.saw = x.saw

LEMMA Overtakes ==
    ASSUME NEW d, Records(d), NEW s, \A t \in TrayTasks : d[t].overtaken \in BOOLEAN
    PROVE  /\ Records(Overtake(s, d))
           /\ \A t \in TrayTasks :
                /\ Alike(d[t], Overtake(s, d)[t]) /\ Overtake(s, d)[t].does = d[t].does
                /\ Overtake(s, d)[t].overtaken = (d[t].overtaken \/ (d[t].at \in {"fetch", "set"} /\ Surface(t) = s))
<1>1. \A t \in TrayTasks : Task(d[t])
  BY RecordsTasks
<1>2. Overtake(s, d) = [t \in TrayTasks |-> Overtake(s, d)[t]]
  BY DEF Overtake
<1>3. ASSUME NEW t \in TrayTasks
      PROVE  /\ Task(Overtake(s, d)[t]) /\ Alike(d[t], Overtake(s, d)[t]) /\ Overtake(s, d)[t].does = d[t].does
             /\ Overtake(s, d)[t].overtaken = (d[t].overtaken \/ (d[t].at \in {"fetch", "set"} /\ Surface(t) = s))
  <2>1. CASE d[t].at \in {"fetch", "set"} /\ Surface(t) = s
    <3>1. Overtake(s, d)[t] = [d[t] EXCEPT !.overtaken = TRUE]
      BY <2>1 DEF Overtake
    <3> QED BY <1>1, <2>1, <3>1 DEF Task, Alike
  <2>2. CASE ~(d[t].at \in {"fetch", "set"} /\ Surface(t) = s)
    <3>1. Overtake(s, d)[t] = d[t]
      BY <2>2 DEF Overtake
    <3> QED BY <1>1, <2>2, <3>1 DEF Task, Alike
  <2> QED BY <2>1, <2>2
<1> QED BY <1>2, <1>3, RecordsAre

LEMMA Supersedes ==
    ASSUME Records(drawing), NEW by
    PROVE  /\ Records(Supersede(by))
           /\ \A t \in TrayTasks :
                /\ Alike(drawing[t], Supersede(by)[t]) /\ Supersede(by)[t].overtaken = drawing[t].overtaken
                /\ Supersede(by)[t].does = IF Does(t, "activate") THEN by ELSE drawing[t].does
<1>1. \A t \in TrayTasks : Task(drawing[t])
  BY RecordsTasks
<1>2. Supersede(by) = [t \in TrayTasks |-> Supersede(by)[t]]
  BY DEF Supersede
<1>3. ASSUME NEW t \in TrayTasks
      PROVE  /\ Task(Supersede(by)[t]) /\ Alike(drawing[t], Supersede(by)[t])
             /\ Supersede(by)[t].overtaken = drawing[t].overtaken
             /\ Supersede(by)[t].does = IF Does(t, "activate") THEN by ELSE drawing[t].does
  <2>1. CASE Does(t, "activate")
    <3>1. Supersede(by)[t] = [drawing[t] EXCEPT !.does = by]
      BY <2>1 DEF Supersede
    <3> QED BY <1>1, <2>1, <3>1 DEF Task, Alike
  <2>2. CASE ~Does(t, "activate")
    <3>1. Supersede(by)[t] = drawing[t]
      BY <2>2 DEF Supersede
    <3> QED BY <1>1, <2>2, <3>1 DEF Task, Alike
  <2> QED BY <2>1, <2>2
<1> QED BY <1>2, <1>3, RecordsAre

LEMMA TaskOnward ==
    ASSUME NEW t, NEW place, NEW view, NEW over
    PROVE  /\ Task(GoesOnWith(t, place, view, over)) /\ GoesOnWith(t, place, view, over).at = place
           /\ GoesOnWith(t, place, view, over).does = drawing[t].does /\ GoesOnWith(t, place, view, over).todo = drawing[t].todo
           /\ GoesOnWith(t, place, view, over).saw = view /\ GoesOnWith(t, place, view, over).overtaken = over
BY DEF GoesOnWith, Task

LEMMA TaskBegins ==
    ASSUME NEW place, NEW does, NEW todo
    PROVE  /\ Task(Drawing(place, does, todo)) /\ Drawing(place, does, todo).at = place
           /\ Drawing(place, does, todo).does = does /\ Drawing(place, does, todo).todo = todo
           /\ Drawing(place, does, todo).overtaken = FALSE
BY DEF Drawing, Task

LEMMA TaskStays ==
    ASSUME NEW u \in TrayTasks, TaskFits(u), Alike(drawing[u], drawing'[u]), drawing'[u].overtaken \in BOOLEAN,
           \/ drawing'[u].does = drawing[u].does
           \/ Does(u, "activate") /\ drawing'[u].does \in {"superseded", "replaced"}
    PROVE  TaskFits(u)'
<1>1. TodosOf(drawing'[u].does) = TodosOf(drawing[u].does)
  BY DEF Does, TodosOf, NoTask
<1>2. /\ drawing'[u].at = drawing[u].at /\ drawing'[u].todo = drawing[u].todo /\ drawing'[u].saw = drawing[u].saw
      /\ Surface(u)' = Surface(u) /\ (Flying(u)' <=> Flying(u))
  BY DEF Alike, Surface, Flying
<1>3. drawing[u].at \in {"idle", "pend", "stopping", "stopped"} => drawing'[u].does = drawing[u].does
  BY DEF TaskFits, Does, DrawingAt, NoTask
<1>4. drawing'[u].todo \in TodosOf(drawing'[u].does)
  BY <1>1, <1>2 DEF TaskFits
<1>5. DrawingAt(u, "next")' /\ drawing'[u].todo = <<>> => drawing'[u].does \in {"patch", "sync"}
  BY <1>2 DEF TaskFits, Does, DrawingAt
<1> QED BY <1>2, <1>3, <1>4, <1>5 DEF TaskFits, Does, DrawingAt

-----------------------------------------------------------------------------
(* The tray: what a surface may still expect *)

LEMMA SurfaceGoesOn ==
    ASSUME NEW s \in Surfaces, SurfaceFits(s), s \in old => s \in old', shown'[s] = shown[s],
           \A view : Says(s, view) => Says(s, view)',
           Due(s) => Due(s)',
           \A u \in TrayTasks : (Counts(u, s)' <=> Counts(u, s)) /\ (Counts(u, s) => drawing'[u].saw = drawing[u].saw)
    PROVE  SurfaceFits(s)'
BY DEF SurfaceFits

LEMMA SurfaceIsDue ==
    ASSUME NEW s \in Surfaces, Due(s)' PROVE SurfaceFits(s)'
BY DEF SurfaceFits

LEMMA SurfaceIsMissed ==
    ASSUME NEW s \in Surfaces, s \in old', \A u \in TrayTasks : ~Counts(u, s)' PROVE SurfaceFits(s)'
BY DEF SurfaceFits

LEMMA SaysOn ==
    ASSUME NEW s \in Surfaces, \A f \in Shows(s) : Latest'[f] = Latest[f],
           trayFailures \in Nat, trayFailures' \in Nat, trayFailures' >= trayFailures
    PROVE  \A view : Says(s, view) => Says(s, view)'
BY DEF Says

LEMMA ServesOn ==
    ASSUME NEW u \in TrayTasks, NEW s, Serves(u, s), Alike(drawing[u], drawing'[u]), drawing'[u].does = drawing[u].does,
           stagedFacts' => stagedFacts, s = "menu" /\ syncPending => syncPending'
    PROVE  Serves(u, s)'
BY DEF Serves, Alike, Left, Flying, Dropped, Patching, Does, DrawingAt

LEMMA OthersServe ==
    ASSUME NEW s, NEW t \in TrayTasks, Serves(t, s) => Due(s)', stagedFacts' => stagedFacts, s = "menu" /\ syncPending => syncPending',
           \A u \in TrayTasks \ {t} : Alike(drawing[u], drawing'[u]) /\ drawing'[u].does = drawing[u].does
    PROVE  Due(s) => Due(s)'
<1> SUFFICES ASSUME NEW u \in TrayTasks, Serves(u, s) PROVE Due(s)'
  BY DEF Due
<1>1. CASE u = t
  BY <1>1
<1>2. CASE u # t
  BY <1>2, ServesOn DEF Due
<1> QED BY <1>1, <1>2

LEMMA SyncOn ==
    ASSUME SyncFits, stagedFacts' = stagedFacts, syncRunning' = syncRunning,
           \A u \in TrayTasks : (Patching(u)' <=> Patching(u)) /\ (Syncing(u)' <=> Syncing(u))
    PROVE  SyncFits'
BY DEF SyncFits

LEMMA TrayKnown ==
    ASSUME TrayInvariant, NEW t \in TrayTasks
    PROVE  /\ Records(drawing) /\ Task(drawing[t]) /\ TaskFits(t) /\ drawing[t].overtaken \in BOOLEAN
           /\ drawing[t].todo \in Todos
           /\ drawing[t].todo # <<>> =>
                /\ Surface(t) = Named(Head(drawing[t].todo)) /\ Surface(t) \in Surfaces
                /\ Names(drawing[t].todo) = {Surface(t)} \cup Names(Tail(drawing[t].todo))
                /\ Names(drawing[t].todo) \subseteq Surfaces
<1>1. Records(drawing) /\ TaskFits(t)
  BY DEF TrayInvariant, TasksFit, Records
<1>2. Task(drawing[t])
  BY <1>1, RecordsTasks
<1>3. drawing[t].todo \in Todos
  BY <1>1, ListsOf DEF TaskFits
<1> QED BY <1>1, <1>2, <1>3, ListsEndWell DEF ListEndsWell, TaskFits, Surface, Named

LEMMA TasksGoOn ==
    ASSUME TrayInvariant, NEW t \in TrayTasks, Records(drawing'), TaskFits(t)',
           \A u \in TrayTasks \ {t} :
               /\ Alike(drawing[u], drawing'[u]) /\ drawing'[u].overtaken \in BOOLEAN
               /\ \/ drawing'[u].does = drawing[u].does
                  \/ Does(u, "activate") /\ drawing'[u].does \in {"superseded", "replaced"},
           t = Spawned => Does(t, NoTask)' /\ drawing'[t].todo \in {<<>>, <<"menu">>}
    PROVE  TasksFit'
<1>1. ASSUME NEW u \in TrayTasks \ {t} PROVE TaskFits(u)'
  BY TaskStays DEF TrayInvariant, TasksFit
<1>2. Does(Spawned, NoTask)' /\ drawing'[Spawned].todo \in {<<>>, <<"menu">>}
  BY DEF Does, Alike, TrayInvariant, TasksFit, TrayTasks, NoTask
<1> QED BY <1>1, <1>2 DEF TasksFit, Records

LEMMA TypesOn ==
    ASSUME TrayTypes, TasksFit', shown' = shown, old' \subseteq Surfaces, syncRunning' \in BOOLEAN, syncPending' \in BOOLEAN,
           stagedFacts' \in BOOLEAN, facts' \in [Facts -> 0..MaxTrayEvents], trayChanges' \in Nat, trayFailures' \in Nat,
           \A f \in Facts : Latest'[f] <= trayChanges' /\ Latest'[f] <= MaxTrayEvents
    PROVE  TrayTypes'
<1>1. \A u \in TrayTasks : drawing'[u].at \in {"idle", "next", "fetch", "set", "pend", "stopping", "stopped"}
  BY DEF TasksFit, TaskFits
<1> QED BY <1>1 DEF TrayTypes, TrayTypeOK, DrawingAt

(* A surface for which nothing happens: its updates go on, or have not begun. *)
LEMMA SurfaceWaits ==
    ASSUME TrayInvariant, NEW s \in Surfaces, old \subseteq old', shown' = shown,
           trayFailures' \in Nat, trayFailures' >= trayFailures,
           \A f \in Shows(s) : Latest'[f] = Latest[f],
           Due(s) => Due(s)',
           NEW t \in TrayTasks, ~Flying(t), ~Flying(t)',
           \A u \in TrayTasks \ {t} :
               /\ Alike(drawing[u], drawing'[u])
               /\ Flying(u) /\ Surface(u) = s => drawing'[u].overtaken = drawing[u].overtaken
    PROVE  SurfaceFits(s)'
<1>1. \A view : Says(s, view) => Says(s, view)'
  BY SaysOn DEF TrayInvariant, TrayTypes
<1>2. \A u \in TrayTasks : (Counts(u, s)' <=> Counts(u, s)) /\ (Counts(u, s) => drawing'[u].saw = drawing[u].saw)
  <2>1. ~Counts(t, s) /\ ~Counts(t, s)'
    BY DEF Counts
  <2>2. ASSUME NEW u \in TrayTasks \ {t}
        PROVE  (Counts(u, s)' <=> Counts(u, s)) /\ (Counts(u, s) => drawing'[u].saw = drawing[u].saw)
    BY <2>2 DEF Counts, Flying, Surface, Alike
  <2> QED BY <2>1, <2>2
<1> QED BY <1>1, <1>2, SurfaceGoesOn DEF TrayInvariant

-----------------------------------------------------------------------------
(* The tray: an update of one surface *)

LEMMA ReadKeeps ==
    ASSUME TrayBounds, TrayInvariant, NEW t \in TrayTasks, Read(t) PROVE TrayInvariant'
<1> DEFINE s0 == Surface(t)
           base == IF Behind(t) THEN drawing ELSE Overtake(s0, drawing)
<1>1. /\ drawing[t].at = "next" /\ drawing[t].todo # <<>> /\ ~Dropped(t)
      /\ UNCHANGED <<facts, stagedFacts, shown, old, syncRunning, syncPending, trayChanges, trayFailures>>
  BY DEF Read, DrawingAt, Does, Dropped, sync, trayCounts
<1>2. /\ Records(drawing) /\ Task(drawing[t]) /\ TaskFits(t) /\ \A u \in TrayTasks : drawing[u].overtaken \in BOOLEAN
      /\ drawing[t].todo \in TodosOf(drawing[t].does) /\ s0 = Named(Head(drawing[t].todo))
      /\ Names(drawing[t].todo) = {s0} \cup Names(Tail(drawing[t].todo)) /\ s0 \in Surfaces
  BY <1>1, TrayKnown DEF TaskFits
<1>3. /\ Records(base)
      /\ \A u \in TrayTasks : Task(base[u]) /\ Alike(drawing[u], base[u]) /\ base[u].does = drawing[u].does
      /\ \A u \in TrayTasks : base[u].overtaken = (drawing[u].overtaken \/ (~Behind(t) /\ Flying(u) /\ Surface(u) = s0))
  <2>1. CASE Behind(t)
    BY <1>2, <2>1, RecordsTasks DEF Alike
  <2>2. CASE ~Behind(t)
    BY <1>2, <2>2, Overtakes, RecordsTasks DEF Flying
  <2> QED BY <2>1, <2>2
<1> DEFINE place == IF Head(drawing[t].todo) = "menu" THEN "fetch" ELSE "set"
           view  == [f \in Shows(s0) |-> Seen(t)[f]]
<1>4. drawing' = [base EXCEPT ![t] = GoesOnWith(t, place, view, Behind(t))]
  BY DEF Read
<1> HIDE DEF base
<1>5. Records(drawing') /\ drawing'[t] = GoesOnWith(t, place, view, Behind(t)) /\ \A u \in TrayTasks \ {t} : drawing'[u] = base[u]
  <2> DEFINE x == GoesOnWith(t, place, view, Behind(t))
  <2>1. Task(x) /\ drawing' = [base EXCEPT ![t] = x]
    BY <1>4, TaskOnward
  <2>2. Records(drawing') /\ drawing'[t] = x /\ \A u \in TrayTasks \ {t} : drawing'[u] = base[u]
    <3> HIDE DEF x
    <3> QED BY <1>3, <2>1, OneMoves
  <2> QED BY <2>2
<1>6. /\ drawing'[t].at = place /\ drawing'[t].does = drawing[t].does /\ drawing'[t].todo = drawing[t].todo
      /\ drawing'[t].saw = view /\ drawing'[t].overtaken = Behind(t)
  <2> HIDE DEF place, view
  <2> QED BY <1>5, TaskOnward
<1>7. Behind(t) \in BOOLEAN
  BY DEF Behind
<1>8. TasksFit'
  <2>1. \A u \in TrayTasks \ {t} : TaskFits(u)'
    BY <1>2, <1>3, <1>5, <1>6, TaskStays DEF TrayInvariant, TasksFit
  <2>2. TaskFits(t)'
    <3>1. Surface(t)' = s0
      BY <1>6 DEF Surface
    <3>2. [f \in Shows(s0) |-> Seen(t)[f]] \in [Shows(s0) -> -1..MaxTrayEvents]
      <4>1. Shows(s0) \subseteq Facts
        BY <1>2 DEF Shows, Surfaces, MenuShows, IconShows, TooltipShows, Facts
      <4>2. \A f \in Facts : Seen(t)[f] \in -1..MaxTrayEvents
        BY DEF Seen, TrayInvariant, TrayTypes, TrayTypeOK, Latest
      <4> QED BY <4>1, <4>2
    <3> QED BY <1>1, <1>2, <1>6, <1>7, <3>1, <3>2 DEF TaskFits, DrawingAt, Flying
  <2>3. Does(Spawned, NoTask)' /\ drawing'[Spawned].todo \in {<<>>, <<"menu">>}
    BY <1>3, <1>5, <1>6 DEF Does, Alike, TrayInvariant, TasksFit, TrayTasks
  <2> QED BY <1>5, <2>1, <2>2, <2>3 DEF TasksFit, Records
<1>9. SyncFits'
  BY <1>1, <1>3, <1>5, <1>6, SyncOn DEF TrayInvariant, Patching, Syncing, Does, DrawingAt, Alike
<1>10. TrayTypes'
  <2>1. \A u \in TrayTasks : drawing'[u].at \in {"idle", "next", "fetch", "set", "pend", "stopping", "stopped"}
    BY <1>8 DEF TasksFit, TaskFits
  <2> QED BY <1>1, <2>1 DEF TrayInvariant, TrayTypes, TrayTypeOK, Latest, DrawingAt
<1>11. ASSUME NEW s \in Surfaces PROVE SurfaceFits(s)'
  <2>1. \A w : Says(s, w) => Says(s, w)'
    BY <1>1 DEF Says, Latest
  <2>2. ASSUME s # s0 \/ Behind(t) PROVE Due(s) => Due(s)'
    <3>1. Serves(t, s) => Serves(t, s)'
      <4>1. Serves(t, s) =>
              \/ s \in Left(t) /\ (s = "icon" /\ stagedFacts => Patching(t))
              \/ s = "menu" /\ syncPending /\ Does(t, "sync")
        BY <1>1 DEF Serves, DrawingAt, Dropped, Does
      <4>2. Left(t)' = Names(Tail(drawing[t].todo)) /\ Left(t) = Names(drawing[t].todo)
        BY <1>1, <1>6 DEF Left, Flying
      <4>3. Behind(t) => s0 = "icon" /\ stagedFacts /\ ~Patching(t)
        BY DEF Behind, Seen, Latest, Does, Patching
      <4> QED BY <1>1, <1>2, <1>6, <2>2, <4>1, <4>2, <4>3 DEF Serves, Patching, Does, Dropped
    <3> QED BY <1>1, <1>3, <1>5, <3>1, OthersServe DEF Due
  <2>3. ASSUME s # s0 \/ Behind(t) PROVE SurfaceFits(s)'
    <3>1. \A u \in TrayTasks : Counts(u, s)' <=> Counts(u, s)
      <4>1. \A u \in TrayTasks \ {t} : Counts(u, s)' <=> Counts(u, s)
        BY <1>2, <1>3, <1>5, <2>3 DEF Counts, Flying, Surface, Alike
      <4>2. ~Counts(t, s) /\ ~Counts(t, s)'
        BY <1>1, <1>6, <2>3 DEF Counts, Flying, Surface
      <4> QED BY <4>1, <4>2
    <3>2. \A u \in TrayTasks : Counts(u, s) => drawing'[u].saw = drawing[u].saw
      BY <1>1, <1>3, <1>5 DEF Counts, Flying, Alike
    <3> QED BY <1>1, <2>1, <2>2, <2>3, <3>1, <3>2, SurfaceGoesOn DEF TrayInvariant
  <2>4. CASE s = s0 /\ ~Behind(t)
    <3>1. Counts(t, s)' /\ Says(s, drawing[t].saw)'
      <4>1. Counts(t, s)'
        BY <1>6, <2>4 DEF Counts, Flying, Surface
      <4>2. Says(s, drawing[t].saw)'
        <5>1. Latest' = Latest /\ Seen(t) = Latest
          BY <1>1, <2>4 DEF Latest, Behind
        <5> QED BY <1>6, <2>4, <5>1 DEF Says
      <4> QED BY <4>1, <4>2
    <3>2. \A u \in TrayTasks \ {t} : ~Counts(u, s)'
      <4>1. ASSUME NEW u \in TrayTasks \ {t}, Flying(u)', Surface(u)' = s PROVE drawing'[u].overtaken
        <5>1. Flying(u) /\ Surface(u) = s
          BY <1>3, <1>5, <4>1 DEF Flying, Surface, Alike
        <5> QED BY <1>3, <1>5, <2>4, <5>1
      <4> QED BY <4>1 DEF Counts
    <3> QED BY <3>1, <3>2 DEF SurfaceFits
  <2> QED BY <2>3, <2>4
<1> QED BY <1>8, <1>9, <1>10, <1>11 DEF TrayInvariant

LEMMA FetchKeeps ==
    ASSUME TrayBounds, TrayInvariant, NEW t \in TrayTasks, Fetch(t) PROVE TrayInvariant'
<1> DEFINE view(n) == [drawing[t].saw EXCEPT !["node"] = n]
<1>1. /\ drawing[t].at = "fetch" /\ drawing[t].todo # <<>> /\ Surface(t) = "menu"
      /\ Records(drawing) /\ TaskFits(t) /\ drawing[t].overtaken \in BOOLEAN
      /\ drawing[t].saw \in [Facts -> -1..MaxTrayEvents]
      /\ UNCHANGED <<facts, stagedFacts, shown, old, syncRunning, syncPending, trayChanges>>
  BY TrayKnown DEF Fetch, DrawingAt, TaskFits, Flying, Shows, MenuShows, Surface, Named, sync
<1>2. PICK n \in {facts["node"], -1} :
          /\ IF n = -1 THEN MoreHappens /\ trayFailures' = trayFailures + 1 ELSE UNCHANGED trayFailures
          /\ drawing' = [drawing EXCEPT ![t] = GoesOnWith(t, "set", view(n), drawing[t].overtaken)]
  BY DEF Fetch
<1>3. /\ Records(drawing') /\ \A u \in TrayTasks \ {t} : drawing'[u] = drawing[u]
      /\ drawing'[t].at = "set" /\ drawing'[t].does = drawing[t].does /\ drawing'[t].todo = drawing[t].todo
      /\ drawing'[t].saw = view(n) /\ drawing'[t].overtaken = drawing[t].overtaken
  <2> DEFINE x == GoesOnWith(t, "set", view(n), drawing[t].overtaken)
  <2>1. Task(x) /\ drawing' = [drawing EXCEPT ![t] = x]
    BY <1>2, TaskOnward
  <2>2. Records(drawing') /\ drawing'[t] = x /\ \A u \in TrayTasks \ {t} : drawing'[u] = drawing[u]
    <3> HIDE DEF x
    <3> QED BY <1>1, <2>1, OneMoves
  <2> HIDE DEF view
  <2> QED BY <2>2, TaskOnward
<1>4. /\ trayFailures \in Nat /\ trayFailures' \in Nat /\ trayFailures' >= trayFailures /\ (n = -1 => trayFailures' > 0)
      /\ n \in -1..MaxTrayEvents
  BY <1>2 DEF TrayInvariant, TrayTypes, TrayTypeOK, Facts, TrayBounds
<1>5. \A u \in TrayTasks \ {t} :
          Alike(drawing[u], drawing'[u]) /\ drawing'[u].does = drawing[u].does /\ drawing'[u].overtaken \in BOOLEAN
  BY <1>3, TrayKnown DEF Alike
<1>6. TasksFit'
  <2>1. TaskFits(t)'
    <3>1. Surface(t)' = Surface(t)
      BY <1>3 DEF Surface
    <3>2. view(n) \in [Shows(Surface(t)) -> -1..MaxTrayEvents]
      BY <1>1, <1>4 DEF Shows, MenuShows
    <3> QED BY <1>1, <1>3, <3>1, <3>2 DEF TaskFits, DrawingAt, Flying, Does
  <2> QED BY <1>3, <1>5, <2>1, TasksGoOn DEF TrayInvariant, TasksFit, Does
<1>7. TrayTypes'
  BY <1>1, <1>4, <1>6, TypesOn DEF TrayInvariant, TrayTypes, TrayTypeOK, Latest
<1>8. SyncFits'
  BY <1>1, <1>3, SyncOn DEF TrayInvariant, Patching, Syncing, Does, DrawingAt
<1>9. ASSUME NEW s \in Surfaces PROVE SurfaceFits(s)'
  <2>1. \A w : Says(s, w) => Says(s, w)'
    BY <1>1, <1>4, SaysOn DEF Latest
  <2>2. Due(s) => Due(s)'
    <3>1. Serves(t, s) => Serves(t, s)'
      BY <1>1, <1>3 DEF Serves, Left, Flying, Dropped, Patching, Does, DrawingAt
    <3> QED BY <1>1, <1>5, <3>1, OthersServe DEF Due
  <2>3. \A u \in TrayTasks : Counts(u, s)' <=> Counts(u, s)
    BY <1>1, <1>3 DEF Counts, Flying, Surface
  <2>4. \A u \in TrayTasks \ {t} : drawing'[u].saw = drawing[u].saw
    BY <1>3
  <2>5. Says(s, drawing[t].saw) /\ s = "menu" => Says(s, drawing[t].saw)'
    <3>1. \A f \in Facts \ {"node"} : view(n)[f] = drawing[t].saw[f]
      BY <1>1
    <3>2. view(n)["node"] = n
      BY <1>1 DEF Facts
    <3>3. n = facts'["node"] \/ (n = -1 /\ trayFailures' > 0)
      BY <1>1, <1>2, <1>4
    <3>4. Latest' = Latest /\ Latest["node"] = facts["node"]
      BY <1>1 DEF Latest, TrayInvariant, TrayTypes, TrayTypeOK, Facts
    <3> HIDE DEF view
    <3> QED BY <1>1, <1>3, <1>4, <3>1, <3>2, <3>3, <3>4 DEF Says, Shows, MenuShows
  <2>6. SurfaceFits(s)
    BY DEF TrayInvariant
  <2>7. Counts(t, s) => s = "menu"
    BY <1>1 DEF Counts
  <2> QED BY <1>1, <2>1, <2>2, <2>3, <2>4, <2>5, <2>6, <2>7 DEF SurfaceFits
<1> QED BY <1>6, <1>7, <1>8, <1>9 DEF TrayInvariant

LEMMA ThenIs ==
    ASSUME TrayInvariant, NEW t \in TrayTasks, drawing[t].at = "set"
    PROVE  /\ Task(Then(t)) /\ Then(t).at \in {"idle", "next"} /\ Then(t).overtaken = FALSE
           /\ Then(t).todo = Tail(drawing[t].todo) /\ Then(t).todo \in TodosOf(Then(t).does)
           /\ \/ Then(t).at = "idle" /\ Then(t).does = NoTask /\ Then(t).todo = <<>> /\ drawing[t].does \notin {"patch", "sync"}
              \/ /\ Then(t).at = "next" /\ Then(t).does = drawing[t].does
                 /\ Then(t).todo = <<>> => drawing[t].does \in {"patch", "sync"}
<1>1. /\ drawing[t].todo # <<>> /\ drawing[t].todo \in TodosOf(drawing[t].does) /\ drawing[t].todo \in Todos
  BY TrayKnown DEF TaskFits, Flying
<1>2. Len(drawing[t].todo) = 1 <=> Tail(drawing[t].todo) = <<>>
  BY <1>1, ListsEndWell DEF ListEndsWell
<1>3. CASE Len(drawing[t].todo) = 1 /\ drawing[t].does \notin {"patch", "sync"}
  <2>1. Then(t) = Drawing("idle", NoTask, <<>>)
    BY <1>3 DEF Then, IdleDrawing
  <2>2. <<>> \in TodosOf(NoTask)
    BY DEF TodosOf, Todos, NoTask
  <2>3. Task(Then(t)) /\ Then(t).at = "idle" /\ Then(t).does = NoTask /\ Then(t).todo = <<>> /\ Then(t).overtaken = FALSE
    BY <2>1 DEF Drawing, Task
  <2> QED BY <1>2, <1>3, <2>2, <2>3
<1>4. CASE ~(Len(drawing[t].todo) = 1 /\ drawing[t].does \notin {"patch", "sync"})
  <2>1. Then(t) = Drawing("next", drawing[t].does, Tail(drawing[t].todo))
    BY <1>4 DEF Then
  <2>2. Tail(drawing[t].todo) \in TodosOf(drawing[t].does)
    BY <1>1, <1>2, <1>4, ListsOf
  <2>3. /\ Task(Then(t)) /\ Then(t).at = "next" /\ Then(t).does = drawing[t].does /\ Then(t).todo = Tail(drawing[t].todo)
        /\ Then(t).overtaken = FALSE
    BY <2>1 DEF Drawing, Task
  <2> QED BY <1>2, <1>4, <2>2, <2>3
<1> QED BY <1>3, <1>4

LEMMA SetKeeps ==
    ASSUME TrayBounds, TrayInvariant, NEW t \in TrayTasks, Set(t) PROVE TrayInvariant'
<1> DEFINE s0   == Surface(t)
           bare == Head(drawing[t].todo) = "bare"
           mine == Then(t)
           full == Drawing("next", NoTask, <<"menu">>)
           view == IF bare THEN [drawing[t].saw EXCEPT !["node"] = -1] ELSE drawing[t].saw
<1>1. /\ drawing[t].at = "set" /\ drawing[t].todo # <<>> /\ s0 \in Surfaces /\ Records(drawing) /\ TaskFits(t)
      /\ drawing[t].overtaken \in BOOLEAN /\ drawing[t].saw \in [Shows(s0) -> -1..MaxTrayEvents]
      /\ UNCHANGED <<facts, stagedFacts, syncRunning, syncPending, trayChanges, trayFailures>>
      /\ shown' = [shown EXCEPT ![s0] = view]
      /\ old' = IF drawing[t].overtaken THEN old \cup {s0} ELSE old \ {s0}
  BY TrayKnown DEF Set, DrawingAt, TaskFits, Flying, sync, trayCounts
<1>2. bare => t # Spawned /\ s0 = "menu" /\ Spawned \in TrayTasks
  <2>1. Spawned \in TrayTasks
    BY DEF TrayTasks
  <2>2. bare => s0 = "menu"
    BY DEF Surface
  <2>3. bare => t # Spawned
    <3>1. Head(<<"menu">>) = "menu"
      OBVIOUS
    <3>2. t = Spawned => drawing[t].todo = <<"menu">>
      BY <1>1 DEF TrayInvariant, TasksFit
    <3> QED BY <3>1, <3>2
  <2> QED BY <2>1, <2>2, <2>3
<1>3. /\ Records(drawing') /\ drawing'[t] = mine
      /\ \A u \in TrayTasks \ {t} : drawing'[u] = IF bare /\ u = Spawned THEN full ELSE drawing[u]
  <2>1. Task(mine) /\ Task(full)
    BY <1>1, ThenIs, TaskBegins
  <2>2. drawing' = [drawing EXCEPT ![t] = mine, ![Spawned] = IF bare THEN full ELSE @]
    BY DEF Set
  <2>3. drawing = [u \in TrayTasks |-> drawing[u]] /\ \A u \in TrayTasks : Task(drawing[u])
    BY <1>1, RecordsTasks DEF Records
  <2> HIDE DEF mine, full, bare
  <2>4. CASE bare
    <3>1. /\ drawing' = [u \in TrayTasks |-> drawing'[u]] /\ drawing'[t] = mine
          /\ \A u \in TrayTasks \ {t} : drawing'[u] = IF u = Spawned THEN full ELSE drawing[u]
      BY <1>2, <2>2, <2>3, <2>4
    <3>2. \A u \in TrayTasks : Task(drawing'[u])
      BY <2>1, <2>3, <3>1
    <3>3. \A u \in TrayTasks : drawing'[u] = [at |-> drawing'[u].at, does |-> drawing'[u].does, todo |-> drawing'[u].todo,
                                              saw |-> drawing'[u].saw, overtaken |-> drawing'[u].overtaken]
      BY <3>2 DEF Task
    <3>4. Records(drawing')
      BY <3>1, <3>3 DEF Records
    <3> QED BY <2>4, <3>1, <3>4
  <2>5. CASE ~bare
    <3>1. drawing' = [drawing EXCEPT ![t] = mine, ![Spawned] = @]
      BY <2>2, <2>5
    <3>2. \A u \in TrayTasks \ {t} : drawing'[u] = drawing[u]
      BY <2>3, <3>1
    <3>3. drawing' = [u \in TrayTasks |-> drawing'[u]] /\ drawing'[t] = mine
      <4>1. CASE t = Spawned
        BY <2>3, <3>1, <4>1
      <4>2. CASE t # Spawned
        BY <2>3, <3>1, <4>2
      <4> QED BY <4>1, <4>2
    <3>4. \A u \in TrayTasks : Task(drawing'[u])
      BY <2>1, <2>3, <3>2, <3>3
    <3>5. \A u \in TrayTasks : drawing'[u] = [at |-> drawing'[u].at, does |-> drawing'[u].does, todo |-> drawing'[u].todo,
                                              saw |-> drawing'[u].saw, overtaken |-> drawing'[u].overtaken]
      BY <3>4 DEF Task
    <3>6. Records(drawing')
      BY <3>3, <3>5 DEF Records
    <3> QED BY <2>5, <3>2, <3>3, <3>6
  <2> QED BY <2>4, <2>5
<1>4. /\ mine.at \in {"idle", "next"} /\ mine.overtaken = FALSE
      /\ mine.todo = Tail(drawing[t].todo) /\ mine.todo \in TodosOf(mine.does)
      /\ \/ mine.at = "idle" /\ mine.does = NoTask /\ mine.todo = <<>> /\ drawing[t].does \notin {"patch", "sync"}
         \/ /\ mine.at = "next" /\ mine.does = drawing[t].does
            /\ mine.todo = <<>> => drawing[t].does \in {"patch", "sync"}
  BY <1>1, ThenIs
<1>5. full.at = "next" /\ full.does = NoTask /\ full.todo = <<"menu">> /\ full.overtaken = FALSE
  BY DEF Drawing
<1> HIDE DEF mine, full
<1>6. TasksFit'
  <2>1. TaskFits(t)'
    <3>1. Flying(t)' = FALSE
      BY <1>3, <1>4 DEF Flying
    <3> QED BY <1>3, <1>4, <3>1 DEF TaskFits, DrawingAt, Does
  <2>2. ASSUME NEW u \in TrayTasks \ {t} PROVE TaskFits(u)'
    <3>1. CASE bare /\ u = Spawned
      <4>1. <<"menu">> \in TodosOf(NoTask) /\ <<"menu">> # <<>>
        BY DEF TodosOf, Todos, NoTask
      <4>2. /\ drawing'[u].at = "next" /\ drawing'[u].does = NoTask /\ drawing'[u].todo = <<"menu">>
            /\ drawing'[u].overtaken = FALSE
        BY <1>3, <1>5, <3>1
      <4> QED BY <4>1, <4>2 DEF TaskFits, DrawingAt, Flying, Does
    <3>2. CASE ~(bare /\ u = Spawned)
      <4>1. drawing'[u] = drawing[u]
        BY <1>3, <3>2
      <4> QED BY <4>1, TaskStays, TrayKnown DEF Alike
    <3> QED BY <3>1, <3>2
  <2>3. Does(Spawned, NoTask)' /\ drawing'[Spawned].todo \in {<<>>, <<"menu">>}
    <3>1. Does(Spawned, NoTask) /\ drawing[Spawned].todo \in {<<>>, <<"menu">>} /\ Spawned \in TrayTasks
      BY DEF TrayInvariant, TasksFit, TrayTasks
    <3>2. CASE t = Spawned
      BY <1>1, <1>3, <1>4, <3>1, <3>2, ListEnds DEF Does
    <3>3. CASE t # Spawned
      BY <1>3, <1>5, <3>1, <3>3 DEF Does
    <3> QED BY <3>2, <3>3
  <2> QED BY <1>3, <2>1, <2>2, <2>3 DEF TasksFit, Records
<1>7. TrayTypes'
  <2>1. view \in [Shows(s0) -> -1..MaxTrayEvents]
    <3>1. bare => "node" \in Shows(s0) /\ -1 \in -1..MaxTrayEvents
      BY <1>2 DEF Shows, MenuShows, Facts, TrayBounds
    <3> QED BY <1>1, <3>1
  <2>2. DOMAIN shown' = Surfaces /\ \A s \in Surfaces : shown'[s] \in [Shows(s) -> -1..MaxTrayEvents]
    BY <1>1, <2>1 DEF TrayInvariant, TrayTypes, TrayTypeOK
  <2>3. old' \subseteq Surfaces
    BY <1>1 DEF TrayInvariant, TrayTypes, TrayTypeOK
  <2>4. \A u \in TrayTasks : drawing'[u].at \in {"idle", "next", "fetch", "set", "pend", "stopping", "stopped"}
    BY <1>6 DEF TasksFit, TaskFits
  <2> QED BY <1>1, <2>2, <2>3, <2>4 DEF TrayInvariant, TrayTypes, TrayTypeOK, DrawingAt, Latest
<1>8. SyncFits'
  <2>1. ASSUME NEW u \in TrayTasks PROVE (Patching(u)' <=> Patching(u)) /\ (Syncing(u)' <=> Syncing(u))
    <3>1. CASE u = t
      BY <1>1, <1>3, <1>4, <3>1 DEF Patching, Syncing, Does, DrawingAt, NoTask
    <3>2. CASE bare /\ u = Spawned
      BY <1>2, <1>3, <1>5, <3>2 DEF Patching, Syncing, Does, DrawingAt, NoTask, TrayInvariant, TasksFit
    <3>3. CASE u # t /\ ~(bare /\ u = Spawned)
      BY <1>3, <3>3 DEF Patching, Syncing, Does, DrawingAt
    <3> QED BY <3>1, <3>2, <3>3
  <2> QED BY <1>1, <2>1, SyncOn DEF TrayInvariant
<1>9. bare => Serves(Spawned, "menu")'
  <2>1. ASSUME bare PROVE Serves(Spawned, "menu")'
    <3>1. drawing'[Spawned] = full
      BY <1>2, <1>3, <2>1
    <3>2. "menu" \in Names(<<"menu">>)
      BY ListNames
    <3> QED BY <1>5, <3>1, <3>2 DEF Serves, Left, Flying, Dropped, NoTask
  <2> QED BY <2>1
<1>10. ASSUME NEW s \in Surfaces, Due(s) PROVE Due(s)'
  <2>1. PICK u \in TrayTasks : Serves(u, s)
    BY <1>10 DEF Due
  <2>2. CASE u = t
    <3>1. Left(t) = Names(Tail(drawing[t].todo)) /\ Left(t)' = Names(Tail(drawing[t].todo))
      BY <1>1, <1>3, <1>4 DEF Left, Flying
    <3>2. s \in Left(t) => mine.at = "next" /\ mine.does = drawing[t].does
      <4>1. mine.todo = <<>> => Left(t) = {}
        BY <1>4, <3>1, ListNames
      <4> QED BY <1>4, <4>1
    <3>3. Serves(t, s)'
      BY <1>1, <1>3, <1>4, <2>1, <2>2, <3>1, <3>2 DEF Serves, Dropped, Patching, Does, DrawingAt
    <3> QED BY <3>3 DEF Due
  <2>3. CASE u = Spawned /\ bare
    <3>1. Does(Spawned, NoTask) /\ drawing[Spawned].todo \in {<<>>, <<"menu">>}
      BY DEF TrayInvariant, TasksFit
    <3>2. s = "menu"
      <4>1. s \in Left(Spawned) => s = "menu"
        <5>1. Names(Tail(<<"menu">>)) = {} /\ Names(<<"menu">>) = {"menu"} /\ Names(<<>>) = {}
          BY ListNames, ListEnds
        <5>2. Flying(Spawned) => drawing[Spawned].todo # <<>>
          BY <1>2, <2>3, TrayKnown DEF TaskFits
        <5> QED BY <3>1, <5>1, <5>2 DEF Left
      <4> QED BY <2>1, <2>3, <3>1, <4>1 DEF Serves, Does, NoTask
    <3> QED BY <1>2, <1>9, <2>3, <3>2 DEF Due
  <2>4. CASE u # t /\ ~(u = Spawned /\ bare)
    <3>1. drawing'[u] = drawing[u]
      BY <1>3, <2>4
    <3>2. Alike(drawing[u], drawing'[u]) /\ drawing'[u].does = drawing[u].does
      BY <3>1 DEF Alike
    <3>3. Serves(u, s)'
      BY <1>1, <2>1, <3>2, ServesOn
    <3> QED BY <3>3 DEF Due
  <2> QED BY <2>2, <2>3, <2>4
<1>11. \A s \in Surfaces : \A w : Says(s, w) => Says(s, w)'
  BY <1>1 DEF Says, Latest
<1>12. ASSUME NEW u \in TrayTasks, NEW s \in Surfaces, Counts(u, s)' PROVE Counts(u, s) /\ drawing'[u].saw = drawing[u].saw
  <2>1. u # t /\ ~(bare /\ u = Spawned)
    BY <1>2, <1>3, <1>4, <1>5, <1>12 DEF Counts, Flying
  <2>2. drawing'[u] = drawing[u]
    BY <1>3, <2>1
  <2> QED BY <1>12, <2>2 DEF Counts, Flying, Surface
<1>13. ASSUME NEW s \in Surfaces PROVE SurfaceFits(s)'
  <2>1. SurfaceFits(s)
    BY DEF TrayInvariant
  <2>2. \A u \in TrayTasks : Counts(u, s)' => Says(s, drawing[u].saw)' \/ Due(s)'
    <3>1. ASSUME NEW u \in TrayTasks, Counts(u, s)' PROVE Says(s, drawing[u].saw)' \/ Due(s)'
      <4>1. Counts(u, s) /\ drawing'[u].saw = drawing[u].saw
        BY <1>12, <3>1
      <4>2. Says(s, drawing[u].saw) \/ Due(s)
        BY <2>1, <4>1 DEF SurfaceFits
      <4>3. \A w : Says(s, w) => Says(s, w)'
        BY <1>11
      <4> QED BY <1>10, <4>1, <4>2, <4>3 DEF Says
    <3> QED BY <3>1
  <2>3. CASE s # s0
    <3>1. shown'[s] = shown[s] /\ (s \in old' <=> s \in old)
      BY <1>1, <2>3 DEF TrayInvariant, TrayTypes
    <3>2. ASSUME NEW u \in TrayTasks, Counts(u, s) PROVE Counts(u, s)' \/ Due(s)'
      <4>1. u # t
        BY <2>3, <3>2 DEF Counts
      <4>2. CASE bare /\ u = Spawned
        <5>1. Head(<<"menu">>) = "menu"
          OBVIOUS
        <5>2. drawing[u].todo = <<"menu">>
          BY <3>2, <4>2, TrayKnown DEF Counts, TaskFits, TrayInvariant, TasksFit
        <5>3. Surface(u) = "menu"
          BY <5>1, <5>2 DEF Surface
        <5> QED BY <1>2, <2>3, <3>2, <4>2, <5>3 DEF Counts
      <4>3. CASE ~(bare /\ u = Spawned)
        <5>1. drawing'[u] = drawing[u]
          BY <1>3, <4>1, <4>3
        <5> QED BY <3>2, <5>1 DEF Counts, Flying, Surface
      <4> QED BY <4>2, <4>3
    <3>3. Says(s, shown[s]) => Says(s, shown[s])'
      BY <1>11, <3>1 DEF Says
    <3> QED BY <1>10, <2>1, <2>2, <3>1, <3>2, <3>3 DEF SurfaceFits
  <2>4. CASE s = s0 /\ drawing[t].overtaken
    BY <1>1, <2>2, <2>4 DEF SurfaceFits
  <2>5. CASE s = s0 /\ ~drawing[t].overtaken /\ bare
    BY <1>2, <1>9, <2>5, SurfaceIsDue DEF Due
  <2>6. CASE s = s0 /\ ~drawing[t].overtaken /\ ~bare
    <3>1. Says(s, drawing[t].saw) \/ Due(s)
      <4>1. Counts(t, s)
        BY <1>1, <2>6 DEF Counts, Flying
      <4> QED BY <2>1, <4>1 DEF SurfaceFits
    <3>2. shown'[s] = drawing[t].saw
      BY <1>1, <2>6 DEF TrayInvariant, TrayTypes
    <3>3. Says(s, drawing[t].saw) => Says(s, shown[s])'
      BY <1>1, <3>2 DEF Says, Latest
    <3> QED BY <1>10, <2>2, <3>1, <3>3 DEF SurfaceFits
  <2> QED BY <2>3, <2>4, <2>5, <2>6
<1> QED BY <1>6, <1>7, <1>8, <1>13 DEF TrayInvariant

-----------------------------------------------------------------------------
(* The tray: those who change what is shown *)

\* The other tasks, as a change leaves them.
Based(d) ==
    /\ Records(d)
    /\ \A u \in TrayTasks :
        /\ Alike(drawing[u], d[u]) /\ d[u].overtaken \in BOOLEAN
        /\ \/ d[u].does = drawing[u].does
           \/ Does(u, "activate") /\ d[u].does \in {"superseded", "replaced"}

LEMMA Bases ==
    ASSUME TrayInvariant
    PROVE  /\ Based(drawing) /\ Based(Supersede("superseded")) /\ Based(Supersede("replaced"))
           /\ \A s : Based(Overtake(s, drawing))
<1>1. Records(drawing) /\ \A u \in TrayTasks : drawing[u].overtaken \in BOOLEAN
  BY DEF TrayInvariant, TasksFit, TaskFits, Records
<1>2. Based(drawing)
  BY <1>1 DEF Based, Alike
<1>3. ASSUME NEW by \in {"superseded", "replaced"} PROVE Based(Supersede(by))
  BY <1>1, Supersedes DEF Based
<1>4. ASSUME NEW s PROVE Based(Overtake(s, drawing))
  <2> DEFINE o == Overtake(s, drawing)
  <2>1. /\ Records(o)
        /\ \A u \in TrayTasks :
             /\ Alike(drawing[u], o[u]) /\ o[u].does = drawing[u].does
             /\ o[u].overtaken = (drawing[u].overtaken \/ (drawing[u].at \in {"fetch", "set"} /\ Surface(u) = s))
    BY <1>1, Overtakes
  <2> HIDE DEF o
  <2>2. ASSUME NEW u \in TrayTasks PROVE o[u].overtaken \in BOOLEAN
    BY <1>1, <2>1
  <2>3. Based(o)
    BY <2>1, <2>2 DEF Based
  <2> QED BY <2>3 DEF o
<1> QED BY <1>2, <1>3, <1>4

\* A task that has not begun a surface, with a purpose that goes with its list.
Proper(x) ==
    /\ Task(x) /\ x.overtaken = FALSE /\ x.todo \in TodosOf(x.does)
    /\ \/ x.at = "next" /\ (x.todo = <<>> => x.does \in {"patch", "sync"})
       \/ x.at \in {"idle", "pend"} /\ x.does = NoTask /\ x.todo = <<>>
       \/ x.at \in {"stopping", "stopped"} /\ x.does = "sync" /\ x.todo = <<>>

\* One task becomes x, the others as d has them.
Moves(t, d, x) == Based(d) /\ Proper(x) /\ drawing' = [d EXCEPT ![t] = x]

LEMMA TaskMoves ==
    ASSUME TrayBounds, TrayInvariant, NEW t \in Callers, NEW d, NEW x, Moves(t, d, x)
    PROVE  /\ TasksFit' /\ ~Flying(t)' /\ drawing'[t] = x
           /\ \A u \in TrayTasks \ {t} : drawing'[u] = d[u]
<1>1. Task(x) /\ t \in TrayTasks /\ t # Spawned /\ Records(d)
  BY DEF Moves, Proper, TrayTasks, TrayBounds, Based
<1>2. Records(drawing') /\ drawing'[t] = x /\ \A u \in TrayTasks \ {t} : drawing'[u] = d[u]
  BY <1>1, OneMoves DEF Moves
<1>3. ~Flying(t)' /\ TaskFits(t)'
  BY <1>1, <1>2 DEF Moves, Proper, Flying, TaskFits, DrawingAt, Does
<1>4. \A u \in TrayTasks \ {t} :
        /\ Alike(drawing[u], drawing'[u]) /\ drawing'[u].overtaken \in BOOLEAN
        /\ \/ drawing'[u].does = drawing[u].does
           \/ Does(u, "activate") /\ drawing'[u].does \in {"superseded", "replaced"}
  BY <1>2 DEF Moves, Based
<1>5. TasksFit'
  BY <1>1, <1>2, <1>3, <1>4, TasksGoOn
<1> QED BY <1>2, <1>3, <1>5

LEMMA IdleIsProper ==
    Proper(IdleDrawing) /\ IdleDrawing.at = "idle" /\ IdleDrawing.does = NoTask /\ IdleDrawing.todo = <<>>
BY DEF Proper, IdleDrawing, Drawing, Task, TodosOf, Todos, NoTask

LEMMA FactGrows ==
    ASSUME TrayBounds, TrayTypes, NEW f \in Facts, MoreHappens, trayChanges' = trayChanges + 1,
           facts' = [facts EXCEPT ![f] = @ + 1], stagedFacts' = stagedFacts
    PROVE  /\ facts' \in [Facts -> 0..MaxTrayEvents] /\ trayChanges' \in Nat
           /\ \A g \in Facts : Latest'[g] <= trayChanges' /\ Latest'[g] <= MaxTrayEvents
           /\ \A g \in Facts \ {f} : Latest'[g] = Latest[g]
<1>1. /\ facts \in [Facts -> 0..MaxTrayEvents] /\ stagedFacts \in BOOLEAN /\ trayChanges \in Nat /\ trayFailures \in Nat
      /\ MaxTrayEvents \in Nat /\ trayChanges + 1 <= MaxTrayEvents /\ "settings" \in Facts
  BY DEF TrayTypes, TrayTypeOK, MoreHappens, TrayBounds, Facts
<1>2. \A g \in Facts : Latest[g] <= trayChanges /\ Latest[g] = IF stagedFacts /\ g = "settings" THEN facts[g] + 1 ELSE facts[g]
  BY <1>1 DEF Latest, TrayTypes
<1>3. \A g \in Facts : facts'[g] = IF g = f THEN facts[g] + 1 ELSE facts[g]
  BY <1>1
<1>4. \A g \in Facts : facts[g] \in Nat /\ facts'[g] \in 0..MaxTrayEvents
  <2>1. \A g \in Facts : facts[g] \in Nat /\ facts[g] <= trayChanges
    BY <1>1, <1>2
  <2> QED BY <1>1, <1>3, <2>1
<1>5. facts' \in [Facts -> 0..MaxTrayEvents]
  BY <1>1, <1>4
<1>6. \A g \in Facts : Latest'[g] = IF stagedFacts /\ g = "settings" THEN facts'[g] + 1 ELSE facts'[g]
  BY <1>1, <1>5 DEF Latest
<1>7. \A g \in Facts : Latest'[g] = IF g = f THEN Latest[g] + 1 ELSE Latest[g]
  BY <1>2, <1>3, <1>4, <1>6
<1>8. \A g \in Facts : Latest'[g] <= trayChanges' /\ Latest'[g] <= MaxTrayEvents
  BY <1>1, <1>2, <1>4, <1>7
<1> QED BY <1>1, <1>5, <1>7, <1>8

LEMMA IdleServesNone ==
    ASSUME NEW t \in TrayTasks, TaskFits(t), DrawingAt(t, "idle") PROVE ~Flying(t) /\ \A s : ~Serves(t, s)
<1>1. drawing[t].at = "idle" /\ drawing[t].does = NoTask /\ drawing[t].todo = <<>>
  BY DEF TaskFits, DrawingAt, Does
<1> QED BY <1>1, ListNames DEF Serves, Left, Flying, Does, DrawingAt, NoTask

LEMMA TaskWillServe ==
    ASSUME NEW t \in TrayTasks, NEW s, drawing'[t].at = "next", s \in Names(drawing'[t].todo),
           drawing'[t].does \in {NoTask, "patch", "sync", "activate"},
           s = "icon" /\ stagedFacts' => drawing'[t].does = "patch"
    PROVE  Due(s)'
<1>1. Serves(t, s)'
  BY DEF Serves, Left, Flying, Dropped, Patching, Does, NoTask
<1> QED BY <1>1 DEF Due

LEMMA ShowsAre ==
    /\ Shows("menu") = Facts /\ Shows("icon") = {"settings"} /\ Shows("tooltip") = {"settings", "profile"}
    /\ Surfaces = {"menu", "icon", "tooltip"}
    /\ \A s \in Surfaces : Shows(s) \subseteq Facts
BY DEF Shows, MenuShows, IconShows, TooltipShows, Surfaces, Facts

\* What has superseded an activation serves the tooltip in its place, or says so.
LEMMA SupersededServe ==
    ASSUME TrayInvariant, NEW by \in {"superseded", "replaced"}, NEW t \in TrayTasks, NEW s \in {"icon", "tooltip"},
           s = "tooltip" => by = "superseded",
           \A v \in TrayTasks \ {t} : drawing'[v] = Supersede(by)[v],
           stagedFacts' => stagedFacts, Serves(t, s) => Due(s)'
    PROVE  Due(s) => Due(s)'
<1> SUFFICES ASSUME NEW u \in TrayTasks, Serves(u, s), u # t PROVE Serves(u, s)'
  BY DEF Due
<1>1. /\ Alike(drawing[u], drawing'[u])
      /\ drawing'[u].does = IF Does(u, "activate") THEN by ELSE drawing[u].does
  BY Supersedes DEF TrayInvariant, TasksFit, Records
<1>2. CASE Does(u, "activate")
  <2>1. /\ drawing[u].todo \in {<<"tooltip", "menu">>, <<"menu">>} /\ drawing[u].does = "activate"
        /\ drawing[u].at \in {"next", "fetch", "set"}
    BY <1>2 DEF TrayInvariant, TasksFit, TaskFits, TodosOf, Does, DrawingAt, NoTask
  <2>2. s \in Left(u)
    BY <2>1 DEF Serves, Does
  <2>3. Names(<<"menu">>) = {"menu"} /\ Names(<<"tooltip", "menu">>) = {"tooltip", "menu"}
        /\ Tail(<<"tooltip", "menu">>) = <<"menu">> /\ Tail(<<"menu">>) = <<>> /\ Names(<<>>) = {}
    BY ListNames, ListEnds
  <2>4. s = "tooltip" /\ drawing[u].todo = <<"tooltip", "menu">> /\ drawing[u].at = "next"
    BY <2>1, <2>2, <2>3 DEF Left, Flying
  <2> QED BY <1>1, <1>2, <2>4 DEF Serves, Alike, DrawingAt, Does
<1>3. CASE ~Does(u, "activate")
  BY <1>1, <1>3, ServesOn
<1> QED BY <1>2, <1>3

\* A fact changes: the types hold on, and so do the patch and the loop.
LEMMA FactKeeps ==
    ASSUME TrayBounds, TrayInvariant, NEW f \in Facts, MoreHappens, trayChanges' = trayChanges + 1,
           facts' = [facts EXCEPT ![f] = @ + 1], stagedFacts' = stagedFacts, shown' = shown, old' \subseteq Surfaces,
           syncRunning' \in BOOLEAN, syncPending' \in BOOLEAN, trayFailures' \in Nat, TasksFit'
    PROVE  /\ TrayTypes' /\ \A g \in Facts \ {f} : Latest'[g] = Latest[g]
<1>1. /\ facts' \in [Facts -> 0..MaxTrayEvents] /\ trayChanges' \in Nat
      /\ \A g \in Facts : Latest'[g] <= trayChanges' /\ Latest'[g] <= MaxTrayEvents
      /\ \A g \in Facts \ {f} : Latest'[g] = Latest[g]
  BY FactGrows DEF TrayInvariant
<1>2. stagedFacts' \in BOOLEAN
  BY DEF TrayInvariant, TrayTypes, TrayTypeOK
<1> QED BY <1>1, <1>2, TypesOn DEF TrayInvariant

LEMMA ChangeAppKeeps ==
    ASSUME TrayBounds, TrayInvariant, NEW t \in Callers, ChangeApp(t) PROVE TrayInvariant'
<1> DEFINE x == Drawing("next", NoTask, <<"menu">>)
<1>1. /\ DrawingAt(t, "idle") /\ MoreHappens /\ trayChanges' = trayChanges + 1
      /\ facts' = [facts EXCEPT !["app"] = @ + 1] /\ drawing' = [drawing EXCEPT ![t] = x]
      /\ UNCHANGED <<stagedFacts, shown, old, syncRunning, syncPending, trayFailures>>
  BY DEF ChangeApp, StartsUpdate, Follow, sync
<1>2. t \in TrayTasks /\ Based(drawing)
  BY Bases DEF TrayTasks
<1>0. Proper(x) /\ x.at = "next" /\ x.does = NoTask /\ x.todo = <<"menu">>
  BY DEF Proper, Drawing, Task, TodosOf, Todos, NoTask
<1> HIDE DEF x
<1>3. /\ TasksFit' /\ ~Flying(t)' /\ drawing'[t].at = "next" /\ drawing'[t].does = NoTask /\ drawing'[t].todo = <<"menu">>
      /\ \A u \in TrayTasks \ {t} : drawing'[u] = drawing[u]
  <2>1. Moves(t, drawing, x)
    BY <1>0, <1>1, <1>2 DEF Moves
  <2> QED BY <1>0, <2>1, TaskMoves
<1>4. TaskFits(t) /\ TrayTypes /\ SyncFits /\ ~Flying(t) /\ \A s : ~Serves(t, s)
  BY <1>1, <1>2, IdleServesNone, TrayKnown DEF TrayInvariant
<1>5. TrayTypes' /\ \A g \in Facts \ {"app"} : Latest'[g] = Latest[g]
  BY <1>1, <1>3, <1>4, FactKeeps DEF TrayTypes, TrayTypeOK, Facts
<1>6. SyncFits'
  <2>1. \A u \in TrayTasks : (Patching(u)' <=> Patching(u)) /\ (Syncing(u)' <=> Syncing(u))
    BY <1>1, <1>3, <1>4 DEF Patching, Syncing, Does, DrawingAt, NoTask, TaskFits
  <2> QED BY <1>1, <1>4, <2>1, SyncOn
<1>7. ASSUME NEW s \in Surfaces PROVE SurfaceFits(s)'
  <2>1. CASE s = "menu"
    BY <1>2, <1>3, <2>1, ListNames, TaskWillServe, SurfaceIsDue
  <2>2. CASE s # "menu"
    <3>1. \A g \in Shows(s) : Latest'[g] = Latest[g]
      BY <1>5, <2>2, ShowsAre DEF Facts
    <3>2. \A u \in TrayTasks \ {t} : Alike(drawing[u], drawing'[u]) /\ drawing'[u].does = drawing[u].does
      BY <1>3 DEF Alike
    <3>3. Due(s) => Due(s)'
      BY <1>1, <1>2, <1>4, <3>2, OthersServe
    <3>4. \A u \in TrayTasks \ {t} : drawing'[u].overtaken = drawing[u].overtaken
      BY <1>3
    <3>5. trayFailures' \in Nat /\ trayFailures' >= trayFailures
      BY <1>1, <1>4 DEF TrayTypes
    <3> QED BY <1>1, <1>2, <1>3, <1>4, <3>1, <3>2, <3>3, <3>4, <3>5, SurfaceWaits
  <2> QED BY <2>1, <2>2
<1> QED BY <1>3, <1>5, <1>6, <1>7 DEF TrayInvariant

LEMMA PickKeeps ==
    ASSUME TrayBounds, TrayInvariant, NEW t \in Callers, Pick(t) PROVE TrayInvariant'
<1> DEFINE x == Drawing("next", NoTask, <<"menu">>)
<1>1. /\ DrawingAt(t, "idle") /\ MoreHappens /\ trayChanges' = trayChanges + 1
      /\ facts' = [facts EXCEPT !["node"] = @ + 1]
      /\ drawing' = [Supersede("superseded") EXCEPT ![t] = x]
      /\ UNCHANGED <<stagedFacts, shown, old, syncRunning, syncPending, trayFailures>>
  BY DEF Pick, Follow, sync
<1>2. t \in TrayTasks /\ Based(Supersede("superseded"))
  BY Bases DEF TrayTasks
<1>0. Proper(x) /\ x.at = "next" /\ x.does = NoTask /\ x.todo = <<"menu">>
  BY DEF Proper, Drawing, Task, TodosOf, Todos, NoTask
<1> HIDE DEF x
<1>3. /\ TasksFit' /\ ~Flying(t)' /\ drawing'[t].at = "next" /\ drawing'[t].does = NoTask /\ drawing'[t].todo = <<"menu">>
      /\ \A u \in TrayTasks \ {t} : drawing'[u] = Supersede("superseded")[u]
  <2>1. Moves(t, Supersede("superseded"), x)
    BY <1>0, <1>1, <1>2 DEF Moves
  <2> QED BY <1>0, <2>1, TaskMoves
<1>4. TaskFits(t) /\ TrayTypes /\ SyncFits /\ ~Flying(t) /\ \A s : ~Serves(t, s)
  BY <1>1, <1>2, IdleServesNone, TrayKnown DEF TrayInvariant
<1>5. TrayTypes' /\ \A g \in Facts \ {"node"} : Latest'[g] = Latest[g]
  BY <1>1, <1>3, <1>4, FactKeeps DEF TrayTypes, TrayTypeOK, Facts
<1>6. \A u \in TrayTasks \ {t} :
         /\ Alike(drawing[u], drawing'[u]) /\ drawing'[u].overtaken = drawing[u].overtaken
         /\ drawing'[u].does = IF Does(u, "activate") THEN "superseded" ELSE drawing[u].does
  BY <1>3, Supersedes DEF TrayInvariant, TasksFit, Records
<1>7. SyncFits'
  <2>1. \A u \in TrayTasks : (Patching(u)' <=> Patching(u)) /\ (Syncing(u)' <=> Syncing(u))
    BY <1>1, <1>3, <1>4, <1>6 DEF Patching, Syncing, Does, DrawingAt, NoTask, TaskFits, Alike
  <2> QED BY <1>1, <1>4, <2>1, SyncOn
<1>8. ASSUME NEW s \in Surfaces PROVE SurfaceFits(s)'
  <2>1. CASE s = "menu"
    BY <1>2, <1>3, <2>1, ListNames, TaskWillServe, SurfaceIsDue
  <2>2. CASE s # "menu"
    <3>1. \A g \in Shows(s) : Latest'[g] = Latest[g]
      BY <1>5, <2>2, ShowsAre DEF Facts
    <3>3. Due(s) => Due(s)'
      BY <1>1, <1>2, <1>3, <1>4, <2>2, SupersededServe, ShowsAre
    <3>4. trayFailures' \in Nat /\ trayFailures' >= trayFailures
      BY <1>1, <1>4 DEF TrayTypes
    <3> QED BY <1>1, <1>2, <1>3, <1>4, <1>6, <3>1, <3>3, <3>4, SurfaceWaits
  <2> QED BY <2>1, <2>2
<1> QED BY <1>3, <1>5, <1>7, <1>8 DEF TrayInvariant

LEMMA SwitchKeeps ==
    ASSUME TrayBounds, TrayInvariant, NEW t \in Callers, Switch(t) PROVE TrayInvariant'
<1> DEFINE x == Drawing("next", "activate", <<"tooltip", "menu">>)
<1>1. /\ DrawingAt(t, "idle") /\ MoreHappens /\ trayChanges' = trayChanges + 1
      /\ facts' = [facts EXCEPT !["profile"] = @ + 1]
      /\ drawing' = [Supersede("replaced") EXCEPT ![t] = x]
      /\ UNCHANGED <<stagedFacts, shown, old, syncRunning, syncPending, trayFailures>>
  BY DEF Switch, Follow, sync
<1>2. t \in TrayTasks /\ Based(Supersede("replaced"))
  BY Bases DEF TrayTasks
<1>0. Proper(x) /\ x.at = "next" /\ x.does = "activate" /\ x.todo = <<"tooltip", "menu">>
  BY DEF Proper, Drawing, Task, TodosOf, Todos, NoTask
<1> HIDE DEF x
<1>3. /\ TasksFit' /\ ~Flying(t)' /\ drawing'[t].at = "next" /\ drawing'[t].does = "activate" /\ drawing'[t].todo = <<"tooltip", "menu">>
      /\ \A u \in TrayTasks \ {t} : drawing'[u] = Supersede("replaced")[u]
  <2>1. Moves(t, Supersede("replaced"), x)
    BY <1>0, <1>1, <1>2 DEF Moves
  <2> QED BY <1>0, <2>1, TaskMoves
<1>4. TaskFits(t) /\ TrayTypes /\ SyncFits /\ ~Flying(t) /\ \A s : ~Serves(t, s)
  BY <1>1, <1>2, IdleServesNone, TrayKnown DEF TrayInvariant
<1>5. TrayTypes' /\ \A g \in Facts \ {"profile"} : Latest'[g] = Latest[g]
  BY <1>1, <1>3, <1>4, FactKeeps DEF TrayTypes, TrayTypeOK, Facts
<1>6. \A u \in TrayTasks \ {t} :
         /\ Alike(drawing[u], drawing'[u]) /\ drawing'[u].overtaken = drawing[u].overtaken
         /\ drawing'[u].does = IF Does(u, "activate") THEN "replaced" ELSE drawing[u].does
  BY <1>3, Supersedes DEF TrayInvariant, TasksFit, Records
<1>7. SyncFits'
  <2>1. \A u \in TrayTasks : (Patching(u)' <=> Patching(u)) /\ (Syncing(u)' <=> Syncing(u))
    BY <1>1, <1>3, <1>4, <1>6 DEF Patching, Syncing, Does, DrawingAt, NoTask, TaskFits, Alike
  <2> QED BY <1>1, <1>4, <2>1, SyncOn
<1>8. ASSUME NEW s \in Surfaces PROVE SurfaceFits(s)'
  <2>1. CASE s \in {"tooltip", "menu"}
    BY <1>2, <1>3, <2>1, ListNames, TaskWillServe, SurfaceIsDue
  <2>2. CASE s = "icon"
    <3>1. \A g \in Shows(s) : Latest'[g] = Latest[g]
      BY <1>5, <2>2, ShowsAre DEF Facts
    <3>3. Due(s) => Due(s)'
      BY <1>1, <1>2, <1>3, <1>4, <2>2, SupersededServe
    <3>4. trayFailures' \in Nat /\ trayFailures' >= trayFailures
      BY <1>1, <1>4 DEF TrayTypes
    <3> QED BY <1>1, <1>2, <1>3, <1>4, <1>6, <3>1, <3>3, <3>4, SurfaceWaits
  <2> QED BY <2>1, <2>2, ShowsAre
<1> QED BY <1>3, <1>5, <1>7, <1>8 DEF TrayInvariant

LEMMA AskSyncKeeps ==
    ASSUME TrayBounds, TrayInvariant, NEW t \in Callers, AskSync(t) PROVE TrayInvariant'
<1> DEFINE place == IF syncRunning THEN "pend" ELSE "next"
           does  == IF syncRunning THEN NoTask ELSE "sync"
           todo  == IF syncRunning THEN <<>> ELSE <<"menu">>
           x     == Drawing(place, does, todo)
<1>1. /\ DrawingAt(t, "idle") /\ MoreHappens /\ trayChanges' = trayChanges + 1
      /\ facts' = [facts EXCEPT !["node"] = @ + 1]
      /\ drawing' = [Supersede("superseded") EXCEPT ![t] = x]
      /\ syncRunning' = TRUE
      /\ UNCHANGED <<stagedFacts, shown, old, syncPending, trayFailures>>
  BY DEF AskSync, TrayInvariant, TrayTypes
<1>2. t \in TrayTasks /\ Based(Supersede("superseded"))
  BY Bases DEF TrayTasks
<1>0. Proper(x) /\ x.at = place /\ x.does = does /\ x.todo = todo
  BY DEF Proper, Drawing, Task, TodosOf, Todos, NoTask
<1> HIDE DEF place, does, todo, x
<1>3. /\ TasksFit' /\ ~Flying(t)' /\ drawing'[t].at = place /\ drawing'[t].does = does /\ drawing'[t].todo = todo
      /\ \A u \in TrayTasks \ {t} : drawing'[u] = Supersede("superseded")[u]
  <2>1. Moves(t, Supersede("superseded"), x)
    BY <1>0, <1>1, <1>2 DEF Moves
  <2> QED BY <1>0, <2>1, TaskMoves
<1>4. TaskFits(t) /\ TrayTypes /\ SyncFits /\ ~Flying(t) /\ \A s : ~Serves(t, s)
  BY <1>1, <1>2, IdleServesNone, TrayKnown DEF TrayInvariant
<1>5. TrayTypes' /\ \A g \in Facts \ {"node"} : Latest'[g] = Latest[g]
  BY <1>1, <1>3, <1>4, FactKeeps DEF TrayTypes, TrayTypeOK, Facts
<1>6. \A u \in TrayTasks \ {t} :
         /\ Alike(drawing[u], drawing'[u]) /\ drawing'[u].overtaken = drawing[u].overtaken
         /\ drawing'[u].does = IF Does(u, "activate") THEN "superseded" ELSE drawing[u].does
  BY <1>3, Supersedes DEF TrayInvariant, TasksFit, Records
<1>7. SyncFits'
  <2>1. \A u \in TrayTasks : Patching(u)' <=> Patching(u)
    BY <1>1, <1>3, <1>4, <1>6 DEF Patching, Does, DrawingAt, NoTask, TaskFits, does
  <2>2. \A u \in TrayTasks \ {t} : Syncing(u)' <=> Syncing(u)
    BY <1>6 DEF Syncing, Does, DrawingAt, Alike
  <2>3. ~Syncing(t) /\ (Syncing(t)' <=> ~syncRunning)
    BY <1>1, <1>3, <1>4 DEF Syncing, Does, DrawingAt, NoTask, TaskFits, place, does
  <2> QED BY <1>1, <1>2, <1>4, <2>1, <2>2, <2>3 DEF SyncFits
<1>8. ASSUME NEW s \in Surfaces PROVE SurfaceFits(s)'
  <2>1. CASE s = "menu" /\ syncRunning
    <3>1. Serves(t, s)'
      BY <1>3, <2>1 DEF Serves, DrawingAt, place
    <3> QED BY <1>2, <3>1, SurfaceIsDue DEF Due
  <2>2. CASE s = "menu" /\ ~syncRunning
    <3>1. drawing'[t].at = "next" /\ drawing'[t].does = "sync" /\ drawing'[t].todo = <<"menu">>
      BY <1>3, <2>2 DEF place, does, todo
    <3> QED BY <1>2, <2>2, <3>1, ListNames, TaskWillServe, SurfaceIsDue
  <2>3. CASE s # "menu"
    <3>1. \A g \in Shows(s) : Latest'[g] = Latest[g]
      BY <1>5, <2>3, ShowsAre DEF Facts
    <3>3. Due(s) => Due(s)'
      BY <1>1, <1>2, <1>3, <1>4, <2>3, SupersededServe, ShowsAre
    <3>4. trayFailures' \in Nat /\ trayFailures' >= trayFailures
      BY <1>1, <1>4 DEF TrayTypes
    <3> QED BY <1>1, <1>2, <1>3, <1>4, <1>6, <3>1, <3>3, <3>4, SurfaceWaits
  <2> QED BY <2>1, <2>2, <2>3
<1> QED BY <1>3, <1>5, <1>7, <1>8 DEF TrayInvariant

\* A step that changes nothing of what is shown.
LEMMA NothingChanges ==
    ASSUME TrayInvariant, UNCHANGED <<facts, stagedFacts, shown, trayChanges, trayFailures>>, old' \subseteq Surfaces,
           syncRunning' \in BOOLEAN, syncPending' \in BOOLEAN, TasksFit'
    PROVE  TrayTypes'
<1>1. Latest' = Latest
  BY DEF Latest
<1> QED BY <1>1, TypesOn DEF TrayInvariant, TrayTypes, TrayTypeOK

\* The updates of a surface that is missed are all overtaken.
LEMMA OvertakenMiss ==
    ASSUME TrayInvariant, NEW s \in Surfaces, s \in old', NEW t \in TrayTasks, ~Flying(t)',
           \A u \in TrayTasks \ {t} : drawing'[u] = Overtake(s, drawing)[u]
    PROVE  SurfaceFits(s)'
<1>1. Records(drawing) /\ \A u \in TrayTasks : drawing[u].overtaken \in BOOLEAN
  BY TrayKnown
<1>2. ASSUME NEW u \in TrayTasks, Counts(u, s)' PROVE FALSE
  <2>1. u # t /\ Flying(u)' /\ Surface(u)' = s /\ ~drawing'[u].overtaken
    BY <1>2 DEF Counts
  <2>2. /\ Alike(drawing[u], drawing'[u])
        /\ drawing'[u].overtaken = (drawing[u].overtaken \/ (drawing[u].at \in {"fetch", "set"} /\ Surface(u) = s))
    BY <1>1, <2>1, Overtakes
  <2> QED BY <2>1, <2>2 DEF Flying, Surface, Alike
<1> QED BY <1>2, SurfaceIsMissed

\* A surface that a step does not concern.
LEMMA SurfaceAside ==
    ASSUME TrayInvariant, NEW s \in Surfaces, UNCHANGED <<facts, stagedFacts, shown>>, old \subseteq old',
           trayFailures' \in Nat, trayFailures' >= trayFailures,
           NEW t \in TrayTasks, ~Flying(t), ~Flying(t)', Serves(t, s) => Due(s)',
           s = "menu" /\ syncPending => syncPending',
           NEW d, d = drawing \/ \E other \in Surfaces \ {s} : d = Overtake(other, drawing),
           \A u \in TrayTasks \ {t} : drawing'[u] = d[u]
    PROVE  SurfaceFits(s)'
<1>1. Records(drawing) /\ \A u \in TrayTasks : drawing[u].overtaken \in BOOLEAN
  BY TrayKnown
<1>2. ASSUME NEW u \in TrayTasks \ {t}
      PROVE  /\ Alike(drawing[u], drawing'[u]) /\ drawing'[u].does = drawing[u].does
             /\ Flying(u) /\ Surface(u) = s => drawing'[u].overtaken = drawing[u].overtaken
  <2>1. CASE d = drawing
    BY <2>1 DEF Alike
  <2>2. CASE d # drawing
    <3>1. PICK other \in Surfaces \ {s} : d = Overtake(other, drawing)
      BY <2>2
    <3>2. /\ Alike(drawing[u], d[u]) /\ d[u].does = drawing[u].does
          /\ d[u].overtaken = (drawing[u].overtaken \/ (drawing[u].at \in {"fetch", "set"} /\ Surface(u) = other))
      BY <1>1, <3>1, Overtakes
    <3> QED BY <1>1, <3>1, <3>2
  <2> QED BY <2>1, <2>2
<1>3. Due(s) => Due(s)'
  BY <1>2, OthersServe
<1>4. \A f \in Shows(s) : Latest'[f] = Latest[f]
  BY DEF Latest
<1> QED BY <1>2, <1>3, <1>4, SurfaceWaits

LEMMA DropUpdateKeeps ==
    ASSUME TrayBounds, TrayInvariant, NEW t \in Callers, DropUpdate(t) PROVE TrayInvariant'
<1> DEFINE passed == Does(t, "superseded") /\ Head(drawing[t].todo) = "tooltip"
           d    == IF passed THEN Overtake("tooltip", drawing) ELSE drawing
<1>1. /\ drawing[t].at = "next" /\ drawing[t].does \in {"superseded", "replaced"}
      /\ drawing' = [d EXCEPT ![t] = IdleDrawing]
      /\ old' = IF passed THEN old \cup {"tooltip"} ELSE old
      /\ UNCHANGED <<facts, stagedFacts, shown, syncRunning, syncPending, trayChanges, trayFailures>>
  BY DEF DropUpdate, DrawingAt, Misses, sync, trayCounts
<1>2. t \in TrayTasks /\ Based(d)
  BY Bases DEF TrayTasks
<1>3. /\ TrayTypes /\ SyncFits /\ TaskFits(t)
      /\ \A u \in TrayTasks : drawing[u].overtaken \in BOOLEAN
  BY <1>2, TrayKnown DEF TrayInvariant
<1>4. d = drawing \/ d = Overtake("tooltip", drawing)
  OBVIOUS
<1>5. passed => d = Overtake("tooltip", drawing)
  OBVIOUS
<1> HIDE DEF d
<1>6. /\ TasksFit' /\ ~Flying(t)' /\ drawing'[t].at = "idle" /\ drawing'[t].does = NoTask
      /\ \A u \in TrayTasks \ {t} : drawing'[u] = d[u]
  <2>1. Moves(t, d, IdleDrawing)
    BY <1>1, <1>2, IdleIsProper DEF Moves
  <2> QED BY <2>1, IdleIsProper, TaskMoves
<1>7. \A u \in TrayTasks \ {t} : Alike(drawing[u], drawing'[u]) /\ drawing'[u].does = drawing[u].does
  BY <1>3, <1>4, <1>6, Overtakes DEF Alike, TrayInvariant, TasksFit, Records
<1>8. TrayTypes'
  <2>1. old' \subseteq Surfaces
    BY <1>1, <1>3 DEF TrayTypes, TrayTypeOK, Surfaces
  <2> QED BY <1>1, <1>3, <1>6, <2>1, NothingChanges DEF TrayTypes
<1>9. SyncFits'
  <2>1. \A u \in TrayTasks : (Patching(u)' <=> Patching(u)) /\ (Syncing(u)' <=> Syncing(u))
    BY <1>1, <1>6, <1>7 DEF Patching, Syncing, Does, DrawingAt, NoTask, Alike
  <2> QED BY <1>1, <1>3, <2>1, SyncOn
<1>10. ASSUME NEW s \in Surfaces PROVE SurfaceFits(s)'
  <2>1. CASE passed /\ s = "tooltip"
    BY <1>1, <1>2, <1>5, <1>6, <2>1, OvertakenMiss
  <2>2. CASE ~(passed /\ s = "tooltip")
    <3>1. ~Flying(t) /\ ~Serves(t, s)
      <4>1. Head(<<"tooltip", "menu">>) = "tooltip"
        OBVIOUS
      <4> QED BY <1>1, <2>2, <4>1 DEF Serves, Dropped, Does, DrawingAt, Flying
    <3>2. d = drawing \/ \E other \in Surfaces \ {s} : d = Overtake(other, drawing)
      <4>1. ~passed => d = drawing
        BY DEF d
      <4> QED BY <1>5, <2>2, <4>1 DEF Surfaces
    <3>3. old \subseteq old' /\ trayFailures' \in Nat /\ trayFailures' >= trayFailures
      BY <1>1, <1>3 DEF TrayTypes
    <3> HIDE DEF passed
    <3> QED BY <1>1, <1>2, <1>6, <3>1, <3>2, <3>3, SurfaceAside
  <2> QED BY <2>1, <2>2
<1> QED BY <1>6, <1>8, <1>9, <1>10 DEF TrayInvariant

LEMMA PendKeeps ==
    ASSUME TrayBounds, TrayInvariant, NEW t \in Callers, Pend(t) PROVE TrayInvariant'
<1> DEFINE d == IF syncRunning THEN drawing ELSE Overtake("menu", drawing)
<1>1. /\ drawing[t].at = "pend" /\ syncPending' = TRUE
      /\ drawing' = [d EXCEPT ![t] = IdleDrawing]
      /\ old' = IF syncRunning THEN old ELSE old \cup {"menu"}
      /\ UNCHANGED <<facts, stagedFacts, shown, syncRunning, trayChanges, trayFailures>>
  BY DEF Pend, DrawingAt, Misses, trayCounts
<1>2. t \in TrayTasks /\ Based(d)
  BY Bases DEF TrayTasks
<1>3. /\ TrayTypes /\ SyncFits /\ TaskFits(t) /\ syncRunning \in BOOLEAN
      /\ \A u \in TrayTasks : drawing[u].overtaken \in BOOLEAN
  BY <1>2, TrayKnown DEF TrayInvariant, TrayTypes
<1>4. (syncRunning => d = drawing) /\ (~syncRunning => d = Overtake("menu", drawing))
  OBVIOUS
<1> HIDE DEF d
<1>5. drawing[t].does = NoTask /\ drawing[t].todo = <<>>
  BY <1>1, <1>3 DEF TaskFits, DrawingAt, Does
<1>6. /\ TasksFit' /\ ~Flying(t)' /\ drawing'[t].at = "idle" /\ drawing'[t].does = NoTask
      /\ \A u \in TrayTasks \ {t} : drawing'[u] = d[u]
  <2>1. Moves(t, d, IdleDrawing)
    BY <1>1, <1>2, IdleIsProper DEF Moves
  <2> QED BY <2>1, IdleIsProper, TaskMoves
<1>7. \A u \in TrayTasks \ {t} : Alike(drawing[u], drawing'[u]) /\ drawing'[u].does = drawing[u].does
  BY <1>3, <1>4, <1>6, Overtakes DEF Alike, TrayInvariant, TasksFit, Records
<1>8. TrayTypes'
  <2>1. old' \subseteq Surfaces
    BY <1>1, <1>3 DEF TrayTypes, TrayTypeOK, Surfaces
  <2> QED BY <1>1, <1>3, <1>6, <2>1, NothingChanges DEF TrayTypes
<1>9. SyncFits'
  <2>1. \A u \in TrayTasks : (Patching(u)' <=> Patching(u)) /\ (Syncing(u)' <=> Syncing(u))
    BY <1>1, <1>5, <1>6, <1>7 DEF Patching, Syncing, Does, DrawingAt, NoTask, Alike
  <2> QED BY <1>1, <1>3, <2>1, SyncOn
<1>10. ASSUME NEW s \in Surfaces PROVE SurfaceFits(s)'
  <2>1. CASE s = "menu" /\ syncRunning
    <3>1. PICK u \in TrayTasks : Syncing(u)
      BY <1>3, <2>1 DEF SyncFits
    <3>2. u # t
      BY <1>5, <3>1 DEF Syncing, Does, NoTask
    <3>3. Serves(u, s)'
      BY <1>1, <1>7, <2>1, <3>1, <3>2 DEF Serves, Syncing, Does
    <3> QED BY <3>3, SurfaceIsDue DEF Due
  <2>2. CASE s = "menu" /\ ~syncRunning
    BY <1>1, <1>2, <1>4, <1>6, <2>2, OvertakenMiss
  <2>3. CASE s # "menu"
    <3>1. ~Flying(t) /\ ~Serves(t, s)
      BY <1>1, <1>5, <2>3, ListNames DEF Serves, Left, Flying, Does, DrawingAt
    <3>2. d = drawing \/ \E other \in Surfaces \ {s} : d = Overtake(other, drawing)
      BY <1>3, <1>4, <2>3 DEF Surfaces
    <3>3. old \subseteq old' /\ trayFailures' \in Nat /\ trayFailures' >= trayFailures
      BY <1>1, <1>3 DEF TrayTypes
    <3> QED BY <1>1, <1>2, <1>6, <2>3, <3>1, <3>2, <3>3, SurfaceAside
  <2> QED BY <2>1, <2>2, <2>3
<1> QED BY <1>6, <1>8, <1>9, <1>10 DEF TrayInvariant

LEMMA ChangeModeKeeps ==
    ASSUME TrayBounds, TrayInvariant, NEW t \in Callers, change_clash_mode(t) PROVE TrayInvariant'
<1>1. /\ DrawingAt(t, "idle") /\ MoreHappens /\ trayChanges' = trayChanges + 1
      /\ facts' = [facts EXCEPT !["mode"] = @ + 1]
      /\ UNCHANGED <<stagedFacts, shown, syncRunning, syncPending>>
  BY DEF change_clash_mode, sync
<1>2. t \in TrayTasks /\ Based(drawing) /\ Based(Overtake("menu", drawing))
  BY Bases DEF TrayTasks
<1>3. /\ TaskFits(t) /\ TrayTypes /\ SyncFits /\ ~Flying(t) /\ \A s : ~Serves(t, s)
      /\ Records(drawing) /\ \A u \in TrayTasks : drawing[u].overtaken \in BOOLEAN
  BY <1>1, <1>2, IdleServesNone, TrayKnown DEF TrayInvariant
<1>4. CASE /\ drawing' = [drawing EXCEPT ![t] = Drawing("next", NoTask, <<"menu", "icon">>)]
           /\ UNCHANGED <<old, trayFailures>>
  <2> DEFINE x == Drawing("next", NoTask, <<"menu", "icon">>)
  <2>1. Proper(x) /\ x.at = "next" /\ x.does = NoTask /\ x.todo = <<"menu", "icon">>
    BY DEF Proper, Drawing, Task, TodosOf, Todos, NoTask
  <2>2. Moves(t, drawing, x)
    BY <1>2, <1>4, <2>1 DEF Moves
  <2> HIDE DEF x
  <2>3. /\ TasksFit' /\ ~Flying(t)' /\ drawing'[t].at = "next" /\ drawing'[t].does = NoTask /\ drawing'[t].todo = <<"menu", "icon">>
        /\ \A u \in TrayTasks \ {t} : drawing'[u] = drawing[u]
    BY <2>1, <2>2, TaskMoves
  <2>4. TrayTypes' /\ \A g \in Facts \ {"mode"} : Latest'[g] = Latest[g]
    BY <1>1, <1>3, <1>4, <2>3, FactKeeps DEF TrayTypes, TrayTypeOK, Facts
  <2>5. SyncFits'
    <3>1. \A u \in TrayTasks : (Patching(u)' <=> Patching(u)) /\ (Syncing(u)' <=> Syncing(u))
      BY <1>1, <1>3, <2>3 DEF Patching, Syncing, Does, DrawingAt, NoTask, TaskFits
    <3> QED BY <1>1, <1>3, <3>1, SyncOn
  <2>6. ASSUME NEW s \in Surfaces PROVE SurfaceFits(s)'
    <3>1. CASE s = "menu"
      BY <1>2, <2>3, <3>1, ListNames, TaskWillServe, SurfaceIsDue
    <3>2. CASE s # "menu"
      <4>1. \A g \in Shows(s) : Latest'[g] = Latest[g]
        BY <2>4, <3>2, ShowsAre DEF Facts
      <4>2. \A u \in TrayTasks \ {t} : Alike(drawing[u], drawing'[u]) /\ drawing'[u].does = drawing[u].does
        BY <2>3 DEF Alike
      <4>3. Due(s) => Due(s)'
        BY <1>1, <1>2, <1>3, <4>2, OthersServe
      <4>4. \A u \in TrayTasks \ {t} : drawing'[u].overtaken = drawing[u].overtaken
        BY <2>3
      <4>5. old \subseteq old' /\ trayFailures' \in Nat /\ trayFailures' >= trayFailures
        BY <1>3, <1>4 DEF TrayTypes
      <4> QED BY <1>1, <1>2, <1>3, <2>3, <4>1, <4>2, <4>3, <4>4, <4>5, SurfaceWaits
    <3> QED BY <3>1, <3>2
  <2> QED BY <2>3, <2>4, <2>5, <2>6 DEF TrayInvariant
<1>5. CASE /\ MoreHappens /\ trayFailures' = trayFailures + 1 /\ old' = old \cup {"menu"}
           /\ drawing' = Overtake("menu", drawing)
  <2>1. \A u \in TrayTasks :
          /\ Alike(drawing[u], drawing'[u]) /\ drawing'[u].does = drawing[u].does
          /\ drawing'[u].overtaken = (drawing[u].overtaken \/ (drawing[u].at \in {"fetch", "set"} /\ Surface(u) = "menu"))
    BY <1>3, <1>5, Overtakes
  <2>2. TasksFit'
    <3>1. Records(drawing') /\ \A u \in TrayTasks : drawing'[u].overtaken \in BOOLEAN
      BY <1>2, <1>5 DEF Based
    <3>2. TaskFits(t)'
      BY <1>2, <1>3, <2>1, <3>1, TaskStays
    <3>3. t # Spawned
      BY DEF TrayBounds
    <3> QED BY <1>2, <2>1, <3>1, <3>2, <3>3, TasksGoOn
  <2>3. ~Flying(t)'
    BY <1>2, <1>3, <2>1 DEF Flying, Alike
  <2>4. old' \subseteq Surfaces /\ trayFailures' \in Nat /\ trayFailures' >= trayFailures /\ old \subseteq old'
    BY <1>3, <1>5 DEF TrayTypes, TrayTypeOK, Surfaces
  <2>5. TrayTypes' /\ \A g \in Facts \ {"mode"} : Latest'[g] = Latest[g]
    BY <1>1, <1>3, <2>2, <2>4, FactKeeps DEF TrayTypes, Facts
  <2>6. SyncFits'
    <3>1. \A u \in TrayTasks : (Patching(u)' <=> Patching(u)) /\ (Syncing(u)' <=> Syncing(u))
      BY <2>1 DEF Patching, Syncing, Does, DrawingAt, Alike
    <3> QED BY <1>1, <1>3, <3>1, SyncOn
  <2>7. ASSUME NEW s \in Surfaces PROVE SurfaceFits(s)'
    <3>1. CASE s = "menu"
      BY <1>2, <1>5, <2>3, <3>1, OvertakenMiss
    <3>2. CASE s # "menu"
      <4>1. \A g \in Shows(s) : Latest'[g] = Latest[g]
        BY <2>5, <3>2, ShowsAre DEF Facts
      <4>2. Due(s) => Due(s)'
        BY <1>1, <1>2, <1>3, <2>1, OthersServe
      <4>3. \A u \in TrayTasks \ {t} : Flying(u) /\ Surface(u) = s => drawing'[u].overtaken = drawing[u].overtaken
        BY <1>3, <2>1, <3>2
      <4> QED BY <1>1, <1>2, <1>3, <2>1, <2>3, <2>4, <4>1, <4>2, <4>3, SurfaceWaits
    <3> QED BY <3>1, <3>2
  <2> QED BY <2>2, <2>5, <2>6, <2>7 DEF TrayInvariant
<1> QED BY <1>4, <1>5 DEF change_clash_mode, StartsUpdate, Follow, Misses

LEMMA StageShownKeeps ==
    ASSUME TrayBounds, TrayInvariant, NEW t \in Callers, StageShown(t) PROVE TrayInvariant'
<1> DEFINE x == Drawing("next", "patch", <<"menu", "icon", "tooltip">>)
<1>1. /\ DrawingAt(t, "idle") /\ ~stagedFacts /\ stagedFacts' = TRUE /\ MoreHappens /\ trayChanges' = trayChanges + 1
      /\ drawing' = [drawing EXCEPT ![t] = x]
      /\ UNCHANGED <<facts, shown, old, syncRunning, syncPending, trayFailures>>
  BY DEF StageShown, StartsUpdate, sync
<1>2. t \in TrayTasks /\ Based(drawing)
  BY Bases DEF TrayTasks
<1>3. Proper(x) /\ x.at = "next" /\ x.does = "patch" /\ x.todo = <<"menu", "icon", "tooltip">>
  BY DEF Proper, Drawing, Task, TodosOf, Todos, NoTask
<1> HIDE DEF x
<1>4. /\ TasksFit' /\ ~Flying(t)' /\ drawing'[t].at = "next" /\ drawing'[t].does = "patch"
      /\ drawing'[t].todo = <<"menu", "icon", "tooltip">>
      /\ \A u \in TrayTasks \ {t} : drawing'[u] = drawing[u]
  <2>1. Moves(t, drawing, x)
    BY <1>1, <1>2, <1>3 DEF Moves
  <2> QED BY <1>3, <2>1, TaskMoves
<1>5. TaskFits(t) /\ TrayTypes /\ SyncFits /\ Does(t, NoTask)
  BY <1>1, <1>2, TrayKnown DEF TrayInvariant, TaskFits
<1>6. TrayTypes'
  <2>1. /\ facts \in [Facts -> 0..MaxTrayEvents] /\ trayChanges \in Nat /\ trayFailures \in Nat /\ MaxTrayEvents \in Nat
        /\ trayChanges + 1 <= MaxTrayEvents
    BY <1>1, <1>5 DEF TrayTypes, TrayTypeOK, MoreHappens, TrayBounds
  <2>2. \A f \in Facts : Latest[f] = facts[f] /\ Latest[f] <= trayChanges /\ facts[f] \in Nat
    BY <1>1, <1>5, <2>1 DEF Latest, TrayTypes
  <2>3. \A f \in Facts : Latest'[f] = facts[f] \/ Latest'[f] = facts[f] + 1
    BY <1>1, <2>1 DEF Latest
  <2>4. \A f \in Facts : Latest'[f] <= trayChanges' /\ Latest'[f] <= MaxTrayEvents
    BY <1>1, <2>1, <2>2, <2>3
  <2> QED BY <1>1, <1>4, <1>5, <2>1, <2>4, TypesOn DEF TrayTypes, TrayTypeOK
<1>7. SyncFits'
  <2>1. \A u \in TrayTasks \ {t} : (Patching(u)' <=> Patching(u)) /\ (Syncing(u)' <=> Syncing(u))
    BY <1>4 DEF Patching, Syncing, Does, DrawingAt
  <2>2. ~Syncing(t) /\ ~Syncing(t)' /\ Patching(t)'
    BY <1>4, <1>5 DEF Patching, Syncing, Does, NoTask
  <2> QED BY <1>1, <1>2, <1>5, <2>1, <2>2 DEF SyncFits
<1>8. ASSUME NEW s \in Surfaces PROVE SurfaceFits(s)'
  BY <1>2, <1>4, ListNames, TaskWillServe, SurfaceIsDue
<1> QED BY <1>4, <1>6, <1>7, <1>8 DEF TrayInvariant

LEMMA EndTrayPatchKeeps ==
    ASSUME TrayBounds, TrayInvariant, NEW t \in Callers, EndTrayPatch(t) PROVE TrayInvariant'
<1>1. /\ drawing[t].does = "patch" /\ drawing[t].at = "next" /\ drawing[t].todo = <<>>
      /\ stagedFacts' = FALSE /\ facts' = Latest /\ drawing' = [drawing EXCEPT ![t] = IdleDrawing]
      /\ UNCHANGED <<shown, old, syncRunning, syncPending, trayChanges, trayFailures>>
  BY DEF EndTrayPatch, sync, trayCounts, Does, DrawingAt
<1>2. t \in TrayTasks /\ Based(drawing) /\ TaskFits(t) /\ TrayTypes /\ SyncFits
  BY Bases, TrayKnown DEF TrayTasks, TrayInvariant
<1>3. /\ TasksFit' /\ ~Flying(t)' /\ drawing'[t].does = NoTask
      /\ \A u \in TrayTasks \ {t} : drawing'[u] = drawing[u]
  <2>1. Moves(t, drawing, IdleDrawing)
    BY <1>1, <1>2, IdleIsProper DEF Moves
  <2> QED BY <2>1, IdleIsProper, TaskMoves
<1>4. Latest' = Latest
  BY <1>1 DEF Latest
<1>5. TrayTypes'
  <2>1. facts \in [Facts -> 0..MaxTrayEvents] /\ "settings" \in Facts /\ trayChanges \in Nat /\ MaxTrayEvents \in Nat
    BY <1>2 DEF TrayTypes, TrayTypeOK, Facts, TrayBounds
  <2>2. \A f \in Facts : Latest[f] \in Nat /\ Latest[f] <= MaxTrayEvents
    <3>1. \A f \in Facts : Latest[f] = facts[f] \/ Latest[f] = facts[f] + 1
      BY <2>1 DEF Latest
    <3> QED BY <1>2, <2>1, <3>1 DEF TrayTypes
  <2>3. Latest = [f \in Facts |-> Latest[f]]
    BY <2>1 DEF Latest
  <2>4. facts' \in [Facts -> 0..MaxTrayEvents]
    BY <1>1, <2>1, <2>2, <2>3
  <2> QED BY <1>1, <1>2, <1>3, <1>4, <2>4, TypesOn DEF TrayTypes, TrayTypeOK
<1>6. SyncFits'
  <2>1. \A u \in TrayTasks \ {t} : (Patching(u)' <=> Patching(u)) /\ (Syncing(u)' <=> Syncing(u))
    BY <1>3 DEF Patching, Syncing, Does, DrawingAt
  <2>2. ~Syncing(t) /\ ~Syncing(t)' /\ Patching(t) /\ ~Patching(t)'
    BY <1>1, <1>3 DEF Patching, Syncing, Does, NoTask
  <2> QED BY <1>1, <1>2, <2>1, <2>2 DEF SyncFits
<1>7. ASSUME NEW s \in Surfaces PROVE SurfaceFits(s)'
  <2>1. ~Flying(t) /\ ~Serves(t, s)
    BY <1>1, ListNames DEF Serves, Left, Flying, Does, DrawingAt
  <2>2. \A u \in TrayTasks \ {t} : Alike(drawing[u], drawing'[u]) /\ drawing'[u].does = drawing[u].does
    BY <1>3 DEF Alike
  <2>3. Due(s) => Due(s)'
    BY <1>1, <1>2, <2>1, <2>2, OthersServe
  <2>4. \A u \in TrayTasks \ {t} : drawing'[u].overtaken = drawing[u].overtaken
    BY <1>3
  <2>5. trayFailures' \in Nat /\ trayFailures' >= trayFailures
    BY <1>1, <1>2 DEF TrayTypes
  <2> QED BY <1>1, <1>2, <1>3, <1>4, <2>1, <2>2, <2>3, <2>4, <2>5, SurfaceWaits
<1> QED BY <1>3, <1>5, <1>6, <1>7 DEF TrayInvariant

LEMMA RollBackKeeps ==
    ASSUME TrayBounds, TrayInvariant, NEW t \in Callers, RollBack(t) PROVE TrayInvariant'
<1>1. /\ drawing[t].does = "patch" /\ drawing[t].at = "next" /\ MoreHappens /\ trayFailures' = trayFailures + 1
      /\ stagedFacts' = FALSE /\ old' = old \cup Surfaces
      /\ drawing' = [u \in TrayTasks |-> IF u = t THEN IdleDrawing ELSE [drawing[u] EXCEPT !.overtaken = TRUE]]
      /\ UNCHANGED <<facts, shown, syncRunning, syncPending, trayChanges>>
  BY DEF RollBack, sync, Does, DrawingAt, Misses
<1>2. t \in TrayTasks /\ t # Spawned /\ TaskFits(t) /\ TrayTypes /\ SyncFits /\ Records(drawing)
  BY TrayKnown DEF TrayTasks, TrayInvariant, TrayBounds
<1>3. drawing'[t] = IdleDrawing /\ \A u \in TrayTasks \ {t} : drawing'[u] = [drawing[u] EXCEPT !.overtaken = TRUE]
  BY <1>1, <1>2
<1>4. \A u \in TrayTasks \ {t} :
         /\ Task(drawing'[u]) /\ Alike(drawing[u], drawing'[u]) /\ drawing'[u].does = drawing[u].does
         /\ drawing'[u].overtaken = TRUE
  <2>1. ASSUME NEW u \in TrayTasks \ {t}
        PROVE  /\ Task(drawing'[u]) /\ Alike(drawing[u], drawing'[u]) /\ drawing'[u].does = drawing[u].does
               /\ drawing'[u].overtaken = TRUE
    <3>1. Task(drawing[u]) /\ drawing'[u] = [drawing[u] EXCEPT !.overtaken = TRUE]
      BY <1>2, <1>3, RecordsTasks
    <3> QED BY <3>1 DEF Task, Alike
  <2> QED BY <2>1
<1>5. TasksFit'
  <2>1. drawing' = [u \in TrayTasks |-> drawing'[u]]
    BY <1>1
  <2>2. \A u \in TrayTasks : Task(drawing'[u])
    BY <1>3, <1>4, IdleIsProper DEF Proper
  <2>3. Records(drawing')
    <3>1. \A u \in TrayTasks : drawing'[u] = [at |-> drawing'[u].at, does |-> drawing'[u].does, todo |-> drawing'[u].todo,
                                              saw |-> drawing'[u].saw, overtaken |-> drawing'[u].overtaken]
      BY <2>2 DEF Task
    <3> QED BY <2>1, <3>1 DEF Records
  <2>4. TaskFits(t)'
    BY <1>3, IdleIsProper DEF Proper, TaskFits, Flying, DrawingAt, Does
  <2> QED BY <1>2, <1>4, <2>3, <2>4, TasksGoOn
<1>6. TrayTypes'
  <2>1. \A f \in Facts : facts[f] <= trayChanges /\ facts[f] <= MaxTrayEvents /\ Latest'[f] = facts[f]
    <3>1. facts \in [Facts -> 0..MaxTrayEvents] /\ trayChanges \in Nat
      BY <1>2 DEF TrayTypes, TrayTypeOK
    <3>2. \A f \in Facts : (Latest[f] = facts[f] \/ Latest[f] = facts[f] + 1) /\ Latest[f] <= trayChanges
      BY <1>2, <3>1 DEF Latest, TrayTypes
    <3>3. Latest' = facts
      BY <1>1 DEF Latest
    <3>4. \A f \in Facts : facts[f] \in 0..MaxTrayEvents
      BY <3>1
    <3> QED BY <3>1, <3>2, <3>3, <3>4 DEF TrayBounds
  <2>2. old' \subseteq Surfaces
    BY <1>1, <1>2 DEF TrayTypes, TrayTypeOK
  <2>3. \A f \in Facts : Latest'[f] <= trayChanges' /\ Latest'[f] <= MaxTrayEvents
    BY <1>1, <2>1
  <2>4. /\ shown' = shown /\ syncRunning' \in BOOLEAN /\ syncPending' \in BOOLEAN /\ stagedFacts' \in BOOLEAN
        /\ facts' \in [Facts -> 0..MaxTrayEvents] /\ trayChanges' \in Nat
    BY <1>1, <1>2 DEF TrayTypes, TrayTypeOK
  <2>5. trayFailures' \in Nat
    BY <1>1, <1>2 DEF TrayTypes
  <2> QED BY <1>2, <1>5, <2>2, <2>3, <2>4, <2>5, TypesOn
<1>7. SyncFits'
  <2>1. \A u \in TrayTasks \ {t} : (Patching(u)' <=> Patching(u)) /\ (Syncing(u)' <=> Syncing(u))
    BY <1>4 DEF Patching, Syncing, Does, DrawingAt, Alike
  <2>2. ~Syncing(t) /\ ~Syncing(t)' /\ Patching(t) /\ ~Patching(t)'
    BY <1>1, <1>3, IdleIsProper DEF Patching, Syncing, Does, NoTask
  <2> QED BY <1>1, <1>2, <2>1, <2>2 DEF SyncFits
<1>8. ASSUME NEW s \in Surfaces PROVE SurfaceFits(s)'
  <2>1. \A u \in TrayTasks : ~Counts(u, s)'
    BY <1>3, <1>4, IdleIsProper DEF Counts, Flying
  <2> QED BY <1>1, <2>1, SurfaceIsMissed
<1> QED BY <1>5, <1>6, <1>7, <1>8 DEF TrayInvariant

LEMMA SyncPassKeeps ==
    ASSUME TrayBounds, TrayInvariant, NEW t \in Callers, SyncPass(t) PROVE TrayInvariant'
<1> DEFINE place == IF syncPending THEN "next" ELSE "stopping"
           todo  == IF syncPending THEN <<"menu">> ELSE <<>>
           x     == Drawing(place, "sync", todo)
<1>1. /\ drawing[t].does = "sync" /\ drawing[t].at = "next" /\ drawing[t].todo = <<>> /\ syncPending' = FALSE
      /\ drawing' = [drawing EXCEPT ![t] = x]
      /\ UNCHANGED <<facts, stagedFacts, shown, old, syncRunning, trayChanges, trayFailures>>
  BY DEF SyncPass, Again, StartsUpdate, trayCounts, Does, DrawingAt
<1>2. t \in TrayTasks /\ Based(drawing) /\ TrayTypes /\ SyncFits
  BY Bases DEF TrayTasks, TrayInvariant
<1>3. Proper(x) /\ x.at = place /\ x.does = "sync" /\ x.todo = todo
  BY DEF Proper, Drawing, Task, TodosOf, NoTask
<1> HIDE DEF x
<1>4. /\ TasksFit' /\ ~Flying(t)' /\ drawing'[t].at = place /\ drawing'[t].does = "sync" /\ drawing'[t].todo = todo
      /\ \A u \in TrayTasks \ {t} : drawing'[u] = drawing[u]
  <2>1. Moves(t, drawing, x)
    BY <1>1, <1>2, <1>3 DEF Moves
  <2> HIDE DEF place, todo
  <2> QED BY <1>3, <2>1, TaskMoves
<1>5. TrayTypes'
  BY <1>1, <1>2, <1>4, NothingChanges DEF TrayTypes, TrayTypeOK
<1>6. SyncFits'
  <2>1. \A u \in TrayTasks : (Patching(u)' <=> Patching(u)) /\ (Syncing(u)' <=> Syncing(u))
    BY <1>1, <1>4 DEF Patching, Syncing, Does, DrawingAt
  <2> QED BY <1>1, <1>2, <2>1, SyncOn
<1>7. ASSUME NEW s \in Surfaces PROVE SurfaceFits(s)'
  <2>1. CASE s = "menu" /\ syncPending
    <3>1. drawing'[t].at = "next" /\ drawing'[t].todo = <<"menu">>
      BY <1>4, <2>1
    <3> QED BY <1>2, <1>4, <2>1, <3>1, ListNames, TaskWillServe, SurfaceIsDue
  <2>2. CASE ~(s = "menu" /\ syncPending)
    <3>1. ~Flying(t) /\ ~Serves(t, s)
      BY <1>1, <2>2, ListNames DEF Serves, Left, Flying, Does, DrawingAt
    <3>2. trayFailures' \in Nat /\ trayFailures' >= trayFailures /\ old \subseteq old'
      BY <1>1, <1>2 DEF TrayTypes
    <3> QED BY <1>1, <1>2, <1>4, <2>2, <3>1, <3>2, SurfaceAside
  <2> QED BY <2>1, <2>2
<1> QED BY <1>4, <1>5, <1>6, <1>7 DEF TrayInvariant

LEMMA StoppingKeeps ==
    ASSUME TrayBounds, TrayInvariant, NEW t \in Callers, Stopping(t) PROVE TrayInvariant'
<1> DEFINE x == Drawing("stopped", "sync", <<>>)
<1>1. /\ drawing[t].at = "stopping" /\ syncRunning' = FALSE
      /\ drawing' = [drawing EXCEPT ![t] = x]
      /\ UNCHANGED <<facts, stagedFacts, shown, old, syncPending, trayChanges, trayFailures>>
  BY DEF Stopping, trayCounts, DrawingAt
<1>2. t \in TrayTasks /\ Based(drawing) /\ TrayTypes /\ SyncFits /\ TaskFits(t)
  BY Bases, TrayKnown DEF TrayTasks, TrayInvariant
<1>3. Proper(x) /\ x.at = "stopped" /\ x.does = "sync" /\ x.todo = <<>>
  BY DEF Proper, Drawing, Task, TodosOf, NoTask
<1>4. drawing[t].does = "sync" /\ drawing[t].todo = <<>>
  BY <1>1, <1>2 DEF TaskFits, Does, DrawingAt
<1> HIDE DEF x
<1>5. /\ TasksFit' /\ ~Flying(t)' /\ drawing'[t].at = "stopped" /\ drawing'[t].does = "sync" /\ drawing'[t].todo = <<>>
      /\ \A u \in TrayTasks \ {t} : drawing'[u] = drawing[u]
  <2>1. Moves(t, drawing, x)
    BY <1>1, <1>2, <1>3 DEF Moves
  <2> QED BY <1>3, <2>1, TaskMoves
<1>6. TrayTypes'
  BY <1>1, <1>2, <1>5, NothingChanges DEF TrayTypes, TrayTypeOK
<1>7. SyncFits'
  <2>1. \A u \in TrayTasks : Patching(u)' <=> Patching(u)
    BY <1>4, <1>5 DEF Patching, Does
  <2>2. Syncing(t) /\ ~Syncing(t)' /\ \A u \in TrayTasks \ {t} : Syncing(u)' <=> Syncing(u)
    BY <1>1, <1>4, <1>5 DEF Syncing, Does, DrawingAt
  <2> QED BY <1>1, <1>2, <2>1, <2>2 DEF SyncFits
<1>8. ASSUME NEW s \in Surfaces PROVE SurfaceFits(s)'
  <2>1. ~Flying(t) /\ (Serves(t, s) => Serves(t, s)')
    BY <1>1, <1>4, <1>5, ListNames DEF Serves, Left, Flying, Does, DrawingAt
  <2>2. Serves(t, s) => Due(s)'
    BY <1>2, <2>1 DEF Due
  <2>3. trayFailures' \in Nat /\ trayFailures' >= trayFailures /\ old \subseteq old'
    BY <1>1, <1>2 DEF TrayTypes
  <2> QED BY <1>1, <1>2, <1>5, <2>1, <2>2, <2>3, SurfaceAside
<1> QED BY <1>5, <1>6, <1>7, <1>8 DEF TrayInvariant

LEMMA SecondLookKeeps ==
    ASSUME TrayBounds, TrayInvariant, NEW t \in Callers, SecondLook(t) PROVE TrayInvariant'
<1>1. /\ drawing[t].at = "stopped" /\ syncPending' = FALSE
      /\ UNCHANGED <<facts, stagedFacts, shown, trayChanges, trayFailures>>
  BY DEF SecondLook, DrawingAt, trayCounts
<1>2. /\ t \in TrayTasks /\ Based(drawing) /\ Based(Overtake("menu", drawing)) /\ TrayTypes /\ SyncFits /\ TaskFits(t)
      /\ Records(drawing) /\ \A u \in TrayTasks : drawing[u].overtaken \in BOOLEAN
  BY Bases, TrayKnown DEF TrayTasks, TrayInvariant
<1>3. drawing[t].does = "sync" /\ drawing[t].todo = <<>> /\ ~Flying(t) /\ ~Syncing(t)
  BY <1>1, <1>2 DEF TaskFits, Does, DrawingAt, Flying, Syncing
<1>4. trayFailures' \in Nat /\ trayFailures' >= trayFailures
  BY <1>1, <1>2 DEF TrayTypes
<1>5. \A s : ~(s = "menu" /\ syncPending) => ~Serves(t, s)
  BY <1>1, <1>3, ListNames DEF Serves, Left, Flying, Does, DrawingAt
<1>6. CASE syncPending /\ ~syncRunning /\ syncRunning' = TRUE /\ Again(t) /\ UNCHANGED old
  <2> DEFINE x == Drawing("next", "sync", <<"menu">>)
  <2>1. Proper(x) /\ x.at = "next" /\ x.does = "sync" /\ x.todo = <<"menu">>
    BY DEF Proper, Drawing, Task, TodosOf, NoTask
  <2>2. Moves(t, drawing, x)
    BY <1>2, <1>6, <2>1 DEF Moves, Again, StartsUpdate
  <2> HIDE DEF x
  <2>3. /\ TasksFit' /\ ~Flying(t)' /\ drawing'[t].at = "next" /\ drawing'[t].does = "sync" /\ drawing'[t].todo = <<"menu">>
        /\ \A u \in TrayTasks \ {t} : drawing'[u] = drawing[u]
    BY <2>1, <2>2, TaskMoves
  <2>4. TrayTypes'
    BY <1>1, <1>2, <1>6, <2>3, NothingChanges DEF TrayTypes, TrayTypeOK
  <2>5. SyncFits'
    <3>1. \A u \in TrayTasks : Patching(u)' <=> Patching(u)
      BY <1>3, <2>3 DEF Patching, Does
    <3>2. Syncing(t)' /\ \A u \in TrayTasks \ {t} : Syncing(u)' <=> Syncing(u)
      BY <2>3 DEF Syncing, Does, DrawingAt
    <3> QED BY <1>1, <1>2, <1>6, <3>1, <3>2 DEF SyncFits
  <2>6. ASSUME NEW s \in Surfaces PROVE SurfaceFits(s)'
    <3>1. CASE s = "menu"
      BY <1>2, <2>3, <3>1, ListNames, TaskWillServe, SurfaceIsDue
    <3>2. CASE s # "menu"
      BY <1>1, <1>2, <1>3, <1>4, <1>5, <1>6, <2>3, <3>2, SurfaceAside
    <3> QED BY <3>1, <3>2
  <2> QED BY <2>3, <2>4, <2>5, <2>6 DEF TrayInvariant
<1>7. CASE \/ /\ syncPending /\ old' = old \cup {"menu"} /\ UNCHANGED syncRunning
              /\ drawing' = [Overtake("menu", drawing) EXCEPT ![t] = IdleDrawing]
           \/ /\ ~syncPending /\ UNCHANGED <<old, syncRunning>>
              /\ drawing' = [drawing EXCEPT ![t] = IdleDrawing]
  <2> DEFINE d == IF syncPending THEN Overtake("menu", drawing) ELSE drawing
  <2>1. /\ (syncPending => d = Overtake("menu", drawing)) /\ (~syncPending => d = drawing) /\ Based(d)
        /\ drawing' = [d EXCEPT ![t] = IdleDrawing]
    BY <1>2, <1>7
  <2> HIDE DEF d
  <2>2. /\ TasksFit' /\ ~Flying(t)' /\ drawing'[t].at = "idle" /\ drawing'[t].does = NoTask
        /\ \A u \in TrayTasks \ {t} : drawing'[u] = d[u]
    <3>1. Moves(t, d, IdleDrawing)
      BY <2>1, IdleIsProper DEF Moves
    <3> QED BY <3>1, IdleIsProper, TaskMoves
  <2>3. \A u \in TrayTasks \ {t} : Alike(drawing[u], drawing'[u]) /\ drawing'[u].does = drawing[u].does
    BY <1>2, <2>1, <2>2, Overtakes DEF Alike
  <2>4. old' \subseteq Surfaces /\ old \subseteq old' /\ syncRunning' = syncRunning
    BY <1>2, <1>7 DEF TrayTypes, TrayTypeOK, Surfaces
  <2>5. TrayTypes'
    BY <1>1, <1>2, <2>2, <2>4, NothingChanges DEF TrayTypes
  <2>6. SyncFits'
    <3>1. \A u \in TrayTasks : (Patching(u)' <=> Patching(u)) /\ (Syncing(u)' <=> Syncing(u))
      BY <1>3, <2>2, <2>3 DEF Patching, Syncing, Does, DrawingAt, NoTask, Alike
    <3> QED BY <1>1, <1>2, <2>4, <3>1, SyncOn
  <2>7. ASSUME NEW s \in Surfaces PROVE SurfaceFits(s)'
    <3>1. CASE s = "menu" /\ syncPending
      BY <1>2, <1>7, <2>1, <2>2, <3>1, OvertakenMiss
    <3>2. CASE ~(s = "menu" /\ syncPending)
      <4>1. d = drawing \/ \E other \in Surfaces \ {s} : d = Overtake(other, drawing)
        BY <2>1, <3>2, <1>2 DEF Surfaces, TrayTypes
      <4> QED BY <1>1, <1>2, <1>3, <1>4, <1>5, <2>2, <2>4, <3>2, <4>1, SurfaceAside
    <3> QED BY <3>1, <3>2
  <2> QED BY <2>2, <2>5, <2>6, <2>7 DEF TrayInvariant
<1> QED BY <1>6, <1>7 DEF SecondLook, Misses

-----------------------------------------------------------------------------
(* The tray: the theorems *)

LEMMA TrayBegins ==
    ASSUME TrayBounds, TrayInit PROVE TrayInvariant
<1>1. PICK first \in Callers \cup {NoTask} :
          /\ old = IF first = NoTask THEN {} ELSE Surfaces
          /\ trayChanges = IF first = NoTask THEN 0 ELSE 1
          /\ drawing = [t \in TrayTasks |-> IF t = first THEN Drawing("next", NoTask, <<"bare", "icon", "tooltip">>)
                                            ELSE IdleDrawing]
  BY DEF TrayInit
<1>2. /\ facts = [f \in Facts |-> 0] /\ stagedFacts = FALSE
      /\ shown = [s \in Surfaces |-> [f \in Shows(s) |-> 0]]
      /\ syncRunning = FALSE /\ syncPending = FALSE /\ trayFailures = 0
  BY DEF TrayInit
<1> DEFINE x == Drawing("next", NoTask, <<"bare", "icon", "tooltip">>)
<1>3. Proper(x) /\ x.at = "next" /\ x.does = NoTask /\ x.todo = <<"bare", "icon", "tooltip">>
  BY DEF Proper, Drawing, Task, TodosOf, Todos, NoTask
<1> HIDE DEF x
<1>4. \A t \in TrayTasks : drawing[t] = IF t = first THEN x ELSE IdleDrawing
  BY <1>1 DEF x
<1>5. \A t \in TrayTasks : Proper(drawing[t]) /\ drawing[t].does = NoTask /\ drawing[t].at \in {"idle", "next"}
  BY <1>3, <1>4, IdleIsProper
<1>6. TasksFit
  <2>1. drawing = [t \in TrayTasks |-> drawing[t]]
    BY <1>1
  <2>2. Records(drawing)
    <3>1. \A t \in TrayTasks : drawing[t] = [at |-> drawing[t].at, does |-> drawing[t].does, todo |-> drawing[t].todo,
                                             saw |-> drawing[t].saw, overtaken |-> drawing[t].overtaken]
      BY <1>5 DEF Proper, Task
    <3> QED BY <2>1, <3>1 DEF Records
  <2>3. \A t \in TrayTasks : TaskFits(t)
    BY <1>5 DEF TaskFits, Proper, Flying, DrawingAt, Does, NoTask
  <2>4. drawing[Spawned] = IdleDrawing
    BY <1>4 DEF TrayTasks, TrayBounds, Spawned, NoTask
  <2> QED BY <2>2, <2>3, <2>4, IdleIsProper DEF TasksFit, Records, Does
<1>7. SyncFits
  BY <1>2, <1>5 DEF SyncFits, Patching, Syncing, Does, NoTask
<1>8. Latest = facts /\ \A f \in Facts : Latest[f] = 0
  BY <1>2 DEF Latest
<1>9. TrayTypes
  <2>1. old \subseteq Surfaces /\ trayChanges \in Nat
    BY <1>1
  <2>2. facts \in [Facts -> 0..MaxTrayEvents] /\ \A s \in Surfaces : shown[s] \in [Shows(s) -> -1..MaxTrayEvents]
    BY <1>2 DEF TrayBounds
  <2>3. \A t \in TrayTasks : drawing[t].at \in {"idle", "next", "fetch", "set", "pend", "stopping", "stopped"}
    BY <1>5
  <2>4. TrayTypeOK
    BY <1>2, <2>1, <2>2, <2>3 DEF TrayTypeOK, DrawingAt
  <2>5. \A f \in Facts : Latest[f] <= trayChanges /\ Latest[f] <= MaxTrayEvents
    BY <1>8, <2>1 DEF TrayBounds
  <2> QED BY <1>2, <2>1, <2>4, <2>5 DEF TrayTypes
<1>10. ASSUME NEW s \in Surfaces PROVE SurfaceFits(s)
  <2>1. Says(s, shown[s])
    BY <1>2, <1>8, ShowsAre DEF Says
  <2>2. \A t \in TrayTasks : ~Counts(t, s)
    BY <1>5 DEF Counts, Flying
  <2> QED BY <2>1, <2>2 DEF SurfaceFits
<1> QED BY <1>6, <1>7, <1>9, <1>10 DEF TrayInvariant

LEMMA TrayStutters ==
    ASSUME TrayInvariant, UNCHANGED trayVars PROVE TrayInvariant'
<1>1. UNCHANGED <<facts, stagedFacts, shown, old, drawing, syncRunning, syncPending, trayChanges, trayFailures>>
  BY DEF trayVars, sync, trayCounts
<1>2. TrayTypes'
  BY <1>1 DEF TrayInvariant, TrayTypes, TrayTypeOK, Latest, DrawingAt
<1>3. TasksFit'
  BY <1>1 DEF TrayInvariant, TasksFit, TaskFits, DrawingAt, Does, Flying, Surface
<1>4. SyncFits'
  BY <1>1 DEF TrayInvariant, SyncFits, Patching, Syncing, Does, DrawingAt
<1>5. ASSUME NEW s \in Surfaces PROVE SurfaceFits(s)'
  <2>1. Due(s) => Due(s)'
    BY <1>1 DEF Due, Serves, Left, Dropped, Flying, Patching, Does, DrawingAt
  <2>2. \A view : Says(s, view) => Says(s, view)'
    BY <1>1 DEF Says, Latest
  <2>3. \A u \in TrayTasks : (Counts(u, s)' <=> Counts(u, s)) /\ drawing'[u].saw = drawing[u].saw
    BY <1>1 DEF Counts, Flying, Surface
  <2> QED BY <1>1, <2>1, <2>2, <2>3, SurfaceGoesOn DEF TrayInvariant
<1> QED BY <1>2, <1>3, <1>4, <1>5 DEF TrayInvariant

\* For any callers and limit of events: an update works through a list that goes with its purpose, one
\* patch is staged and one loop runs, each known to its flag, and a surface that does not say what is the
\* case is missed, due, or about to be replaced by an update that nothing has overtaken.
THEOREM TrayIsOrderly == TrayBounds => (TraySpec => []TrayInvariant)
<1> SUFFICES ASSUME TrayBounds PROVE TraySpec => []TrayInvariant
  OBVIOUS
<1>1. TrayInit => TrayInvariant
  BY TrayBegins
<1>2. TrayInvariant /\ [TrayNext]_trayVars => TrayInvariant'
  <2> SUFFICES ASSUME TrayInvariant, [TrayNext]_trayVars PROVE TrayInvariant'
    OBVIOUS
  <2>1. CASE \E t \in TrayTasks : Read(t) \/ Fetch(t) \/ Set(t)
    BY <2>1, ReadKeeps, FetchKeeps, SetKeeps
  <2>2. ASSUME NEW t \in Callers,
               \/ ChangeApp(t) \/ change_clash_mode(t) \/ Switch(t) \/ DropUpdate(t) \/ Pick(t)
               \/ StageShown(t) \/ EndTrayPatch(t) \/ RollBack(t)
               \/ AskSync(t) \/ Pend(t) \/ SyncPass(t) \/ Stopping(t) \/ SecondLook(t)
        PROVE  TrayInvariant'
    BY <2>2, ChangeAppKeeps, ChangeModeKeeps, SwitchKeeps, DropUpdateKeeps, PickKeeps, StageShownKeeps, EndTrayPatchKeeps,
       RollBackKeeps, AskSyncKeeps, PendKeeps, SyncPassKeeps, StoppingKeeps, SecondLookKeeps
  <2>3. CASE UNCHANGED trayVars
    BY <2>3, TrayStutters
  <2> QED BY <2>1, <2>2, <2>3 DEF TrayNext
<1> QED BY <1>1, <1>2, PTL DEF TraySpec

LEMMA TrayShows ==
    ASSUME TrayBounds, TrayInvariant PROVE TrayFollows
<1>1. SaysWhatIs
  <2> SUFFICES ASSUME TrayQuiet, NEW s \in Surfaces \ old, NEW f \in Facts, f \in Shows(s)
               PROVE  shown[s][f] = facts[f] \/ (f = "node" /\ shown[s][f] = -1 /\ trayFailures > 0)
    BY DEF SaysWhatIs
  <2>1. \A t \in TrayTasks : drawing[t].at = "idle" /\ drawing[t].does = NoTask /\ ~Flying(t) /\ ~Serves(t, s)
    BY IdleServesNone DEF TrayQuiet, TrayInvariant, TasksFit, TaskFits, DrawingAt, Does
  <2>2. ~stagedFacts
    BY <2>1 DEF TrayInvariant, SyncFits, Patching, Does, NoTask
  <2>3. Says(s, shown[s])
    BY <2>1 DEF TrayInvariant, SurfaceFits, Due, Counts
  <2> QED BY <2>2, <2>3 DEF Says, Latest
<1>2. OneSync
  <2> DEFINE loops == {t \in TrayTasks : Does(t, "sync") /\ ~DrawingAt(t, "stopped")}
  <2>1. CASE syncRunning
    <3>1. PICK t \in TrayTasks : Syncing(t)
      BY <2>1 DEF TrayInvariant, SyncFits
    <3>2. loops = {t}
      BY <3>1 DEF TrayInvariant, SyncFits, Syncing
    <3> QED BY <2>1, <3>2, FS_Singleton DEF OneSync
  <2>2. CASE ~syncRunning
    <3>1. loops = {}
      BY <2>2 DEF TrayInvariant, SyncFits, Syncing
    <3> QED BY <2>2, <3>1, FS_EmptySet DEF OneSync
  <2> QED BY <2>1, <2>2
<1> QED BY <1>1, <1>2 DEF TrayFollows, TrayInvariant, TrayTypes

\* At rest the menu, the icon and the tooltip say what is the case, but for those an update is missed
\* for (create_tray_menu, get_tray_icon, update_tooltip), and one loop at most serves the requests of the
\* window (sync_tray_proxy_selection).
THEOREM TrayAlwaysFollows == TrayBounds => (TraySpec => []TrayFollows)
<1> SUFFICES ASSUME TrayBounds PROVE TraySpec => []TrayFollows
  OBVIOUS
<1>1. TraySpec => []TrayInvariant
  BY TrayIsOrderly
<1>2. TrayInvariant => TrayFollows
  BY TrayShows
<1> QED BY <1>1, <1>2, PTL

-----------------------------------------------------------------------------
(* The latency monitor: the inductive invariant *)

MonitorSpec == MonitorInit /\ [][MonitorNext]_monitorVars

\* The monitor has loaded settings that were on, and goes by them.
GoesBy == {"loaded", "light", "scan", "measure", "wait"}

MonitorTypes ==
    /\ MonitorTypeOK
    /\ wake \in BOOLEAN /\ light \in BOOLEAN /\ torn \in BOOLEAN /\ pending \in Nat /\ running \in Profiles
    /\ saw \subseteq {"patch", "switch"}

\* The core runs the current profile, or the one a switch has staged, which is another.
SwitchKnown ==
    /\ stagedProfile = Unset => running = current
    /\ stagedProfile # Unset => stagedProfile # current /\ running \in {current, stagedProfile} /\ torn

\* What the monitor loaded is what is committed, unless it read a draft or will be woken.
Misled(draft) == draft \in saw \/ wake \/ pending > 0
LoadFits ==
    /\ monitor = "outer" => store = {} /\ (~enabled \/ Misled("patch"))
    /\ monitor \in GoesBy => /\ scanning \in Profiles
                             /\ enabled \/ Misled("patch")
                             /\ scanning = current \/ Misled("switch")

\* Without a switch since the load, the profile, its nodes and what the core runs are one.
ScanFits ==
    /\ monitor \in GoesBy /\ ~torn => scanning = current
    /\ monitor = "measure" => nodes \in Profiles /\ (torn \/ nodes = scanning)
    /\ ResultsOfTheirProfile

MonitorInv == MonitorTypes /\ SwitchKnown /\ LoadFits /\ ScanFits

\* The mark of a draft that is not there is no profile.
MonitorBounds == Unset \notin Profiles

\* What the next-state relation adds to every step.
MonitorHistory ==
    /\ saw' = IF Loads THEN Drafts ELSE {d \in saw : ~CommitsDraft(d)}
    /\ torn' = (stagedProfile' # Unset \/ (torn /\ ~Loads))

-----------------------------------------------------------------------------
(* The latency monitor: step by step *)

\* Beside the monitor: it stands where it was.
LEMMA OthersRemember ==
    ASSUME MonitorInv, MonitorHistory, UNCHANGED monitor
    PROVE  /\ saw' \subseteq saw /\ torn' = (stagedProfile' # Unset \/ torn)
           /\ UNCHANGED enabled => ("patch" \in saw => "patch" \in saw')
           /\ UNCHANGED current => ("switch" \in saw => "switch" \in saw')
BY DEF MonitorHistory, Loads, CommitsDraft, MonitorInv, MonitorTypes

LEMMA StageEnablingKeeps ==
    ASSUME MonitorInv, MonitorHistory, StageEnabling PROVE MonitorInv'
<1>1. /\ stagedEnabled' \in {"on", "off"}
      /\ UNCHANGED <<enabled, current, stagedProfile, running, light, wake, pending, monitor, scanning, nodes, store>>
  BY DEF StageEnabling, switch, work
<1>2. /\ saw' \subseteq saw /\ torn' = (stagedProfile # Unset \/ torn)
      /\ ("patch" \in saw => "patch" \in saw') /\ ("switch" \in saw => "switch" \in saw')
  BY <1>1, OthersRemember
<1>3. MonitorTypes'
  BY <1>1, <1>2 DEF MonitorInv, MonitorTypes, MonitorTypeOK
<1>4. SwitchKnown'
  BY <1>1, <1>2 DEF MonitorInv, SwitchKnown
<1>5. LoadFits'
  BY <1>1, <1>2 DEF MonitorInv, LoadFits, Misled
<1>6. ScanFits'
  BY <1>1, <1>2 DEF MonitorInv, MonitorTypes, SwitchKnown, ScanFits, ResultsOfTheirProfile
<1> QED BY <1>3, <1>4, <1>5, <1>6 DEF MonitorInv

LEMMA EndEnablingKeeps ==
    ASSUME MonitorInv, MonitorHistory, EndEnabling PROVE MonitorInv'
<1>1. /\ stagedEnabled' = Unset /\ enabled' \in BOOLEAN
      /\ UNCHANGED <<enabled, pending>> \/ pending' = pending + 1
      /\ UNCHANGED <<current, stagedProfile, running, light, wake, monitor, scanning, nodes, store>>
  BY DEF EndEnabling, switch, work, MonitorInv, MonitorTypes, MonitorTypeOK
<1>2. /\ saw' \subseteq saw /\ torn' = (stagedProfile # Unset \/ torn)
      /\ (UNCHANGED enabled => ("patch" \in saw => "patch" \in saw')) /\ ("switch" \in saw => "switch" \in saw')
  BY <1>1, OthersRemember
<1>3. MonitorTypes'
  BY <1>1, <1>2 DEF MonitorInv, MonitorTypes, MonitorTypeOK, Unset
<1>4. SwitchKnown'
  BY <1>1, <1>2 DEF MonitorInv, SwitchKnown
<1>5. LoadFits'
  BY <1>1, <1>2 DEF MonitorInv, MonitorTypes, LoadFits, Misled
<1>6. ScanFits'
  BY <1>1, <1>2 DEF MonitorInv, MonitorTypes, SwitchKnown, ScanFits, ResultsOfTheirProfile
<1> QED BY <1>3, <1>4, <1>5, <1>6 DEF MonitorInv

LEMMA StageSwitchKeeps ==
    ASSUME MonitorBounds, MonitorInv, MonitorHistory, StageSwitch PROVE MonitorInv'
<1>1. /\ stagedProfile = Unset /\ stagedProfile' \in Profiles \ {current}
      /\ UNCHANGED <<enabled, stagedEnabled, current, running, light, wake, pending, monitor, scanning, nodes, store>>
  BY DEF StageSwitch, enabling, work
<1>2. /\ saw' \subseteq saw /\ torn' = TRUE
      /\ ("patch" \in saw => "patch" \in saw') /\ ("switch" \in saw => "switch" \in saw')
  BY <1>1, OthersRemember DEF MonitorBounds
<1>3. MonitorTypes'
  BY <1>1, <1>2 DEF MonitorInv, MonitorTypes, MonitorTypeOK
<1>4. SwitchKnown'
  BY <1>1, <1>2 DEF MonitorInv, SwitchKnown, MonitorBounds
<1>5. LoadFits'
  BY <1>1, <1>2 DEF MonitorInv, LoadFits, Misled
<1>6. ScanFits'
  BY <1>1, <1>2 DEF MonitorInv, ScanFits, ResultsOfTheirProfile
<1> QED BY <1>3, <1>4, <1>5, <1>6 DEF MonitorInv

LEMMA ReloadKeeps ==
    ASSUME MonitorInv, MonitorHistory, Reload PROVE MonitorInv'
<1>1. /\ stagedProfile # Unset /\ running' = stagedProfile
      /\ UNCHANGED <<enabled, stagedEnabled, current, stagedProfile, light, wake, pending, monitor, scanning, nodes, store>>
  BY DEF Reload, enabling, work
<1>2. /\ saw' \subseteq saw /\ torn' = TRUE
      /\ ("patch" \in saw => "patch" \in saw') /\ ("switch" \in saw => "switch" \in saw')
  BY <1>1, OthersRemember
<1>3. MonitorTypes'
  BY <1>1, <1>2 DEF MonitorInv, MonitorTypes, MonitorTypeOK
<1>4. SwitchKnown'
  BY <1>1, <1>2 DEF MonitorInv, SwitchKnown
<1>5. LoadFits'
  BY <1>1, <1>2 DEF MonitorInv, LoadFits, Misled
<1>6. ScanFits'
  BY <1>1, <1>2 DEF MonitorInv, ScanFits, ResultsOfTheirProfile
<1> QED BY <1>3, <1>4, <1>5, <1>6 DEF MonitorInv

LEMMA EndSwitchKeeps ==
    ASSUME MonitorInv, MonitorHistory, EndSwitch PROVE MonitorInv'
<1>1. /\ stagedProfile # Unset /\ stagedProfile' = Unset
      /\ \/ running = stagedProfile /\ current' = stagedProfile /\ pending' = pending + 1
         \/ running # stagedProfile /\ UNCHANGED <<current, pending>>
      /\ UNCHANGED <<enabled, stagedEnabled, running, light, wake, monitor, scanning, nodes, store>>
  BY DEF EndSwitch, enabling, work
<1>2. /\ saw' \subseteq saw /\ torn' = TRUE
      /\ ("patch" \in saw => "patch" \in saw') /\ (UNCHANGED current => ("switch" \in saw => "switch" \in saw'))
  BY <1>1, OthersRemember DEF MonitorInv, SwitchKnown
<1>3. MonitorTypes'
  BY <1>1, <1>2 DEF MonitorInv, MonitorTypes, MonitorTypeOK
<1>4. SwitchKnown'
  BY <1>1, <1>2 DEF MonitorInv, SwitchKnown
<1>5. LoadFits'
  BY <1>1, <1>2 DEF MonitorInv, MonitorTypes, LoadFits, Misled
<1>6. ScanFits'
  BY <1>1, <1>2 DEF MonitorInv, ScanFits, ResultsOfTheirProfile
<1> QED BY <1>3, <1>4, <1>5, <1>6 DEF MonitorInv

LEMMA SignalsKeep ==
    ASSUME MonitorInv, MonitorHistory, ChangeMode \/ Refresh PROVE MonitorInv'
<1>1. /\ UNCHANGED <<enabled, stagedEnabled, current, stagedProfile, running, monitor, scanning, nodes, store>>
      /\ light' \in BOOLEAN
      /\ \/ pending' = pending + 1 /\ UNCHANGED wake
         \/ pending > 0 /\ pending' = pending - 1 /\ wake' = TRUE
  BY DEF ChangeMode, Refresh, refresh, enabling, switch, work, MonitorInv, MonitorTypes
<1>2. /\ saw' \subseteq saw /\ torn' = (stagedProfile # Unset \/ torn)
      /\ ("patch" \in saw => "patch" \in saw') /\ ("switch" \in saw => "switch" \in saw')
  BY <1>1, OthersRemember
<1>3. MonitorTypes'
  <2>1. pending' \in Nat
    BY <1>1 DEF MonitorInv, MonitorTypes
  <2>2. wake' \in BOOLEAN
    BY <1>1 DEF MonitorInv, MonitorTypes
  <2>3. torn' \in BOOLEAN /\ saw' \subseteq {"patch", "switch"}
    BY <1>2 DEF MonitorInv, MonitorTypes
  <2>4. MonitorTypeOK' /\ running' \in Profiles
    BY <1>1 DEF MonitorInv, MonitorTypes, MonitorTypeOK
  <2> QED BY <1>1, <2>1, <2>2, <2>3, <2>4 DEF MonitorTypes
<1>4. SwitchKnown'
  BY <1>1, <1>2 DEF MonitorInv, SwitchKnown
<1>5. LoadFits'
  BY <1>1, <1>2 DEF MonitorInv, MonitorTypes, LoadFits, Misled
<1>6. ScanFits'
  BY <1>1, <1>2 DEF MonitorInv, MonitorTypes, SwitchKnown, ScanFits, ResultsOfTheirProfile
<1> QED BY <1>3, <1>4, <1>5, <1>6 DEF MonitorInv

LEMMA LoadKeeps ==
    ASSUME MonitorInv, MonitorHistory, Load("announced", "inner") \/ Load("inner", "loaded") PROVE MonitorInv'
<1>1. /\ UNCHANGED <<enabled, stagedEnabled, current, stagedProfile, running, light, wake, pending, nodes>>
      /\ monitor \in {"announced", "inner"}
      /\ \/ /\ WantedOn /\ scanning' = Scope /\ UNCHANGED store
            /\ \/ monitor = "announced" /\ monitor' = "inner"
               \/ monitor = "inner" /\ monitor' = "loaded"
         \/ ~WantedOn /\ monitor' = "outer" /\ store' = {} /\ UNCHANGED scanning
  <2>1. CASE Load("announced", "inner")
    BY <2>1 DEF Load, Step, MonitorSettings, clear, enabling, switch
  <2>2. CASE Load("inner", "loaded")
    BY <2>2 DEF Load, Step, MonitorSettings, clear, enabling, switch
  <2> QED BY <2>1, <2>2
<1>2. saw' = Drafts /\ torn' = (stagedProfile # Unset)
  BY <1>1 DEF MonitorHistory, Loads
<1>3. /\ ("patch" \in saw' <=> stagedEnabled # Unset) /\ ("switch" \in saw' <=> stagedProfile # Unset)
      /\ saw' \subseteq {"patch", "switch"}
  BY <1>2 DEF Drafts
<1>4. Scope \in Profiles /\ (stagedProfile = Unset => Scope = current)
  BY DEF Scope, MonitorInv, MonitorTypes, MonitorTypeOK
<1>5. stagedEnabled = Unset => WantedOn = enabled
  BY DEF WantedOn
<1>6. MonitorTypes'
  BY <1>1, <1>2, <1>3, <1>4 DEF MonitorInv, MonitorTypes, MonitorTypeOK
<1>7. SwitchKnown'
  BY <1>1, <1>2 DEF MonitorInv, SwitchKnown
<1>8. LoadFits'
  BY <1>1, <1>3, <1>4, <1>5 DEF MonitorInv, LoadFits, Misled, GoesBy
<1>9. ScanFits'
  BY <1>1, <1>2, <1>4 DEF MonitorInv, ScanFits, ResultsOfTheirProfile, GoesBy
<1> QED BY <1>6, <1>7, <1>8, <1>9 DEF MonitorInv

LEMMA LoopKeeps ==
    ASSUME MonitorInv, MonitorHistory, Receive \/ CheckMode \/ Poll \/ Discover \/ WakeUp PROVE MonitorInv'
<1>1. /\ UNCHANGED <<enabled, stagedEnabled, current, stagedProfile, running, light, pending, scanning, store>>
      /\ monitor \in {"outer"} \cup GoesBy
      /\ \/ monitor = "outer" /\ monitor' = "announced" /\ wake' = FALSE /\ UNCHANGED nodes
         \/ monitor = "loaded" /\ monitor' \in {"light", "scan"} /\ UNCHANGED <<wake, nodes>>
         \/ monitor \in {"light", "wait"} /\ monitor' = "inner" /\ wake' = FALSE /\ UNCHANGED nodes
         \/ monitor = "scan" /\ monitor' = "measure" /\ nodes' = running /\ UNCHANGED wake
         \/ monitor = "scan" /\ monitor' = "wait" /\ UNCHANGED <<wake, nodes>>
  BY DEF Receive, CheckMode, Poll, Discover, WakeUp, Step, enabling, switch, GoesBy
<1>2. saw' = saw /\ torn' = (stagedProfile # Unset \/ torn)
  BY <1>1 DEF MonitorHistory, Loads, GoesBy, CommitsDraft, MonitorInv, MonitorTypes
<1>3. MonitorTypes'
  BY <1>1, <1>2 DEF MonitorInv, MonitorTypes, MonitorTypeOK
<1>4. SwitchKnown'
  BY <1>1, <1>2 DEF MonitorInv, SwitchKnown
<1>5. LoadFits'
  BY <1>1, <1>2 DEF MonitorInv, LoadFits, Misled, GoesBy
<1>6. ScanFits'
  BY <1>1, <1>2 DEF MonitorInv, MonitorTypes, SwitchKnown, ScanFits, ResultsOfTheirProfile, GoesBy
<1> QED BY <1>3, <1>4, <1>5, <1>6 DEF MonitorInv

LEMMA MeasureKeeps ==
    ASSUME MonitorInv, MonitorHistory, Measure PROVE MonitorInv'
<1> DEFINE result == [profile |-> scanning, of |-> nodes, torn |-> torn]
<1>1. /\ UNCHANGED <<enabled, stagedEnabled, current, stagedProfile, running, light, wake, pending, scanning, nodes>>
      /\ monitor = "measure" /\ monitor' = "wait" /\ store' = store \cup {result}
  BY DEF Measure, Step, enabling, switch
<1>2. saw' = saw /\ torn' = (stagedProfile # Unset \/ torn)
  BY <1>1 DEF MonitorHistory, Loads, CommitsDraft, MonitorInv, MonitorTypes
<1>3. result \in [profile : Profiles, of : Profiles, torn : BOOLEAN] /\ (result.torn \/ result.profile = result.of)
  BY <1>1 DEF MonitorInv, MonitorTypes, LoadFits, ScanFits, GoesBy
<1> HIDE DEF result
<1>4. MonitorTypes'
  BY <1>1, <1>2, <1>3 DEF MonitorInv, MonitorTypes, MonitorTypeOK
<1>5. SwitchKnown'
  BY <1>1, <1>2 DEF MonitorInv, SwitchKnown
<1>6. LoadFits'
  BY <1>1, <1>2 DEF MonitorInv, LoadFits, Misled, GoesBy
<1>7. ScanFits'
  BY <1>1, <1>2, <1>3 DEF MonitorInv, MonitorTypes, SwitchKnown, ScanFits, ResultsOfTheirProfile, GoesBy
<1> QED BY <1>4, <1>5, <1>6, <1>7 DEF MonitorInv

-----------------------------------------------------------------------------
(* The latency monitor: the theorems *)

\* For any profiles and limits: the settings the monitor goes by are those committed, unless it read a
\* draft or is about to be woken, and what it measures is one profile unless a switch went on.
THEOREM MonitorIsOrderly == MonitorBounds => (MonitorSpec => []MonitorInv)
<1> SUFFICES ASSUME MonitorBounds PROVE MonitorSpec => []MonitorInv
  OBVIOUS
<1>1. MonitorInit => MonitorInv
  <2> SUFFICES ASSUME MonitorInit PROVE MonitorInv
    OBVIOUS
  <2>1. MonitorTypes
    BY DEF MonitorInit, MonitorTypes, MonitorTypeOK
  <2>2. SwitchKnown
    BY DEF MonitorInit, SwitchKnown
  <2>3. LoadFits /\ ScanFits
    BY DEF MonitorInit, LoadFits, ScanFits, ResultsOfTheirProfile, Misled, GoesBy
  <2> QED BY <2>1, <2>2, <2>3 DEF MonitorInv
<1>2. MonitorInv /\ [MonitorNext]_monitorVars => MonitorInv'
  <2> SUFFICES ASSUME MonitorInv, [MonitorNext]_monitorVars PROVE MonitorInv'
    OBVIOUS
  <2>1. CASE MonitorNext
    <3>1. MonitorHistory /\ MonitorStep
      BY <2>1 DEF MonitorNext, MonitorHistory
    <3> QED BY <3>1, StageEnablingKeeps, EndEnablingKeeps, StageSwitchKeeps, ReloadKeeps, EndSwitchKeeps, SignalsKeep,
               LoadKeeps, LoopKeeps, MeasureKeeps DEF MonitorStep, run
  <2>2. CASE UNCHANGED monitorVars
    <3>1. UNCHANGED <<enabled, stagedEnabled, current, stagedProfile, running, light, wake, pending, monitor, scanning, nodes,
                      store, saw, torn>>
      BY <2>2 DEF monitorVars, enabling, switch, work
    <3> QED BY <3>1 DEF MonitorInv, MonitorTypes, MonitorTypeOK, SwitchKnown, LoadFits, ScanFits, ResultsOfTheirProfile, Misled
  <2> QED BY <2>1, <2>2
<1> QED BY <1>1, <1>2, PTL DEF MonitorSpec

\* A monitor that sleeps with nothing left to wake it is on or off as configured and measured the
\* current profile, and its results are of their profile's nodes (LatencyUptimeMonitor::run).
THEOREM MonitorAlwaysFollows == MonitorBounds => (MonitorSpec => []MonitorFollowsSettings)
<1> SUFFICES ASSUME MonitorBounds PROVE MonitorSpec => []MonitorFollowsSettings
  OBVIOUS
<1>1. MonitorSpec => []MonitorInv
  BY MonitorIsOrderly
<1>2. MonitorInv => MonitorFollowsSettings
  <2> SUFFICES ASSUME MonitorInv PROVE MonitorFollowsSettings
    OBVIOUS
  <2>1. SleepsAsConfigured
    BY DEF SleepsAsConfigured, MonitorQuiet, MonitorInv, MonitorTypes, LoadFits, Misled, GoesBy
  <2> QED BY <2>1 DEF MonitorInv, MonitorTypes, ScanFits, MonitorFollowsSettings
<1> QED BY <1>1, <1>2, PTL

-----------------------------------------------------------------------------
(* The window: the inductive invariant *)

LightSpec == LightweightInit /\ [][LightweightNext]_lightweightVars

\* No task has the name that stands for none.
TimerBounds == NoOne \notin WindowTasks

Someone(phases) == \E t \in WindowTasks : task[t] \in phases

\* A task that has left the mode, and has not stored the last state.
Away  == {"exiting", "show", "build", "listen", "normal"}
Shown == {"listen", "normal"}
\* A task that entered the mode, and has not destroyed the window.
Destroying == {"entered", "destroy"}
Entered == Destroying \cup {"cancel"}
Armed == {"armed"}

WindowTypes ==
    /\ LightweightTypeOK
    /\ recent \in BOOLEAN /\ auto \in BOOLEAN /\ listening \in BOOLEAN /\ setup \in BOOLEAN /\ focusing \in BOOLEAN
    /\ refused \in BOOLEAN /\ across \in BOOLEAN /\ raced \in BOOLEAN /\ unheard \in BOOLEAN

\* The history says which tasks met.
MeetingsKnown ==
    /\ Someone(Entering) /\ (Someone(Showing) \/ Someone({"leave"})) => across
    /\ Someone(Entering) /\ (Someone(Leaving) \/ Someone(Showing)) => raced

\* Someone who left the mode is still to store the last state.
ModeEnds == lightMode = "Exiting" => Someone(Away)

\* In the mode the window is gone, or about to be, or the mode is being left.
WindowGoes ==
    ~across => /\ Someone(Showing) => lightMode # "In"
               /\ lightMode = "In" => window = "none" \/ Someone(Destroying) \/ Someone(Away)

\* Without a meeting the mode stays until its window is gone, and is left for a window.
WindowComes ==
    ~raced => /\ Someone(Entered) => lightMode = "In"
              /\ ~refused => (lightMode = "Normal" \/ Someone(Shown) => window # "none")

TimerFits ==
    /\ \A t \in WindowTasks : task[t] = "armed" => slot = t
    /\ ~unheard /\ window = "focused" => /\ ~setup /\ (slot = NoOne \/ listening)
                                         /\ focusing \/ ~Someone(Armed)

LightInv == WindowTypes /\ MeetingsKnown /\ ModeEnds /\ WindowGoes /\ WindowComes /\ TimerFits

\* What the next-state relation adds to every step.
LightHistory ==
    /\ across' = (across \/ EntryBeside(Showing \cup {"leave"})')
    /\ raced' = (raced \/ EntryBeside(Leaving \cup Showing)')
    /\ unheard' = (unheard \/ (window' = "focused" /\ (setup' \/ (slot' # NoOne /\ ~listening'))))

\* The same, as the proofs use it.
Remembers ==
    /\ (across => across') /\ (raced => raced') /\ (unheard => unheard')
    /\ MeetingsKnown'
    /\ ~unheard' /\ window' = "focused" => ~setup' /\ (slot' = NoOne \/ listening')
    /\ across' \in BOOLEAN /\ raced' \in BOOLEAN /\ unheard' \in BOOLEAN

LEMMA HistoryRemembers == ASSUME LightInv, LightHistory PROVE Remembers
<1>1. MeetingsKnown'
  <2>1. EntryBeside(Showing \cup {"leave"})' => across'
    BY DEF LightHistory
  <2>2. EntryBeside(Leaving \cup Showing)' => raced'
    BY DEF LightHistory
  <2>3. (Someone(Entering) /\ (Someone(Showing) \/ Someone({"leave"})))' => EntryBeside(Showing \cup {"leave"})'
    BY DEF Someone, EntryBeside
  <2>4. (Someone(Entering) /\ (Someone(Leaving) \/ Someone(Showing)))' => EntryBeside(Leaving \cup Showing)'
    BY DEF Someone, EntryBeside
  <2> QED BY <2>1, <2>2, <2>3, <2>4 DEF MeetingsKnown
<1>2. across' \in BOOLEAN /\ raced' \in BOOLEAN /\ unheard' \in BOOLEAN
  BY DEF LightHistory, EntryBeside
<1>3. /\ (across => across') /\ (raced => raced') /\ (unheard => unheard')
      /\ ~unheard' /\ window' = "focused" => ~setup' /\ (slot' = NoOne \/ listening')
  BY DEF LightHistory
<1> QED BY <1>1, <1>2, <1>3 DEF Remembers

-----------------------------------------------------------------------------
(* The window: one task moves; a timer that sleeps may be stopped by it *)

\* What a task does not do itself: a sleeping timer may end.
TaskSettles(s) == task'[s] = task[s] \/ (task[s] = "armed" /\ task'[s] = "idle")

TaskMovesTo(t, from, to) ==
    /\ task[t] = from /\ task'[t] = to /\ task' \in [WindowTasks -> WindowPhases]
    /\ \A s \in WindowTasks \ {t} : TaskSettles(s)

\* Only sleeping timers end.
Rests == task' \in [WindowTasks -> WindowPhases] /\ \A s \in WindowTasks : TaskSettles(s)

\* How the tasks at some phases follow from a move.
TasksFollow(phases, from, to) ==
    /\ from \in phases => Someone(phases)
    /\ to \in phases => Someone(phases)'
    /\ from \notin phases /\ Someone(phases) => Someone(phases)'
    /\ to \notin phases /\ Someone(phases)' => Someone(phases)

LEMMA OneFollows ==
    ASSUME NEW t \in WindowTasks, NEW from, NEW to, TaskMovesTo(t, from, to),
           NEW phases, "armed" \notin phases, "idle" \notin phases
    PROVE  TasksFollow(phases, from, to)
<1>1. ASSUME to \in phases PROVE Someone(phases)'
  BY <1>1 DEF TaskMovesTo, Someone
<1>0. ASSUME from \in phases PROVE Someone(phases)
  BY <1>0 DEF TaskMovesTo, Someone
<1>2. ASSUME from \notin phases, Someone(phases) PROVE Someone(phases)'
  <2>1. PICK s \in WindowTasks : task[s] \in phases
    BY <1>2 DEF Someone
  <2>2. s # t
    BY <1>2, <2>1 DEF TaskMovesTo
  <2>3. task'[s] \in phases
    BY <2>1, <2>2 DEF TaskMovesTo, TaskSettles
  <2> QED BY <2>3 DEF Someone
<1>3. ASSUME to \notin phases, Someone(phases)' PROVE Someone(phases)
  <2>1. PICK s \in WindowTasks : task'[s] \in phases
    BY <1>3 DEF Someone
  <2>2. s # t
    BY <1>3, <2>1 DEF TaskMovesTo
  <2>3. task[s] \in phases
    BY <2>1, <2>2 DEF TaskMovesTo, TaskSettles
  <2> QED BY <2>3 DEF Someone
<1> QED BY <1>0, <1>1, <1>2, <1>3 DEF TasksFollow

\* The tasks of every kind that the invariant speaks of.
AllTasksFollow(from, to) ==
    /\ TasksFollow(Showing, from, to) /\ TasksFollow(Away, from, to) /\ TasksFollow(Shown, from, to)
    /\ TasksFollow(Destroying, from, to) /\ TasksFollow(Entered, from, to)

LEMMA EachFollows ==
    ASSUME NEW t \in WindowTasks, NEW from, NEW to, TaskMovesTo(t, from, to)
    PROVE  AllTasksFollow(from, to)
<1>1. TasksFollow(Showing, from, to)
  BY OneFollows DEF Showing
<1>2. TasksFollow(Away, from, to)
  BY OneFollows DEF Away
<1>3. TasksFollow(Shown, from, to)
  BY OneFollows DEF Shown
<1>4. TasksFollow(Destroying, from, to)
  BY OneFollows DEF Destroying
<1>5. TasksFollow(Entered, from, to)
  BY OneFollows DEF Entered, Destroying
<1> QED BY <1>1, <1>2, <1>3, <1>4, <1>5 DEF AllTasksFollow

LEMMA RestKeepsPhases ==
    ASSUME Rests, NEW phases, "armed" \notin phases, "idle" \notin phases
    PROVE  Someone(phases)' <=> Someone(phases)
<1>1. ASSUME Someone(phases) PROVE Someone(phases)'
  <2>1. PICK s \in WindowTasks : task[s] \in phases
    BY <1>1 DEF Someone
  <2>2. task'[s] \in phases
    BY <2>1 DEF Rests, TaskSettles
  <2> QED BY <2>2 DEF Someone
<1>2. ASSUME Someone(phases)' PROVE Someone(phases)
  <2>1. PICK s \in WindowTasks : task'[s] \in phases
    BY <1>2 DEF Someone
  <2>2. task[s] \in phases
    BY <2>1 DEF Rests, TaskSettles
  <2> QED BY <2>2 DEF Someone
<1> QED BY <1>1, <1>2

\* The timer whose sender is dropped ends, if it still sleeps.
LEMMA SilenceEnds ==
    ASSUME NEW tasks \in [WindowTasks -> WindowPhases]
    PROVE  /\ Silence(tasks) \in [WindowTasks -> WindowPhases]
           /\ \A s \in WindowTasks : \/ Silence(tasks)[s] = tasks[s]
                                     \/ tasks[s] = "armed" /\ Silence(tasks)[s] = "idle"
           /\ slot # NoOne => \A s \in WindowTasks : s = slot => Silence(tasks)[s] # "armed"
BY DEF Silence, WindowPhases

-----------------------------------------------------------------------------
(* The window: the steps that leave the mode as it is *)

ModeKept ==
    /\ UNCHANGED lightMode /\ (refused => refused')
    /\ window' = "none" => window = "none"
    /\ window = "none" /\ window' # "none" => lightMode # "In" \/ across \/ Someone(Away)'
    /\ Someone(Showing)' => Someone(Showing) \/ lightMode # "In"
    /\ Someone(Away) => Someone(Away)'
    /\ Someone(Destroying) => Someone(Destroying)'
    /\ Someone(Entered)' => Someone(Entered)
    /\ Someone(Shown)' => Someone(Shown) \/ refused' \/ window' # "none"

LEMMA KeptModeFits ==
    ASSUME LightInv, Remembers, ModeKept
    PROVE  ModeEnds' /\ WindowGoes' /\ WindowComes'
<1>1. ModeEnds'
  BY DEF LightInv, ModeEnds, ModeKept
<1>2. WindowGoes'
  BY DEF LightInv, WindowGoes, ModeKept, Remembers
<1>3. WindowComes'
  BY DEF LightInv, WindowComes, ModeKept, Remembers
<1> QED BY <1>1, <1>2, <1>3

\* A timer that sleeps is the one in the slot, and is stopped by the focus.
TimersKept ==
    /\ \A s \in WindowTasks : task'[s] = "armed" => slot' = s
    /\ window' = "focused" /\ ~focusing' => (window = "focused" /\ ~focusing) \/ ~Someone(Armed)' \/ unheard'
    /\ Someone(Armed)' => Someone(Armed) \/ unheard' \/ window' # "focused"

LEMMA TimersKeep == ASSUME LightInv, Remembers, TimersKept PROVE TimerFits'
<1>1. ASSUME ~unheard', window' = "focused", ~focusing' PROVE ~Someone(Armed)'
  BY <1>1 DEF TimersKept, LightInv, TimerFits, Remembers
<1>2. ~unheard' /\ window' = "focused" => ~setup' /\ (slot' = NoOne \/ listening')
  BY DEF Remembers
<1>3. \A s \in WindowTasks : task'[s] = "armed" => slot' = s
  BY DEF TimersKept
<1> QED BY <1>1, <1>2, <1>3 DEF TimerFits

\* The slot and the window that is looked at are as they were, and no timer is set.
LEMMA SlotKept ==
    ASSUME LightInv, UNCHANGED slot,
           Rests \/ \E t \in WindowTasks, from, to \in WindowPhases : TaskMovesTo(t, from, to) /\ to # "armed",
           window' = "focused" /\ ~focusing' => window = "focused" /\ ~focusing
    PROVE  TimersKept
<1>1. ASSUME NEW s \in WindowTasks, task'[s] = "armed" PROVE task[s] = "armed"
  BY <1>1 DEF Rests, TaskMovesTo, TaskSettles
<1>2. \A s \in WindowTasks : task'[s] = "armed" => slot' = s
  BY <1>1 DEF LightInv, TimerFits
<1>3. Someone(Armed)' => Someone(Armed)
  BY <1>1 DEF Someone, Armed
<1> QED BY <1>2, <1>3 DEF TimersKept

\* No timer sleeps afterwards.
LEMMA StoppedKept ==
    ASSUME \A s \in WindowTasks : task'[s] # "armed"
    PROVE  TimersKept
BY DEF TimersKept, Someone, Armed

\* Cancelling stops every timer that sleeps.
LEMMA CancelStops ==
    ASSUME TimerBounds, LightInv, NEW tasks \in [WindowTasks -> WindowPhases], cancel_light_weight_timer(tasks),
           \A s \in WindowTasks : tasks[s] = "armed" => task[s] = "armed"
    PROVE  /\ slot' = NoOne /\ task' \in [WindowTasks -> WindowPhases]
           /\ \A s \in WindowTasks : /\ task'[s] # "armed"
                                     /\ task'[s] = tasks[s] \/ (tasks[s] = "armed" /\ task'[s] = "idle")
<1>1. slot' = NoOne /\ task' = Silence(tasks)
  BY DEF cancel_light_weight_timer
<1>2. ASSUME NEW s \in WindowTasks PROVE task'[s] # "armed"
  <2>1. CASE tasks[s] = "armed"
    <3>1. slot = s /\ slot # NoOne
      BY <2>1 DEF LightInv, TimerFits, TimerBounds
    <3> QED BY <1>1, <3>1, SilenceEnds
  <2>2. CASE tasks[s] # "armed"
    BY <1>1, <2>2, SilenceEnds
  <2> QED BY <2>1, <2>2
<1> QED BY <1>1, <1>2, SilenceEnds

-----------------------------------------------------------------------------
(* The window: step by step *)

\* A task that moves to a phase is a step of one task.
LEMMA WindowTaskMoves ==
    ASSUME LightInv, NEW t \in WindowTasks, NEW from \in WindowPhases, NEW to \in WindowPhases,
           TaskAt(t, from), TaskTo(t, to)
    PROVE  TaskMovesTo(t, from, to)
BY DEF LightInv, WindowTypes, LightweightTypeOK, TaskAt, TaskTo, TaskMovesTo, TaskSettles

\* What is left to be said of the types.
TypesLeft ==
    /\ lightMode' \in Modes /\ window' \in Existing \cup {"none"} /\ slot' \in Timers \cup {NoOne}
    /\ recent' \in BOOLEAN /\ auto' \in BOOLEAN /\ listening' \in BOOLEAN /\ setup' \in BOOLEAN
    /\ focusing' \in BOOLEAN /\ refused' \in BOOLEAN

LEMMA TypesKeep ==
    ASSUME Remembers, TypesLeft, task' \in [WindowTasks -> WindowPhases]
    PROVE  WindowTypes'
BY DEF Remembers, TypesLeft, WindowTypes, LightweightTypeOK

LEMMA KeptModeKeeps ==
    ASSUME LightInv, Remembers, ModeKept, TimersKept, TypesLeft, task' \in [WindowTasks -> WindowPhases]
    PROVE  LightInv'
BY KeptModeFits, TimersKeep, TypesKeep DEF LightInv, Remembers

LEMMA AskWindowKeeps ==
    ASSUME LightInv, Remembers, NEW t \in WindowTasks, AskWindow(t) PROVE LightInv'
<1>1. PICK to \in {"enter", "leave", "toggle"} : TaskAt(t, "idle") /\ TaskTo(t, to) /\ (to = "toggle" => lightMode # "In")
  BY DEF AskWindow
<1>2. TaskMovesTo(t, "idle", to)
  BY <1>1, WindowTaskMoves DEF WindowPhases, Entering, Leaving, Showing
<1>3. UNCHANGED <<lightMode, window, recent, auto, listening, slot, setup, focusing, refused>>
  BY DEF AskWindow, lightConfig, windowEvents
<1>4. AllTasksFollow("idle", to)
  BY <1>2, EachFollows
<1>5. ModeKept
  BY <1>1, <1>3, <1>4 DEF AllTasksFollow, TasksFollow, ModeKept, Showing, Away, Shown, Destroying, Entered
<1>6. TimersKept
  BY <1>1, <1>2, <1>3, SlotKept DEF WindowPhases, Entering, Leaving, Showing
<1>7. TypesLeft /\ task' \in [WindowTasks -> WindowPhases]
  BY <1>2, <1>3 DEF TypesLeft, LightInv, WindowTypes, LightweightTypeOK, TaskMovesTo
<1> QED BY <1>5, <1>6, <1>7, KeptModeKeeps

LEMMA SetTimerKeeps ==
    ASSUME TimerBounds, LightInv, Remembers, NEW t \in WindowTasks, SetTimer(t) PROVE LightInv'
<1>1. /\ setup /\ setup' = FALSE /\ t \in Timers
      /\ UNCHANGED <<lightMode, window, recent, auto, listening, focusing, refused>>
  BY DEF SetTimer, lightConfig
<1>2. CASE slot # NoOne
  <2>1. UNCHANGED <<slot, task>>
    BY <1>2 DEF SetTimer
  <2>2. Rests
    BY <2>1 DEF Rests, TaskSettles, LightInv, WindowTypes, LightweightTypeOK
  <2>3. ModeKept
    BY <1>1, <2>2, RestKeepsPhases DEF ModeKept, Showing, Away, Shown, Destroying, Entered
  <2>4. TimersKept
    BY <1>1, <2>1, <2>2, SlotKept
  <2>5. TypesLeft /\ task' \in [WindowTasks -> WindowPhases]
    BY <1>1, <2>1 DEF TypesLeft, LightInv, WindowTypes, LightweightTypeOK
  <2> QED BY <2>3, <2>4, <2>5, KeptModeKeeps
<1>3. CASE slot = NoOne
  <2>1. slot' = t /\ TaskAt(t, "idle") /\ TaskTo(t, "armed")
    BY <1>3 DEF SetTimer
  <2>2. TaskMovesTo(t, "idle", "armed")
    BY <2>1, WindowTaskMoves DEF WindowPhases
  <2>3. AllTasksFollow("idle", "armed")
    BY <2>2, EachFollows
  <2>4. ModeKept
    BY <1>1, <2>3 DEF AllTasksFollow, TasksFollow, ModeKept, Showing, Away, Shown, Destroying, Entered
  <2>5. ASSUME NEW s \in WindowTasks, task'[s] = "armed" PROVE slot' = s
    <3>1. s # t => task[s] = "armed"
      BY <2>2, <2>5 DEF TaskMovesTo, TaskSettles
    <3> QED BY <1>3, <2>1, <3>1 DEF LightInv, TimerFits, TimerBounds
  <2>6. window' = "focused" => unheard'
    BY <1>1 DEF LightInv, TimerFits, Remembers
  <2>7. TimersKept
    BY <2>5, <2>6 DEF TimersKept
  <2>8. TypesLeft /\ task' \in [WindowTasks -> WindowPhases]
    BY <1>1, <2>1, <2>2 DEF TypesLeft, LightInv, WindowTypes, LightweightTypeOK, TaskMovesTo
  <2> QED BY <2>4, <2>7, <2>8, KeptModeKeeps
<1> QED BY <1>2, <1>3

LEMMA ExpireKeeps ==
    ASSUME LightInv, Remembers, NEW t \in WindowTasks, Expire(t) PROVE LightInv'
<1>1. TaskAt(t, "armed") /\ TaskTo(t, "expired")
  BY DEF Expire
<1>2. TaskMovesTo(t, "armed", "expired")
  BY <1>1, WindowTaskMoves DEF WindowPhases
<1>3. UNCHANGED <<lightMode, window, recent, auto, listening, slot, setup, focusing, refused>>
  BY DEF Expire, lightConfig, windowEvents
<1>4. AllTasksFollow("armed", "expired")
  BY <1>2, EachFollows
<1>5. ModeKept
  BY <1>3, <1>4 DEF AllTasksFollow, TasksFollow, ModeKept, Showing, Away, Shown, Destroying, Entered
<1>6. TimersKept
  BY <1>2, <1>3, SlotKept DEF WindowPhases
<1>7. TypesLeft /\ task' \in [WindowTasks -> WindowPhases]
  BY <1>2, <1>3 DEF TypesLeft, LightInv, WindowTypes, LightweightTypeOK, TaskMovesTo
<1> QED BY <1>5, <1>6, <1>7, KeptModeKeeps

LEMMA ForgetKeeps ==
    ASSUME TimerBounds, LightInv, Remembers, NEW t \in WindowTasks, Forget(t) PROVE LightInv'
<1>1. /\ task[t] = "expired" /\ slot' = NoOne /\ task' = [Silence(task) EXCEPT ![t] = "enter"]
      /\ UNCHANGED <<lightMode, window, recent, auto, listening, setup, focusing, refused>>
  BY DEF Forget, TaskAt, lightConfig, windowEvents
<1>2. task \in [WindowTasks -> WindowPhases]
  BY DEF LightInv, WindowTypes, LightweightTypeOK
<1>3. task' \in [WindowTasks -> WindowPhases] /\ task'[t] = "enter"
  BY <1>1, <1>2, SilenceEnds DEF WindowPhases, Entering
<1>4. ASSUME NEW s \in WindowTasks \ {t} PROVE TaskSettles(s) /\ task'[s] # "armed"
  <2>1. task'[s] = Silence(task)[s]
    BY <1>1, <1>2, SilenceEnds
  <2>2. task[s] = "armed" => slot # NoOne /\ s = slot
    BY DEF LightInv, TimerFits, TimerBounds
  <2> QED BY <1>2, <2>1, <2>2, SilenceEnds DEF TaskSettles
<1>5. TaskMovesTo(t, "expired", "enter")
  BY <1>1, <1>3, <1>4 DEF TaskMovesTo
<1>6. AllTasksFollow("expired", "enter")
  BY <1>5, EachFollows
<1>7. ModeKept
  BY <1>1, <1>6 DEF AllTasksFollow, TasksFollow, ModeKept, Showing, Away, Shown, Destroying, Entered
<1>8. TimersKept
  BY <1>3, <1>4, StoppedKept
<1>9. TypesLeft
  BY <1>1 DEF TypesLeft, LightInv, WindowTypes, LightweightTypeOK
<1> QED BY <1>3, <1>7, <1>8, <1>9, KeptModeKeeps

\* A task that enters the mode, or stores it late.
LEMMA EntersMode ==
    ASSUME LightInv, Remembers, NEW t \in WindowTasks, NEW from \in WindowPhases \ Leaving, NEW to \in Destroying,
           TaskMovesTo(t, from, to), lightMode' = "In",
           UNCHANGED <<window, recent, auto, listening, slot, setup, focusing, refused>>
    PROVE  LightInv'
<1>1. AllTasksFollow(from, to)
  BY EachFollows
<1>2. Someone(Entering)'
  BY DEF TaskMovesTo, Someone, Destroying, Entering
<1>3. ModeEnds'
  BY DEF ModeEnds
<1>4. WindowGoes'
  BY <1>1, <1>2 DEF WindowGoes, Remembers, MeetingsKnown, AllTasksFollow, TasksFollow
<1>5. from \notin Shown /\ to \notin Shown
  BY DEF Leaving, Shown, Destroying
<1>6. WindowComes'
  <2>1. Someone(Shown)' => Someone(Leaving)'
    BY DEF Someone, Shown, Leaving
  <2> QED BY <1>2, <2>1 DEF WindowComes, Remembers, MeetingsKnown
<1>7. TimersKept
  BY SlotKept DEF Destroying, WindowPhases, Entering
<1>8. TimerFits'
  BY <1>7, TimersKeep
<1>9. WindowTypes'
  BY TypesKeep DEF TaskMovesTo, TypesLeft, LightInv, WindowTypes, LightweightTypeOK, Modes
<1> QED BY <1>3, <1>4, <1>6, <1>8, <1>9 DEF LightInv, Remembers

\* A task that leaves the mode, or stores that it does.
LEMMA LeavesMode ==
    ASSUME LightInv, Remembers, NEW t \in WindowTasks, NEW from \in {"leave", "exiting"}, NEW to \in {"exiting", "show"},
           TaskMovesTo(t, from, to), lightMode' = "Exiting",
           UNCHANGED <<window, recent, auto, listening, slot, setup, focusing, refused>>
    PROVE  LightInv'
<1>1. AllTasksFollow(from, to)
  BY EachFollows
<1>2. Someone(Leaving)' /\ Someone(Away)'
  BY DEF TaskMovesTo, Someone, Leaving, Away
<1>3. ModeEnds'
  BY <1>2 DEF ModeEnds
<1>4. WindowGoes'
  BY DEF WindowGoes
<1>5. WindowComes'
  <2>1. Someone(Entered)' => Someone(Entering)'
    BY DEF Someone, Entered, Destroying, Entering
  <2>2. Someone(Entered)' => raced'
    BY <1>2, <2>1 DEF Remembers, MeetingsKnown
  <2>3. Someone(Shown)' => Someone(Shown)
    BY <1>1 DEF AllTasksFollow, TasksFollow, Shown
  <2> QED BY <2>2, <2>3 DEF WindowComes, LightInv, Remembers
<1>6. TimersKept
  BY SlotKept DEF WindowPhases, Leaving
<1>7. TimerFits'
  BY <1>6, TimersKeep
<1>8. WindowTypes'
  BY TypesKeep DEF TaskMovesTo, TypesLeft, LightInv, WindowTypes, LightweightTypeOK, Modes
<1> QED BY <1>3, <1>4, <1>5, <1>7, <1>8 DEF LightInv, Remembers

LEMMA EnterKeeps ==
    ASSUME LightInv, Remembers, NEW t \in WindowTasks, Enter(t) PROVE LightInv'
<1>1. TaskAt(t, "enter") /\ UNCHANGED <<window, recent, auto, listening, slot, setup, focusing, refused>>
  BY DEF Enter, lightConfig, windowEvents
<1>2. CASE lightMode = "Normal"
  <2>1. lightMode' = "In" /\ TaskTo(t, "entered")
    BY <1>2 DEF Enter, try_transition
  <2>2. TaskMovesTo(t, "enter", "entered")
    BY <1>1, <2>1, WindowTaskMoves DEF WindowPhases, Entering
  <2> QED BY <1>1, <2>1, <2>2, EntersMode DEF WindowPhases, Entering, Leaving, Destroying
<1>3. CASE lightMode # "Normal"
  <2>1. UNCHANGED lightMode /\ TaskTo(t, "idle")
    BY <1>3 DEF Enter
  <2>2. TaskMovesTo(t, "enter", "idle")
    BY <1>1, <2>1, WindowTaskMoves DEF WindowPhases, Entering
  <2>3. AllTasksFollow("enter", "idle")
    BY <2>2, EachFollows
  <2>4. ModeKept
    BY <1>1, <2>1, <2>3 DEF AllTasksFollow, TasksFollow, ModeKept, Showing, Away, Shown, Destroying, Entered
  <2>5. TimersKept
    BY <1>1, <2>2, SlotKept DEF WindowPhases, Entering
  <2>6. TypesLeft /\ task' \in [WindowTasks -> WindowPhases]
    BY <1>1, <2>1, <2>2 DEF TypesLeft, LightInv, WindowTypes, LightweightTypeOK, TaskMovesTo
  <2> QED BY <2>4, <2>5, <2>6, KeptModeKeeps
<1> QED BY <1>2, <1>3

LEMMA LeaveKeeps ==
    ASSUME LightInv, Remembers, NEW t \in WindowTasks, Leave(t) PROVE LightInv'
<1>1. TaskAt(t, "leave") /\ UNCHANGED <<window, recent, auto, listening, slot, setup, focusing, refused>>
  BY DEF Leave, lightConfig, windowEvents
<1>2. CASE lightMode = "In"
  <2>1. lightMode' = "Exiting" /\ TaskTo(t, "exiting")
    BY <1>2 DEF Leave, try_transition
  <2>2. TaskMovesTo(t, "leave", "exiting")
    BY <1>1, <2>1, WindowTaskMoves DEF WindowPhases, Leaving
  <2> QED BY <1>1, <2>1, <2>2, LeavesMode
<1>3. CASE lightMode # "In"
  <2>1. UNCHANGED lightMode /\ TaskTo(t, "show_alone")
    BY <1>3 DEF Leave
  <2>2. TaskMovesTo(t, "leave", "show_alone")
    BY <1>1, <2>1, WindowTaskMoves DEF WindowPhases, Leaving, Showing
  <2>3. AllTasksFollow("leave", "show_alone")
    BY <2>2, EachFollows
  <2>4. ModeKept
    BY <1>1, <1>3, <2>1, <2>3 DEF AllTasksFollow, TasksFollow, ModeKept, Showing, Away, Shown, Destroying, Entered
  <2>5. TimersKept
    BY <1>1, <2>2, SlotKept DEF WindowPhases, Leaving, Showing
  <2>6. TypesLeft /\ task' \in [WindowTasks -> WindowPhases]
    BY <1>1, <2>1, <2>2 DEF TypesLeft, LightInv, WindowTypes, LightweightTypeOK, TaskMovesTo
  <2> QED BY <2>4, <2>5, <2>6, KeptModeKeeps
<1> QED BY <1>2, <1>3

\* What a store of the mode is.
LEMMA Stores ==
    ASSUME LightInv, NEW t \in WindowTasks, NEW at \in WindowPhases, NEW state, NEW next \in WindowPhases,
           StoreMode(t, at, state, next)
    PROVE  /\ TaskMovesTo(t, at, next) /\ lightMode' = state
           /\ UNCHANGED <<window, recent, auto, listening, slot, setup, focusing, refused>>
<1>1. /\ TaskAt(t, at) /\ lightMode' = state /\ TaskTo(t, next)
      /\ UNCHANGED <<window, recent, auto, listening, slot, setup, focusing, refused>>
  BY DEF StoreMode, lightConfig, windowEvents
<1> QED BY <1>1, WindowTaskMoves

LEMMA StoreInKeeps ==
    ASSUME LightInv, Remembers, NEW t \in WindowTasks, StoreMode(t, "entered", "In", "destroy") PROVE LightInv'
<1>1. "entered" \in WindowPhases \ Leaving /\ "destroy" \in WindowPhases /\ "destroy" \in Destroying
  BY DEF WindowPhases, Entering, Leaving, Destroying
<1> QED BY <1>1, Stores, EntersMode

LEMMA StoreExitingKeeps ==
    ASSUME LightInv, Remembers, NEW t \in WindowTasks, StoreMode(t, "exiting", "Exiting", "show") PROVE LightInv'
<1>1. "exiting" \in WindowPhases /\ "show" \in WindowPhases
  BY DEF WindowPhases, Leaving
<1> QED BY <1>1, Stores, LeavesMode

\* The last store of a task that left the mode: nobody entered it beside, or the history says so.
LEMMA StoreNormalKeeps ==
    ASSUME LightInv, Remembers, NEW t \in WindowTasks, StoreMode(t, "normal", "Normal", "idle") PROVE LightInv'
<1>1. /\ TaskMovesTo(t, "normal", "idle") /\ lightMode' = "Normal"
      /\ UNCHANGED <<window, recent, auto, listening, slot, setup, focusing, refused>>
  <2>1. "normal" \in WindowPhases /\ "idle" \in WindowPhases
    BY DEF WindowPhases, Leaving
  <2> QED BY <2>1, Stores
<1>2. AllTasksFollow("normal", "idle")
  BY <1>1, EachFollows
<1>3. ModeEnds' /\ WindowGoes'
  BY <1>1 DEF ModeEnds, WindowGoes
<1>4. Someone(Leaving) /\ Someone(Shown)
  BY <1>1 DEF TaskMovesTo, Someone, Leaving, Shown
<1>5. WindowComes'
  <2>1. Someone(Entered)' => Someone(Entered)
    BY <1>2 DEF AllTasksFollow, TasksFollow, Entered, Destroying
  <2>2. Someone(Entered) => Someone(Entering)
    BY DEF Someone, Entered, Destroying, Entering
  <2>3. Someone(Entered)' => raced'
    BY <1>4, <2>1, <2>2 DEF LightInv, MeetingsKnown, Remembers
  <2>4. ~raced' /\ ~refused' => window' # "none"
    BY <1>1, <1>4 DEF LightInv, WindowComes, Remembers
  <2> QED BY <2>3, <2>4 DEF WindowComes
<1>6. TimersKept
  BY <1>1, SlotKept DEF WindowPhases, Leaving
<1>7. TimerFits'
  BY <1>6, TimersKeep
<1>8. WindowTypes'
  BY <1>1, TypesKeep DEF TaskMovesTo, TypesLeft, LightInv, WindowTypes, LightweightTypeOK, Modes
<1> QED BY <1>3, <1>5, <1>7, <1>8 DEF LightInv, Remembers

LEMMA DestroyKeeps ==
    ASSUME LightInv, Remembers, NEW t \in WindowTasks, Destroy(t) PROVE LightInv'
<1>1. /\ TaskAt(t, "destroy") /\ window' = "none" /\ focusing' = FALSE /\ TaskTo(t, "cancel")
      /\ UNCHANGED <<lightMode, recent, auto, listening, slot, setup, refused>>
  BY DEF Destroy, lightConfig
<1>2. TaskMovesTo(t, "destroy", "cancel")
  BY <1>1, WindowTaskMoves DEF WindowPhases, Entering
<1>3. AllTasksFollow("destroy", "cancel")
  BY <1>2, EachFollows
<1>4. ModeEnds'
  BY <1>1, <1>3 DEF LightInv, ModeEnds, AllTasksFollow, TasksFollow, Away
<1>5. WindowGoes'
  BY <1>1, <1>3 DEF LightInv, WindowGoes, AllTasksFollow, TasksFollow, Showing, Remembers
<1>6. Someone(Entered) /\ Someone(Entering)'
  BY <1>2 DEF TaskMovesTo, Someone, Entered, Destroying, Entering
<1>7. Someone(Shown)' => raced'
  <2>1. Someone(Shown)' => Someone(Leaving)'
    BY DEF Someone, Shown, Leaving
  <2> QED BY <1>6, <2>1 DEF Remembers, MeetingsKnown
<1>8. WindowComes'
  BY <1>1, <1>6, <1>7 DEF LightInv, WindowComes, Remembers
<1>9. TimersKept
  BY <1>1, <1>2, SlotKept DEF WindowPhases, Entering
<1>10. TimerFits'
  BY <1>9, TimersKeep
<1>11. WindowTypes'
  BY <1>1, <1>2, TypesKeep DEF TaskMovesTo, TypesLeft, LightInv, WindowTypes, LightweightTypeOK
<1> QED BY <1>4, <1>5, <1>8, <1>10, <1>11 DEF LightInv, Remembers

\* A task whose move drops the timer.
LEMMA CancelMoves ==
    ASSUME TimerBounds, LightInv, NEW t \in WindowTasks, NEW from \in WindowPhases \ {"armed"},
           NEW to \in WindowPhases \ {"armed"}, TaskAt(t, from), cancel_light_weight_timer([task EXCEPT ![t] = to])
    PROVE  TaskMovesTo(t, from, to) /\ TimersKept /\ slot' = NoOne
<1> DEFINE tasks == [task EXCEPT ![t] = to]
<1>1. /\ tasks \in [WindowTasks -> WindowPhases] /\ tasks[t] = to
      /\ \A s \in WindowTasks \ {t} : tasks[s] = task[s]
  BY DEF LightInv, WindowTypes, LightweightTypeOK
<1>2. \A s \in WindowTasks : tasks[s] = "armed" => task[s] = "armed"
  BY <1>1
<1> HIDE DEF tasks
<1>3. cancel_light_weight_timer(tasks)
  BY DEF tasks
<1>4. /\ slot' = NoOne /\ task' \in [WindowTasks -> WindowPhases]
      /\ \A s \in WindowTasks : /\ task'[s] # "armed"
                                /\ task'[s] = tasks[s] \/ (tasks[s] = "armed" /\ task'[s] = "idle")
  BY <1>1, <1>2, <1>3, CancelStops
<1>5. TaskMovesTo(t, from, to)
  BY <1>1, <1>4 DEF TaskMovesTo, TaskSettles, TaskAt
<1> QED BY <1>4, <1>5, StoppedKept

LEMMA CancelTimerKeeps ==
    ASSUME TimerBounds, LightInv, Remembers, NEW t \in WindowTasks, CancelTimer(t) PROVE LightInv'
<1>1. /\ TaskAt(t, "cancel") /\ cancel_light_weight_timer([task EXCEPT ![t] = "idle"])
      /\ UNCHANGED <<lightMode, window, recent, auto, listening, setup, focusing, refused>>
  BY DEF CancelTimer, lightConfig, windowEvents
<1>2. TaskMovesTo(t, "cancel", "idle") /\ TimersKept /\ slot' = NoOne
  BY <1>1, CancelMoves DEF WindowPhases, Entering
<1>3. AllTasksFollow("cancel", "idle")
  BY <1>2, EachFollows
<1>4. ModeKept
  BY <1>1, <1>3 DEF AllTasksFollow, TasksFollow, ModeKept, Showing, Away, Shown, Destroying, Entered
<1>5. TypesLeft /\ task' \in [WindowTasks -> WindowPhases]
  BY <1>1, <1>2 DEF TypesLeft, LightInv, WindowTypes, LightweightTypeOK, TaskMovesTo
<1> QED BY <1>2, <1>4, <1>5, KeptModeKeeps

LEMMA ListenKeeps ==
    ASSUME TimerBounds, LightInv, Remembers, NEW t \in WindowTasks, Listen(t) PROVE LightInv'
<1>1. /\ TaskAt(t, "listen") /\ cancel_light_weight_timer([task EXCEPT ![t] = "normal"])
      /\ listening' = (listening \/ (auto /\ window # "none"))
      /\ UNCHANGED <<lightMode, window, recent, auto, setup, focusing, refused>>
  BY DEF Listen, lightConfig, windowEvents
<1>2. TaskMovesTo(t, "listen", "normal") /\ TimersKept /\ slot' = NoOne
  BY <1>1, CancelMoves DEF WindowPhases, Leaving
<1>3. AllTasksFollow("listen", "normal")
  BY <1>2, EachFollows
<1>4. Someone(Shown)
  BY <1>2 DEF TaskMovesTo, Someone, Shown
<1>5. ModeKept
  BY <1>1, <1>3, <1>4 DEF AllTasksFollow, TasksFollow, ModeKept, Showing, Away, Shown, Destroying, Entered
<1>6. TypesLeft /\ task' \in [WindowTasks -> WindowPhases]
  BY <1>1, <1>2 DEF TypesLeft, LightInv, WindowTypes, LightweightTypeOK, TaskMovesTo
<1> QED BY <1>2, <1>5, <1>6, KeptModeKeeps

\* A window is shown: refused, built, in front already, or brought there.
LEMMA ShowSays ==
    ASSUME LightInv, NEW t \in WindowTasks, NEW at \in WindowPhases, NEW build \in WindowPhases,
           NEW next \in WindowPhases, Show(t, at, build, next)
    PROVE  /\ UNCHANGED <<lightMode, auto, listening, slot, setup>> /\ recent' \in BOOLEAN
           /\ \/ TaskMovesTo(t, at, next) /\ refused' = TRUE /\ UNCHANGED <<window, focusing>>
              \/ TaskMovesTo(t, at, build) /\ window = "none" /\ UNCHANGED <<window, focusing, refused>>
              \/ TaskMovesTo(t, at, next) /\ window = "focused" /\ UNCHANGED <<window, focusing, refused>>
              \/ TaskMovesTo(t, at, next) /\ window # "none" /\ window' = "focused" /\ focusing' = TRUE /\ UNCHANGED refused
<1>1. TaskAt(t, at) /\ UNCHANGED <<lightMode, auto, listening, slot>>
  BY DEF Show, lightConfig
<1>2. CASE Refused(t, next)
  <2>1. TaskTo(t, next) /\ refused' = TRUE /\ UNCHANGED <<window, recent, setup, focusing>>
    BY <1>2 DEF Refused, windowEvents
  <2>2. TaskMovesTo(t, at, next)
    BY <1>1, <2>1, WindowTaskMoves
  <2> QED BY <1>1, <2>1, <2>2 DEF LightInv, WindowTypes
<1>3. CASE ~Refused(t, next)
  <2>1. recent' = TRUE /\ UNCHANGED refused
    BY <1>3 DEF Show
  <2>2. CASE window = "none"
    <3>1. TaskTo(t, build) /\ UNCHANGED <<window, setup, focusing>>
      BY <1>3, <2>2 DEF Show, windowEvents
    <3> QED BY <1>1, <2>1, <2>2, <3>1, WindowTaskMoves
  <2>3. CASE window = "focused"
    <3>1. TaskTo(t, next) /\ UNCHANGED <<window, setup, focusing>>
      BY <1>3, <2>3 DEF Show, windowEvents
    <3> QED BY <1>1, <2>1, <2>3, <3>1, WindowTaskMoves
  <2>4. CASE window # "none" /\ window # "focused"
    <3>1. TaskTo(t, next) /\ window' = "focused" /\ focusing' = TRUE /\ UNCHANGED setup
      BY <1>3, <2>4 DEF Show, activate_window
    <3> QED BY <1>1, <2>1, <2>4, <3>1, WindowTaskMoves
  <2> QED BY <2>2, <2>3, <2>4
<1> QED BY <1>2, <1>3

\* The two places where a window is shown, and what follows there.
LEMMA ShowKeeps ==
    ASSUME LightInv, Remembers, NEW t \in WindowTasks, NEW at, NEW build, NEW next, Show(t, at, build, next),
           \/ at = "show" /\ build = "build" /\ next = "listen"
           \/ at = "show_alone" /\ build = "build_alone" /\ next = "idle"
    PROVE  LightInv'
<1>1. at \in WindowPhases /\ build \in WindowPhases \ {"armed"} /\ next \in WindowPhases \ {"armed"}
  BY DEF WindowPhases, Leaving, Showing
<1>2. /\ UNCHANGED <<lightMode, auto, listening, slot, setup>> /\ recent' \in BOOLEAN
      /\ \/ TaskMovesTo(t, at, next) /\ refused' = TRUE /\ UNCHANGED <<window, focusing>>
         \/ TaskMovesTo(t, at, build) /\ window = "none" /\ UNCHANGED <<window, focusing, refused>>
         \/ TaskMovesTo(t, at, next) /\ window = "focused" /\ UNCHANGED <<window, focusing, refused>>
         \/ TaskMovesTo(t, at, next) /\ window # "none" /\ window' = "focused" /\ focusing' = TRUE /\ UNCHANGED refused
  BY <1>1, ShowSays
<1>3. PICK to \in {build, next} : TaskMovesTo(t, at, to) /\ (to = next => refused' \/ window' # "none")
  <2>1. build # next
    OBVIOUS
  <2>2. CASE TaskMovesTo(t, at, build) /\ window = "none"
    BY <2>1, <2>2
  <2>3. CASE TaskMovesTo(t, at, next) /\ (refused' \/ window' # "none")
    BY <2>3
  <2> QED BY <1>2, <2>2, <2>3
<1>4. AllTasksFollow(at, to)
  BY <1>3, EachFollows
<1>5. ModeKept
  <2>1. (refused => refused') /\ (window' = "none" <=> window = "none")
    BY <1>2
  <2>2. /\ Someone(Showing)' => Someone(Showing)
        /\ Someone(Away) => Someone(Away)'
        /\ Someone(Destroying) => Someone(Destroying)'
        /\ Someone(Entered)' => Someone(Entered)
        /\ Someone(Shown)' => Someone(Shown) \/ to = next
    <3>1. CASE at = "show"
      BY <1>3, <1>4, <3>1 DEF AllTasksFollow, TasksFollow, Showing, Away, Shown, Destroying, Entered
    <3>2. CASE at = "show_alone"
      BY <1>3, <1>4, <3>2 DEF AllTasksFollow, TasksFollow, Showing, Away, Shown, Destroying, Entered
    <3> QED BY <3>1, <3>2
  <2> QED BY <1>2, <1>3, <2>1, <2>2 DEF ModeKept
<1>6. TimersKept
  <2>1. window' = "focused" /\ ~focusing' => window = "focused" /\ ~focusing
    BY <1>2
  <2> QED BY <1>1, <1>2, <1>3, <2>1, SlotKept
<1>7. TypesLeft /\ task' \in [WindowTasks -> WindowPhases]
  BY <1>2, <1>3 DEF TypesLeft, LightInv, WindowTypes, LightweightTypeOK, TaskMovesTo, Existing
<1> QED BY <1>5, <1>6, <1>7, KeptModeKeeps

LEMMA ToggleKeeps ==
    ASSUME LightInv, Remembers, NEW t \in WindowTasks, Toggle(t) PROVE LightInv'
<1>1. TaskAt(t, "toggle") /\ UNCHANGED <<lightMode, auto, listening, slot>>
  BY DEF Toggle, lightConfig
<1>2. /\ recent' \in BOOLEAN /\ setup' \in BOOLEAN /\ focusing' \in BOOLEAN /\ refused' \in BOOLEAN
      /\ window' \in Existing \cup {"none"} /\ (refused => refused') /\ (window' = "none" <=> window = "none")
      /\ window' = "focused" /\ ~focusing' => window = "focused" /\ ~focusing
      /\ \E to \in {"idle", "build_alone"} : TaskTo(t, to)
  <2> USE DEF windowEvents
  <2>1. CASE Refused(t, "idle")
    BY <2>1 DEF Refused, LightInv, WindowTypes, LightweightTypeOK
  <2>2. CASE ~Refused(t, "idle")
    <3>1. recent' = TRUE /\ UNCHANGED refused
      BY <2>2 DEF Toggle
    <3>2. CASE window = "none"
      BY <2>2, <3>1, <3>2 DEF Toggle, LightInv, WindowTypes, LightweightTypeOK
    <3>3. CASE window \in {"shown", "focused"}
      <4>1. TaskTo(t, "idle") /\ window' = "hidden" /\ setup' = (setup \/ listening) /\ UNCHANGED focusing
        BY <2>2, <3>3 DEF Toggle
      <4> QED BY <3>1, <3>3, <4>1 DEF LightInv, WindowTypes, LightweightTypeOK, Existing
    <3>4. CASE window # "none" /\ window \notin {"shown", "focused"}
      <4>1. TaskTo(t, "idle") /\ window' = "focused" /\ focusing' = TRUE /\ UNCHANGED setup
        BY <2>2, <3>4 DEF Toggle, activate_window
      <4> QED BY <3>1, <3>4, <4>1 DEF LightInv, WindowTypes, LightweightTypeOK, Existing
    <3> QED BY <3>2, <3>3, <3>4
  <2> QED BY <2>1, <2>2
<1>3. PICK to \in {"idle", "build_alone"} : TaskTo(t, to)
  BY <1>2
<1>4. TaskMovesTo(t, "toggle", to)
  BY <1>1, <1>3, WindowTaskMoves DEF WindowPhases, Showing
<1>5. AllTasksFollow("toggle", to)
  BY <1>4, EachFollows
<1>6. ModeKept
  <2>1. /\ Someone(Showing)' => Someone(Showing)
        /\ Someone(Away) => Someone(Away)'
        /\ Someone(Destroying) => Someone(Destroying)'
        /\ Someone(Entered)' => Someone(Entered)
        /\ Someone(Shown)' => Someone(Shown)
    BY <1>3, <1>5 DEF AllTasksFollow, TasksFollow, Showing, Away, Shown, Destroying, Entered
  <2> QED BY <1>1, <1>2, <2>1 DEF ModeKept
<1>7. TimersKept
  BY <1>1, <1>2, <1>4, SlotKept DEF WindowPhases, Showing
<1>8. TypesLeft /\ task' \in [WindowTasks -> WindowPhases]
  BY <1>1, <1>2, <1>4 DEF TypesLeft, LightInv, WindowTypes, LightweightTypeOK, TaskMovesTo
<1> QED BY <1>6, <1>7, <1>8, KeptModeKeeps

LEMMA BuildKeeps ==
    ASSUME LightInv, Remembers, NEW t \in WindowTasks, NEW at, NEW next, Build(t, at, next),
           \/ at = "build" /\ next = "listen"
           \/ at = "build_alone" /\ next = "idle"
    PROVE  LightInv'
<1>1. at \in WindowPhases /\ next \in WindowPhases \ {"armed"}
  BY DEF WindowPhases, Leaving, Showing
<1>2. /\ TaskAt(t, at) /\ TaskTo(t, next)
      /\ UNCHANGED <<lightMode, recent, auto, listening, slot, setup, focusing>>
      /\ \/ window = "none" /\ window' = "loading" /\ UNCHANGED refused
         \/ window # "none" /\ UNCHANGED <<window, refused>>
         \/ refused' = TRUE /\ UNCHANGED window
  BY DEF Build, lightConfig, windowEvents
<1>3. TaskMovesTo(t, at, next)
  BY <1>1, <1>2, WindowTaskMoves
<1>4. AllTasksFollow(at, next)
  BY <1>3, EachFollows
<1>5. ModeKept
  <2>1. CASE at = "build"
    BY <1>2, <1>4, <2>1 DEF AllTasksFollow, TasksFollow, ModeKept, Showing, Away, Shown, Destroying, Entered
  <2>2. CASE at = "build_alone"
    <3>1. Someone(Showing)
      BY <1>3, <2>2 DEF TaskMovesTo, Someone, Showing
    <3>2. lightMode # "In" \/ across
      BY <3>1 DEF LightInv, WindowGoes
    <3> QED BY <1>2, <1>4, <2>2, <3>2 DEF AllTasksFollow, TasksFollow, ModeKept, Showing, Away, Shown, Destroying, Entered
  <2> QED BY <2>1, <2>2
<1>6. TimersKept
  <2>1. window' = "focused" /\ ~focusing' => window = "focused" /\ ~focusing
    BY <1>2
  <2> QED BY <1>1, <1>2, <1>3, <2>1, SlotKept
<1>7. TypesLeft /\ task' \in [WindowTasks -> WindowPhases]
  BY <1>2, <1>3 DEF TypesLeft, LightInv, WindowTypes, LightweightTypeOK, TaskMovesTo, Existing
<1> QED BY <1>5, <1>6, <1>7, KeptModeKeeps

-----------------------------------------------------------------------------
(* The window: steps beside the tasks, and the theorems *)

\* A step of no task: at most it stops the timer.
RestStep ==
    /\ Rests /\ TimersKept /\ TypesLeft
    /\ UNCHANGED <<lightMode, refused>> /\ (window' = "none" <=> window = "none")

LEMMA RestStepKeeps == ASSUME LightInv, Remembers, RestStep PROVE LightInv'
<1>1. ModeKept
  <2>1. /\ Someone(Showing)' <=> Someone(Showing)
        /\ Someone(Away)' <=> Someone(Away)
        /\ Someone(Destroying)' <=> Someone(Destroying)
        /\ Someone(Entered)' <=> Someone(Entered)
        /\ Someone(Shown)' <=> Someone(Shown)
    BY RestKeepsPhases DEF RestStep, Showing, Away, Shown, Destroying, Entered
  <2> QED BY <2>1 DEF RestStep, ModeKept
<1> QED BY <1>1, KeptModeKeeps DEF RestStep, Rests

LEMMA UnchangedRests == ASSUME LightInv, UNCHANGED task PROVE Rests
BY DEF Rests, TaskSettles, LightInv, WindowTypes, LightweightTypeOK

LEMMA WindowEventsKeep ==
    ASSUME LightInv, Remembers,
           (\E native \in BOOLEAN : Close(native)) \/ Focus \/ PatchEnds \/ Debounced \/ PageLoaded
    PROVE  LightInv'
<1>1. UNCHANGED <<lightMode, listening, slot, task, refused>>
  BY DEF Close, Focus, PatchEnds, Debounced, PageLoaded
<1>2. /\ recent' \in BOOLEAN /\ auto' \in BOOLEAN /\ setup' \in BOOLEAN /\ focusing' \in BOOLEAN
      /\ window' \in Existing \cup {"none"} /\ (window' = "none" <=> window = "none")
      /\ window' = "focused" /\ ~focusing' => window = "focused" /\ ~focusing
  <2> USE DEF windowEvents, lightConfig, LightInv, WindowTypes, LightweightTypeOK, Existing
  <2>1. ASSUME NEW native \in BOOLEAN, Close(native)
        PROVE  /\ recent' \in BOOLEAN /\ auto' \in BOOLEAN /\ setup' \in BOOLEAN /\ focusing' \in BOOLEAN
               /\ window' \in Existing \cup {"none"} /\ (window' = "none" <=> window = "none")
               /\ window' = "focused" /\ ~focusing' => window = "focused" /\ ~focusing
    BY <2>1 DEF Close
  <2>2. CASE Focus
    BY <2>2 DEF Focus
  <2>3. CASE PatchEnds
    BY <2>3 DEF PatchEnds
  <2>4. CASE Debounced
    BY <2>4 DEF Debounced
  <2>5. CASE PageLoaded
    BY <2>5 DEF PageLoaded
  <2> QED BY <2>1, <2>2, <2>3, <2>4, <2>5
<1>3. Rests
  BY <1>1, UnchangedRests
<1>4. TimersKept
  BY <1>1, <1>2, <1>3, SlotKept
<1>5. TypesLeft
  BY <1>1, <1>2 DEF TypesLeft, LightInv, WindowTypes, LightweightTypeOK
<1> QED BY <1>1, <1>2, <1>3, <1>4, <1>5, RestStepKeeps DEF RestStep

\* The timer is cancelled and nothing else happens to the tasks.
LEMMA CancelRests ==
    ASSUME TimerBounds, LightInv, cancel_light_weight_timer(task)
    PROVE  Rests /\ TimersKept /\ slot' = NoOne
<1>1. task \in [WindowTasks -> WindowPhases]
  BY DEF LightInv, WindowTypes, LightweightTypeOK
<1>2. /\ slot' = NoOne /\ task' \in [WindowTasks -> WindowPhases]
      /\ \A s \in WindowTasks : /\ task'[s] # "armed"
                                /\ task'[s] = task[s] \/ (task[s] = "armed" /\ task'[s] = "idle")
  BY <1>1, CancelStops
<1>3. Rests
  BY <1>2 DEF Rests, TaskSettles
<1> QED BY <1>2, <1>3, StoppedKept

LEMMA PatchEffectKeeps ==
    ASSUME TimerBounds, LightInv, Remembers, PatchEffect PROVE LightInv'
<1>1. UNCHANGED <<lightMode, window, recent, auto, setup, focusing, refused>>
  BY DEF PatchEffect, windowEvents
<1>2. CASE auto
  <2>1. cancel_light_weight_timer(task) /\ listening' = FALSE
    BY <1>2 DEF PatchEffect
  <2>2. Rests /\ TimersKept /\ slot' = NoOne
    BY <2>1, CancelRests
  <2>3. TypesLeft
    BY <1>1, <2>1, <2>2 DEF TypesLeft, LightInv, WindowTypes, LightweightTypeOK
  <2> QED BY <1>1, <2>2, <2>3, RestStepKeeps DEF RestStep
<1>3. CASE ~auto
  <2>1. listening' = (listening \/ window # "none") /\ UNCHANGED <<slot, task>>
    BY <1>3 DEF PatchEffect
  <2>2. Rests
    BY <2>1, UnchangedRests
  <2>3. TimersKept
    BY <1>1, <2>1, <2>2, SlotKept
  <2>4. TypesLeft
    BY <1>1, <2>1 DEF TypesLeft, LightInv, WindowTypes, LightweightTypeOK
  <2> QED BY <1>1, <2>2, <2>3, <2>4, RestStepKeeps DEF RestStep
<1> QED BY <1>2, <1>3

\* A window in front whose handlers do not listen has no timer, or the history says so.
LEMMA FocusHandledKeeps ==
    ASSUME TimerBounds, LightInv, Remembers, FocusHandled PROVE LightInv'
<1>1. focusing' = FALSE /\ UNCHANGED <<lightMode, window, recent, auto, listening, setup, refused>>
  BY DEF FocusHandled, lightConfig
<1>2. CASE listening
  <2>1. cancel_light_weight_timer(task)
    BY <1>2 DEF FocusHandled, FocusStops
  <2>2. Rests /\ TimersKept /\ slot' = NoOne
    BY <2>1, CancelRests
  <2>3. TypesLeft
    BY <1>1, <2>2 DEF TypesLeft, LightInv, WindowTypes, LightweightTypeOK
  <2> QED BY <1>1, <2>2, <2>3, RestStepKeeps DEF RestStep
<1>3. CASE ~listening
  <2>1. UNCHANGED <<slot, task>>
    BY <1>3 DEF FocusHandled, FocusStops, KeepTimer
  <2>2. Rests
    BY <2>1, UnchangedRests
  <2>3. \A s \in WindowTasks : task'[s] = "armed" => slot' = s
    BY <2>1 DEF LightInv, TimerFits
  <2>4. window' = "focused" => ~Someone(Armed)' \/ unheard'
    <3>1. window' = "focused" /\ ~unheard' => slot' = NoOne
      BY <1>1, <1>3 DEF Remembers
    <3>2. slot' = NoOne => ~Someone(Armed)'
      BY <2>3 DEF TimerBounds, Someone, Armed
    <3> QED BY <3>1, <3>2
  <2>5. TimersKept
    BY <2>3, <2>4 DEF TimersKept
  <2>6. TypesLeft
    BY <1>1, <2>1 DEF TypesLeft, LightInv, WindowTypes, LightweightTypeOK
  <2> QED BY <1>1, <2>2, <2>5, <2>6, RestStepKeeps DEF RestStep
<1> QED BY <1>2, <1>3

LEMMA StartIsOrderly == ASSUME TimerBounds, LightweightInit PROVE LightInv
<1>1. task = [t \in WindowTasks |-> "idle"] /\ "idle" \in WindowPhases
  BY DEF LightweightInit, WindowPhases
<1>2. /\ ~Someone(Showing) /\ ~Someone(Away) /\ ~Someone(Shown) /\ ~Someone(Entered) /\ ~Someone(Armed)
      /\ ~Someone(Entering)
  BY <1>1 DEF Someone, Showing, Away, Shown, Entered, Destroying, Armed, Entering
<1>3. WindowTypes
  <2>1. lightMode \in Modes /\ window \in Existing \cup {"none"}
    BY DEF LightweightInit, Modes, Existing
  <2>2. listening \in BOOLEAN /\ auto \in BOOLEAN
    BY DEF LightweightInit
  <2> QED BY <1>1, <2>1, <2>2 DEF LightweightInit, WindowTypes, LightweightTypeOK
<1>4. lightMode = (IF window = "none" THEN "In" ELSE "Normal") /\ slot = NoOne /\ setup = FALSE
  BY DEF LightweightInit
<1>5. MeetingsKnown
  BY <1>2 DEF MeetingsKnown
<1>6. ModeEnds /\ WindowGoes /\ WindowComes
  BY <1>2, <1>4 DEF ModeEnds, WindowGoes, WindowComes
<1>7. TimerFits
  BY <1>1, <1>2, <1>4 DEF TimerFits
<1> QED BY <1>3, <1>5, <1>6, <1>7 DEF LightInv

(* Whoever enters, leaves, shows or closes beside whom: the mode that is being
   left has a task that stores its end, the mode is entered only to destroy the
   window, and a timer that sleeps is the one that the focus finds. *)
THEOREM WindowsAreOrderly == TimerBounds => (LightSpec => []LightInv)
<1> SUFFICES ASSUME TimerBounds PROVE LightSpec => []LightInv
  OBVIOUS
<1>1. LightweightInit => LightInv
  BY StartIsOrderly
<1>2. LightInv /\ [LightweightNext]_lightweightVars => LightInv'
  <2> SUFFICES ASSUME LightInv, [LightweightNext]_lightweightVars PROVE LightInv'
    OBVIOUS
  <2>1. CASE LightweightNext
    <3>1. Remembers /\ LightweightStep
      BY <2>1, HistoryRemembers DEF LightweightNext, LightHistory
    <3>2. ASSUME NEW t \in WindowTasks,
                 \/ AskWindow(t) \/ SetTimer(t) \/ Expire(t) \/ Forget(t)
                 \/ entry_lightweight_mode(t) \/ Leave(t) \/ exit_lightweight_mode(t)
                 \/ Toggle(t) \/ Show(t, "show_alone", "build_alone", "idle") \/ Build(t, "build_alone", "idle")
          PROVE  LightInv'
      <4>1. CASE AskWindow(t) \/ SetTimer(t) \/ Expire(t) \/ Forget(t)
        BY <3>1, <4>1, AskWindowKeeps, SetTimerKeeps, ExpireKeeps, ForgetKeeps
      <4>2. CASE entry_lightweight_mode(t)
        BY <3>1, <4>2, EnterKeeps, StoreInKeeps, DestroyKeeps, CancelTimerKeeps DEF entry_lightweight_mode
      <4>3. CASE Leave(t) \/ Toggle(t)
        BY <3>1, <4>3, LeaveKeeps, ToggleKeeps
      <4>4. CASE exit_lightweight_mode(t)
        <5>1. CASE StoreMode(t, "exiting", "Exiting", "show")
          BY <3>1, <5>1, StoreExitingKeeps
        <5>2. CASE Show(t, "show", "build", "listen")
          BY <3>1, <5>2, ShowKeeps
        <5>3. CASE Build(t, "build", "listen")
          BY <3>1, <5>3, BuildKeeps
        <5>4. CASE Listen(t) \/ StoreMode(t, "normal", "Normal", "idle")
          BY <3>1, <5>4, ListenKeeps, StoreNormalKeeps
        <5> QED BY <4>4, <5>1, <5>2, <5>3, <5>4 DEF exit_lightweight_mode
      <4>5. CASE Show(t, "show_alone", "build_alone", "idle")
        BY <3>1, <4>5, ShowKeeps
      <4>6. CASE Build(t, "build_alone", "idle")
        BY <3>1, <4>6, BuildKeeps
      <4> QED BY <3>2, <4>1, <4>2, <4>3, <4>4, <4>5, <4>6
    <3>3. CASE (\E native \in BOOLEAN : Close(native)) \/ Focus \/ PatchEnds \/ Debounced \/ PageLoaded
      BY <3>1, <3>3, WindowEventsKeep
    <3>4. CASE FocusHandled \/ PatchEffect
      BY <3>1, <3>4, FocusHandledKeeps, PatchEffectKeeps
    <3> QED BY <3>1, <3>2, <3>3, <3>4 DEF LightweightStep
  <2>2. CASE UNCHANGED lightweightVars
    <3>1. UNCHANGED <<lightMode, window, recent, auto, listening, slot, setup, focusing, task, refused, across, raced, unheard>>
      BY <2>2 DEF lightweightVars, lightConfig, windowEvents, windowHistory
    <3> QED BY <3>1 DEF LightInv, WindowTypes, LightweightTypeOK, MeetingsKnown, ModeEnds, WindowGoes, WindowComes,
                        TimerFits, Someone
  <2> QED BY <2>1, <2>2
<1> QED BY <1>1, <1>2, PTL DEF LightSpec

(* When every task is done, the mode is no half-left one, a window is there
   unless the mode is on, and the window in front is not about to go. *)
THEOREM WindowAlwaysFollows == TimerBounds => (LightSpec => []WindowFollowsMode)
<1> SUFFICES ASSUME TimerBounds PROVE LightSpec => []WindowFollowsMode
  OBVIOUS
<1>1. LightSpec => []LightInv
  BY WindowsAreOrderly
<1>2. LightInv => WindowFollowsMode
  <2> SUFFICES ASSUME LightInv PROVE WindowFollowsMode
    OBVIOUS
  <2>1. WindowsQuiet => ~Someone(Away) /\ ~Someone(Destroying)
    BY DEF WindowsQuiet, Someone, Away, Destroying
  <2>2. NeverStuckExiting
    BY <2>1 DEF NeverStuckExiting, LightInv, ModeEnds
  <2>3. NoWindowInLightweight
    BY <2>1 DEF NoWindowInLightweight, LightInv, WindowGoes
  <2>4. WindowComesBack
    BY DEF WindowComesBack, LightInv, WindowComes
  <2>5. OpenWindowStays
    BY DEF OpenWindowStays, LightInv, TimerFits, Someone, Armed, WindowTasks
  <2> QED BY <2>2, <2>3, <2>4, <2>5 DEF WindowFollowsMode, LightInv, WindowTypes
<1> QED BY <1>1, <1>2, PTL

-----------------------------------------------------------------------------
(* The hotkeys: the inductive invariant *)

HotkeysSpec == HotkeysInit /\ [][HotkeysNext]_hotkeyVars

\* The keys of the system are none of the user's, and the startup is no handler of the focus.
KeyBounds == System \notin Keys /\ Startup \notin Handlers

HandlerPhases == {"idle", "gained", "lost", "reset", "init", "bind"}
HandlerStates == [at : HandlerPhases, list : Lists \cup {NoKey}, todo : SUBSET Keys]

KeyTypes ==
    /\ HotkeysTypeOK /\ met \in BOOLEAN /\ focused \in BOOLEAN /\ unloaded \in BOOLEAN
    /\ bound = [k \in DOMAIN bound |-> bound[k]]
    /\ handler \in [HotkeyTasks -> HandlerStates]
    /\ \A t \in HotkeyTasks : HandlerAt(t, "bind") => handler[t].list \in Lists
    /\ update.at \in {"idle", "bind", "recorded"} /\ update.todo \subseteq Keys
    /\ update.at # "idle" => update.list \subseteq Keys /\ update.todo \subseteq update.list
    /\ update.at = "idle" => stagedKeys = keySettings

\* One handler at a time, of the focus as it is, and none beside a patch.
HandlersFit ==
    /\ \A t, u \in Handlers : ~HandlerAt(t, "idle") /\ ~HandlerAt(u, "idle") => t = u
    /\ update.at # "idle" => focused /\ \A t \in HotkeyTasks : HandlerAt(t, "idle")
    /\ ~HandlerAt(Startup, "idle") => keySettings.global /\ handler[Startup].at \in {"init", "bind"}
    /\ \A t \in Handlers :
        /\ handler[t].at \in {"gained", "init", "bind"} => focused
        /\ handler[t].at \in {"lost", "reset"} => ~focused
        /\ handler[t].at \in {"reset", "init", "bind"} => ~keySettings.global
    /\ \A t \in HotkeyTasks : HandlerAt(t, "bind") => handler[t].list = keySettings.hotkeys

\* No handler is about to change what the system holds.
Rested(t) == HandlerAt(t, "idle") \/ (keySettings.global /\ handler[t].at \in {"gained", "lost"})
Idling == update.at = "idle" /\ \A t \in HotkeyTasks : Rested(t)

\* The keys the system is to hold, and a handler that finds none of them.
Held == IF keySettings.global \/ focused THEN recorded ELSE NoKeys
Reaching(t) == HandlerAt(t, "init") \/ (HandlerAt(t, "gained") /\ ~keySettings.global)

KeysFit ==
    /\ Idling => \A k \in Keys \ lost : bound[k] = Held[k]
    /\ \A t \in HotkeyTasks : Reaching(t) => \A k \in Keys \ lost : bound[k] = NoKey
    /\ \A t \in HotkeyTasks : HandlerAt(t, "bind") =>
        \A k \in Keys \ lost : k \in handler[t].todo \/ bound[k] = handler[t].list[k]

\* What a patch has bound already, and what it need not touch.
UpdateFits ==
    /\ update.at = "bind" =>
        /\ \A k \in update.list \ update.todo : bound[k] = stagedKeys.hotkeys[k]
        /\ \A k \in Keys \ (lost \cup update.list) : bound[k] = recorded[k] /\ stagedKeys.hotkeys[k] = recorded[k]
    /\ update.at = "recorded" => recorded = stagedKeys.hotkeys /\ \A k \in Keys \ lost : bound[k] = recorded[k]

SystemFits ==
    (\A t \in HotkeyTasks : handler[t].at \notin {"gained", "lost"}) => bound[System] = IF focused THEN System ELSE NoKey

RecordFits == ~unloaded => update.at = "recorded" \/ recorded = keySettings.hotkeys

HotkeysFit == HandlersFit /\ KeysFit /\ UpdateFits /\ SystemFits /\ RecordFits

KeyInvariant == KeyTypes /\ (~met => HotkeysFit)

-----------------------------------------------------------------------------
(* The hotkeys: a handler moves *)

HandlerMoves(t, place) ==
    /\ handler' \in [HotkeyTasks -> HandlerStates] /\ handler'[t].at = place
    /\ \A u \in HotkeyTasks \ {t} : handler'[u] = handler[u]

LEMMA HandlerIsMoved ==
    ASSUME KeyTypes, NEW t \in HotkeyTasks, NEW place \in HandlerPhases, HandlerTo(t, place)
    PROVE  HandlerMoves(t, place)
<1>1. [IdleKeys EXCEPT !.at = place] = [at |-> place, list |-> NoKey, todo |-> {}]
  BY DEF IdleKeys
<1>2. [at |-> place, list |-> NoKey, todo |-> {}] \in HandlerStates
  BY DEF HandlerStates
<1>3. handler' = [handler EXCEPT ![t] = [at |-> place, list |-> NoKey, todo |-> {}]]
  BY <1>1 DEF HandlerTo
<1> QED BY <1>2, <1>3 DEF KeyTypes, HandlerMoves

\* While one handler loads the keys, the others stay away from them.
LEMMA LoadsAlone ==
    ASSUME KeyBounds, KeyTypes, HandlersFit, NEW t \in HotkeyTasks, handler[t].at \in {"init", "bind"}
    PROVE  /\ update.at = "idle" /\ stagedKeys = keySettings /\ (keySettings.global \/ focused)
           /\ \A u \in HotkeyTasks \ {t} : Rested(u)
<1>1. update.at = "idle" /\ stagedKeys = keySettings
  BY DEF KeyTypes, HandlersFit, HandlerAt
<1>2. CASE t = Startup
  <2>1. keySettings.global
    BY <1>2 DEF HandlersFit, HandlerAt
  <2>2. ASSUME NEW u \in HotkeyTasks \ {t} PROVE Rested(u)
    <3>1. u \in Handlers
      BY <1>2 DEF HotkeyTasks
    <3>2. handler[u].at \in HandlerPhases
      BY DEF KeyTypes, HandlerStates
    <3>3. handler[u].at \notin {"reset", "init", "bind"}
      BY <2>1, <3>1 DEF HandlersFit
    <3> QED BY <2>1, <3>2, <3>3 DEF Rested, HandlerAt, HandlerPhases
  <2> QED BY <1>1, <2>1, <2>2
<1>3. CASE t \in Handlers
  <2>1. focused /\ ~keySettings.global
    BY <1>3 DEF HandlersFit
  <2>2. ASSUME NEW u \in HotkeyTasks \ {t} PROVE Rested(u)
    <3>1. CASE u = Startup
      BY <2>1, <3>1 DEF HandlersFit, Rested
    <3>2. CASE u \in Handlers
      BY <1>3, <3>2 DEF HandlersFit, HandlerAt, Rested
    <3> QED BY <3>1, <3>2 DEF HotkeyTasks
  <2> QED BY <1>1, <2>1, <2>2
<1> QED BY <1>2, <1>3 DEF HotkeyTasks

\* A patch finds the keys as recorded, and nobody beside it.
LEMMA PatchedAlone ==
    ASSUME KeyTypes, HandlersFit, update.at # "idle"
    PROVE  focused /\ \A t \in HotkeyTasks : handler[t].at = "idle"
BY DEF HandlersFit, HandlerAt

-----------------------------------------------------------------------------
(* The hotkeys: the types *)

LEMMA KeyTypesKept ==
    ASSUME KeyTypes, HotkeysNext PROVE KeyTypes'
<1>0. /\ keySettings \in [global : BOOLEAN, hotkeys : Lists] /\ stagedKeys \in [global : BOOLEAN, hotkeys : Lists]
      /\ recorded \in Lists \cup {NoKeys} /\ DOMAIN bound = Keys \cup {System} /\ lost \subseteq Keys
  BY DEF KeyTypes, HotkeysTypeOK
<1>1. ASSUME NEW t \in HotkeyTasks, Event(t) PROVE KeyTypes'
  <2>1. PICK place \in {"gained", "lost"} : HandlerTo(t, place)
    BY <1>1 DEF Event
  <2>2. HandlerMoves(t, place)
    BY <2>1, HandlerIsMoved DEF HandlerPhases
  <2>3. /\ UNCHANGED <<keySettings, stagedKeys, recorded, bound, update, lost, unloaded>>
        /\ met' \in BOOLEAN /\ focused' \in BOOLEAN
    BY <1>1 DEF Event, KeyTypes
  <2> QED BY <2>2, <2>3 DEF KeyTypes, HotkeysTypeOK, HandlerMoves, HandlerAt, HandlerStates, HandlerPhases
<1>2. ASSUME NEW t \in HotkeyTasks, Gained(t) \/ Lost(t) PROVE KeyTypes'
  <2>1. PICK place \in {"idle", "init", "reset"} : HandlerTo(t, place)
    BY <1>2 DEF Gained, Lost
  <2>2. HandlerMoves(t, place)
    BY <2>1, HandlerIsMoved DEF HandlerPhases
  <2>3. /\ UNCHANGED <<keySettings, stagedKeys, recorded, focused, update, met, lost, unloaded>>
        /\ \E f : bound' = [bound EXCEPT ![System] = f]
    BY <1>2 DEF Gained, Lost, register_hotkey_with_function
  <2>4. DOMAIN bound' = DOMAIN bound /\ bound' = [k \in DOMAIN bound' |-> bound'[k]]
    BY <2>3
  <2> QED BY <2>2, <2>3, <2>4 DEF KeyTypes, HotkeysTypeOK, HandlerMoves, HandlerAt, HandlerStates, HandlerPhases
<1>3. ASSUME NEW t \in HotkeyTasks, Reset(t) PROVE KeyTypes'
  <2>1. HandlerMoves(t, "idle")
    BY <1>3, HandlerIsMoved DEF Reset, HandlerPhases
  <2>2. /\ UNCHANGED <<keySettings, stagedKeys, recorded, focused, update>>
        /\ bound' = [k \in DOMAIN bound |-> NoKey] /\ lost' = {} /\ met' \in BOOLEAN /\ unloaded' \in BOOLEAN
    BY <1>3 DEF Reset, unregister_all, KeyTypes
  <2> QED BY <2>1, <2>2 DEF KeyTypes, HotkeysTypeOK, HandlerMoves, HandlerAt, HandlerStates, HandlerPhases
<1>4. ASSUME NEW t \in HotkeyTasks, init(t) PROVE KeyTypes'
  <2>1. /\ UNCHANGED <<keySettings, stagedKeys, recorded, bound, focused, update, met, lost, unloaded>>
        /\ handler' = [handler EXCEPT ![t] = [at |-> "bind", list |-> stagedKeys.hotkeys,
                                              todo |-> Configured(stagedKeys.hotkeys)]]
    BY <1>4 DEF init
  <2>2. [at |-> "bind", list |-> stagedKeys.hotkeys, todo |-> Configured(stagedKeys.hotkeys)] \in HandlerStates
    BY <1>0 DEF HandlerStates, HandlerPhases, Configured
  <2>3. handler' \in [HotkeyTasks -> HandlerStates]
    BY <2>1, <2>2 DEF KeyTypes
  <2>4. ASSUME NEW u \in HotkeyTasks, HandlerAt(u, "bind")' PROVE handler'[u].list \in Lists
    BY <1>0, <2>1, <2>4 DEF KeyTypes, HandlerAt
  <2>5. \A u \in HotkeyTasks : handler'[u].at \in HandlerPhases
    BY <2>3 DEF HandlerStates
  <2> QED BY <2>1, <2>3, <2>4, <2>5 DEF KeyTypes, HotkeysTypeOK, HandlerPhases
<1>5. ASSUME NEW t \in HotkeyTasks, BindNext(t) PROVE KeyTypes'
  <2>1. PICK k \in handler[t].todo :
            /\ handler' = [handler EXCEPT ![t].todo = @ \ {k}]
            /\ \/ register_hotkey_with_function(k, handler[t].list[k]) /\ lost' = lost \ {k}
               \/ Refuse(k) /\ lost' = lost \cup {k}
    BY <1>5 DEF BindNext
  <2>2. UNCHANGED <<keySettings, stagedKeys, recorded, focused, update, met, unloaded>>
    BY <1>5 DEF BindNext
  <2>3. k \in Keys
    BY <2>1 DEF KeyTypes, HandlerStates
  <2>4. DOMAIN bound' = DOMAIN bound /\ bound' = [j \in DOMAIN bound' |-> bound'[j]]
    BY <2>1 DEF register_hotkey_with_function, Refuse, KeyTypes
  <2>5. handler' \in [HotkeyTasks -> HandlerStates]
    BY <2>1 DEF KeyTypes, HandlerStates
  <2>6. ASSUME NEW u \in HotkeyTasks PROVE handler'[u].at = handler[u].at /\ handler'[u].list = handler[u].list
    BY <2>1 DEF KeyTypes, HandlerStates
  <2>7. \A u \in HotkeyTasks : handler'[u].at \in HandlerPhases
    BY <2>5 DEF HandlerStates
  <2>8. lost' \subseteq Keys
    BY <1>0, <2>1, <2>3
  <2> QED BY <2>2, <2>4, <2>5, <2>6, <2>7, <2>8 DEF KeyTypes, HotkeysTypeOK, HandlerPhases, HandlerAt
<1>6. ASSUME NEW t \in HotkeyTasks, RecordKeys(t) PROVE KeyTypes'
  <2>1. HandlerMoves(t, "idle")
    BY <1>6, HandlerIsMoved DEF RecordKeys, HandlerPhases
  <2>2. /\ UNCHANGED <<keySettings, stagedKeys, bound, focused, update, met, lost>>
        /\ recorded' \in Lists /\ unloaded' = FALSE
    BY <1>6 DEF RecordKeys, KeyTypes
  <2> QED BY <2>1, <2>2 DEF KeyTypes, HotkeysTypeOK, HandlerMoves, HandlerAt, HandlerStates, HandlerPhases
<1>7. ASSUME StageKeys PROVE KeyTypes'
  <2>1. PICK new \in [global : BOOLEAN, hotkeys : Lists] :
            /\ stagedKeys' = new /\ Unregister(get_diff(recorded, new.hotkeys))
            /\ update' = [at |-> "bind", list |-> get_diff(recorded, new.hotkeys),
                          todo |-> get_diff(recorded, new.hotkeys) \cap Configured(new.hotkeys)]
    BY <1>7 DEF StageKeys
  <2>2. UNCHANGED <<keySettings, recorded, focused, handler, lost, unloaded>> /\ met' \in BOOLEAN
    BY <1>7 DEF StageKeys, KeyTypes
  <2>3. DOMAIN bound' = DOMAIN bound /\ bound' = [k \in DOMAIN bound' |-> bound'[k]]
    BY <2>1 DEF Unregister
  <2>4. get_diff(recorded, new.hotkeys) \subseteq Keys
    BY DEF get_diff
  <2> QED BY <2>1, <2>2, <2>3, <2>4 DEF KeyTypes, HotkeysTypeOK, HandlerAt
<1>8. ASSUME BindNew PROVE KeyTypes'
  <2>1. PICK k \in update.todo : /\ register_hotkey_with_function(k, stagedKeys.hotkeys[k])
                                 /\ update' = [update EXCEPT !.todo = @ \ {k}]
    BY <1>8 DEF BindNew
  <2>2. UNCHANGED <<keySettings, stagedKeys, recorded, focused, handler, met, lost, unloaded>> /\ update.at = "bind"
    BY <1>8 DEF BindNew
  <2>3. DOMAIN bound' = DOMAIN bound /\ bound' = [j \in DOMAIN bound' |-> bound'[j]]
    BY <2>1 DEF register_hotkey_with_function
  <2> QED BY <2>1, <2>2, <2>3 DEF KeyTypes, HotkeysTypeOK, HandlerAt
<1>9. ASSUME GiveUpKeys PROVE KeyTypes'
  <2>1. PICK k \in update.todo : Refuse(k)
    BY <1>9 DEF GiveUpKeys
  <2>2. /\ UNCHANGED <<keySettings, recorded, focused, handler, met, unloaded>> /\ update.at = "bind"
        /\ stagedKeys' = keySettings /\ update' = IdleKeys /\ lost' = lost \cup update.list
    BY <1>9 DEF GiveUpKeys
  <2>3. DOMAIN bound' = DOMAIN bound /\ bound' = [j \in DOMAIN bound' |-> bound'[j]]
    BY <2>1 DEF Refuse, KeyTypes
  <2>4. lost' \subseteq Keys
    BY <1>0, <2>2 DEF KeyTypes
  <2> QED BY <2>2, <2>3, <2>4 DEF KeyTypes, HotkeysTypeOK, HandlerAt, IdleKeys
<1>10. ASSUME RecordNew PROVE KeyTypes'
  <2>1. /\ UNCHANGED <<keySettings, stagedKeys, bound, focused, handler, met, unloaded>> /\ update.at = "bind"
        /\ recorded' = stagedKeys.hotkeys /\ update' = [update EXCEPT !.at = "recorded"] /\ lost' = lost \ update.list
    BY <1>10 DEF RecordNew
  <2> QED BY <1>0, <2>1 DEF KeyTypes, HotkeysTypeOK, HandlerAt
<1>11. ASSUME EndKeyPatch PROVE KeyTypes'
  <2>1. /\ UNCHANGED <<recorded, bound, focused, handler, met, lost>> /\ update' = IdleKeys /\ unloaded' \in BOOLEAN
        /\ stagedKeys' = keySettings' /\ keySettings' \in {keySettings, stagedKeys}
    BY <1>11 DEF EndKeyPatch
  <2> QED BY <1>0, <2>1 DEF KeyTypes, HotkeysTypeOK, HandlerAt, IdleKeys
<1> QED BY <1>1, <1>2, <1>3, <1>4, <1>5, <1>6, <1>7, <1>8, <1>9, <1>10, <1>11 DEF HotkeysNext

-----------------------------------------------------------------------------
(* The hotkeys: the focus *)

LEMMA EventFits ==
    ASSUME KeyBounds, KeyTypes, HotkeysFit, NEW t \in HotkeyTasks, Event(t), ~met' PROVE HotkeysFit'
<1>1. /\ t \in Handlers /\ focused' = ~focused /\ HandlerTo(t, IF focused' THEN "gained" ELSE "lost")
      /\ UNCHANGED <<keySettings, stagedKeys, recorded, bound, update, lost, unloaded>>
  BY DEF Event
<1>2. update.at = "idle" /\ \A u \in Handlers : handler[u].at = "idle"
  <2>1. BusyHandlers \ {Startup} = {} /\ update.at = "idle"
    BY DEF Event
  <2> QED BY <2>1 DEF BusyHandlers, HotkeyTasks, HandlerAt, KeyBounds
<1>3. PICK place \in {"gained", "lost"} : HandlerMoves(t, place) /\ (focused' <=> place = "gained")
  <2>1. (IF focused' THEN "gained" ELSE "lost") \in HandlerPhases
    BY DEF HandlerPhases
  <2>2. HandlerMoves(t, IF focused' THEN "gained" ELSE "lost")
    BY <1>1, <2>1, HandlerIsMoved
  <2> QED BY <2>2
<1>4. t # Startup
  BY <1>1 DEF KeyBounds
<1>5. HandlersFit'
  BY <1>1, <1>2, <1>3, <1>4 DEF HotkeysFit, HandlersFit, HandlerMoves, HandlerAt, HotkeyTasks
<1>6. KeysFit'
  <2>1. ASSUME Idling' PROVE Idling /\ keySettings.global
    BY <1>1, <1>2, <1>3, <2>1 DEF Idling, Rested, HandlerMoves, HandlerAt
  <2>2. ASSUME Idling' PROVE \A k \in Keys \ lost : bound[k] = Held'[k]
    BY <1>1, <2>1, <2>2 DEF HotkeysFit, KeysFit, Held
  <2>3. ASSUME NEW u \in HotkeyTasks, Reaching(u)' PROVE \A k \in Keys \ lost : bound[k] = NoKey
    <3>1. CASE u = t
      <4>1. ~keySettings.global /\ ~focused
        BY <1>1, <1>3, <2>3, <3>1 DEF Reaching, HandlerMoves, HandlerAt
      <4>2. handler[Startup].at = "idle"
        BY <4>1 DEF HotkeysFit, HandlersFit, HandlerAt
      <4>3. Idling
        BY <1>2, <4>2 DEF Idling, Rested, HotkeyTasks, HandlerAt
      <4> QED BY <4>1, <4>3 DEF HotkeysFit, KeysFit, Held, NoKeys
    <3>2. CASE u # t
      <4>1. Reaching(u)
        BY <1>1, <1>3, <2>3, <3>2 DEF Reaching, HandlerMoves, HandlerAt
      <4> QED BY <4>1 DEF HotkeysFit, KeysFit
    <3> QED BY <3>1, <3>2
  <2>4. ASSUME NEW u \in HotkeyTasks, HandlerAt(u, "bind")' PROVE handler'[u] = handler[u] /\ HandlerAt(u, "bind")
    BY <1>3, <2>4 DEF HandlerMoves, HandlerAt
  <2> QED BY <1>1, <2>2, <2>3, <2>4 DEF HotkeysFit, KeysFit
<1>7. UpdateFits' /\ SystemFits' /\ RecordFits'
  BY <1>1, <1>2, <1>3 DEF HotkeysFit, UpdateFits, SystemFits, RecordFits, HandlerMoves, HandlerAt
<1> QED BY <1>5, <1>6, <1>7 DEF HotkeysFit

\* The handler of the focus takes care of the system's keys, and goes on to the user's if they are not global.
LEMMA SystemKeysFit ==
    ASSUME KeyBounds, KeyTypes, HotkeysFit, NEW t \in HotkeyTasks, Gained(t) \/ Lost(t), ~met' PROVE HotkeysFit'
<1>1. /\ UNCHANGED <<keySettings, stagedKeys, recorded, focused, update, lost, unloaded>>
      /\ \A k \in Keys : bound'[k] = bound[k]
  BY DEF Gained, Lost, register_hotkey_with_function, KeyBounds, KeyTypes, HotkeysTypeOK
<1>2. t \in Handlers
  BY DEF Gained, Lost, HotkeysFit, HandlersFit, HandlerAt, HotkeyTasks
<1>3. PICK place \in {"idle", "init", "reset"} :
            /\ HandlerMoves(t, place)
            /\ (place = "idle") = keySettings.global
            /\ place = "init" => handler[t].at = "gained"
            /\ place = "reset" => handler[t].at = "lost"
            /\ handler[t].at \in {"gained", "lost"}
            /\ bound'[System] = IF handler[t].at = "gained" THEN System ELSE NoKey
  <2>1. System \in DOMAIN bound
    BY DEF KeyTypes, HotkeysTypeOK
  <2>2. keySettings.global \in BOOLEAN
    BY DEF KeyTypes, HotkeysTypeOK
  <2>3. CASE Gained(t)
    <3>1. /\ handler[t].at = "gained" /\ HandlerTo(t, IF keySettings.global THEN "idle" ELSE "init")
          /\ bound'[System] = System
      BY <2>1, <2>3 DEF Gained, HandlerAt, register_hotkey_with_function
    <3>2. HandlerMoves(t, IF keySettings.global THEN "idle" ELSE "init")
      BY <3>1, HandlerIsMoved DEF HandlerPhases
    <3> QED BY <2>2, <3>1, <3>2
  <2>4. CASE Lost(t)
    <3>1. /\ handler[t].at = "lost" /\ HandlerTo(t, IF keySettings.global THEN "idle" ELSE "reset")
          /\ bound'[System] = NoKey
      BY <2>1, <2>4 DEF Lost, HandlerAt
    <3>2. HandlerMoves(t, IF keySettings.global THEN "idle" ELSE "reset")
      BY <3>1, HandlerIsMoved DEF HandlerPhases
    <3> QED BY <2>2, <3>1, <3>2
  <2> QED BY <2>3, <2>4
<1>4. t # Startup /\ update.at = "idle"
  BY <1>2, <1>3 DEF KeyBounds, HotkeysFit, HandlersFit, HandlerAt
<1>5. \A u \in Handlers \ {t} : handler[u].at = "idle"
  BY <1>2, <1>3 DEF HotkeysFit, HandlersFit, HandlerAt
<1>6. HandlersFit'
  <2>1. \A u \in Handlers \ {t} : handler'[u].at = "idle"
    BY <1>3, <1>5 DEF HandlerMoves, HotkeyTasks
  <2>2. handler'[Startup] = handler[Startup]
    BY <1>3, <1>4 DEF HandlerMoves, HotkeyTasks
  <2>3. /\ handler'[t].at \in {"gained", "init", "bind"} => focused
        /\ handler'[t].at \in {"lost", "reset"} => ~focused
        /\ handler'[t].at \in {"reset", "init", "bind"} => ~keySettings.global
        /\ handler'[t].at # "bind"
    BY <1>2, <1>3 DEF HandlerMoves, HotkeysFit, HandlersFit
  <2>4. /\ \A u, w \in Handlers : ~HandlerAt(u, "idle")' /\ ~HandlerAt(w, "idle")' => u = w
        /\ ~HandlerAt(Startup, "idle")' => keySettings.global /\ handler'[Startup].at \in {"init", "bind"}
    BY <2>1, <2>2 DEF HandlerAt, HotkeysFit, HandlersFit
  <2>5. \A u \in HotkeyTasks : HandlerAt(u, "bind")' => handler'[u].list = keySettings.hotkeys
    BY <2>1, <2>2, <2>3 DEF HandlerAt, HotkeysFit, HandlersFit, HotkeyTasks
  <2> QED BY <1>1, <1>4, <2>1, <2>3, <2>4, <2>5 DEF HandlersFit
<1>7. KeysFit'
  <2>1. ASSUME Idling' PROVE Idling
    <3>1. keySettings.global
      BY <1>1, <1>3, <2>1 DEF Idling, Rested, HandlerMoves, HandlerAt
    <3> QED BY <1>1, <1>3, <1>4, <2>1, <3>1 DEF Idling, Rested, HandlerMoves, HandlerAt
  <2>2. ASSUME Idling' PROVE \A k \in Keys \ lost : bound'[k] = Held'[k]
    BY <1>1, <2>1, <2>2 DEF HotkeysFit, KeysFit, Held
  <2>3. ASSUME NEW u \in HotkeyTasks, Reaching(u)' PROVE \A k \in Keys \ lost : bound'[k] = NoKey
    <3>1. Reaching(u)
      BY <1>1, <1>3, <2>3 DEF Reaching, HandlerMoves, HandlerAt
    <3> QED BY <1>1, <3>1 DEF HotkeysFit, KeysFit
  <2>4. ASSUME NEW u \in HotkeyTasks, HandlerAt(u, "bind")' PROVE handler'[u] = handler[u] /\ HandlerAt(u, "bind")
    BY <1>3, <2>4 DEF HandlerMoves, HandlerAt
  <2> QED BY <1>1, <2>2, <2>3, <2>4 DEF HotkeysFit, KeysFit
<1>8. SystemFits'
  BY <1>1, <1>2, <1>3 DEF HotkeysFit, SystemFits, HandlersFit
<1>9. UpdateFits' /\ RecordFits'
  BY <1>1, <1>4 DEF HotkeysFit, UpdateFits, RecordFits
<1> QED BY <1>6, <1>7, <1>8, <1>9 DEF HotkeysFit

\* Everything is unregistered; what met before is forgotten when nobody else is left.
LEMMA ResetFits ==
    ASSUME KeyBounds, KeyTypes, ~met => HotkeysFit, NEW t \in HotkeyTasks, Reset(t), ~met' PROVE HotkeysFit'
<1>1. /\ HandlerAt(t, "reset") /\ HandlerTo(t, "idle") /\ bound' = [k \in DOMAIN bound |-> NoKey] /\ lost' = {}
      /\ UNCHANGED <<keySettings, stagedKeys, recorded, focused, update>>
      /\ unloaded' = (unloaded \/ met)
  BY DEF Reset, unregister_all
<1>2. /\ ~focused /\ ~keySettings.global /\ update.at = "idle"
      /\ \A u \in HotkeyTasks \ {t} : handler[u].at = "idle"
  <2>1. CASE met
    BY <2>1 DEF Reset, BusyHandlers, HandlerAt
  <2>2. CASE ~met
    <3>1. t \in Handlers
      BY <1>1, <2>2 DEF HotkeysFit, HandlersFit, HandlerAt, HotkeyTasks
    <3> QED BY <1>1, <2>2, <3>1 DEF HotkeysFit, HandlersFit, HandlerAt, HotkeyTasks
  <2> QED BY <2>1, <2>2
<1>3. HandlerMoves(t, "idle")
  BY <1>1, HandlerIsMoved DEF HandlerPhases
<1>4. \A u \in HotkeyTasks : handler'[u].at = "idle"
  BY <1>2, <1>3 DEF HandlerMoves
<1>5. HandlersFit'
  BY <1>1, <1>2, <1>4 DEF HandlersFit, HandlerAt, HotkeyTasks
<1>6. \A k \in Keys \cup {System} : bound'[k] = NoKey
  BY <1>1 DEF KeyTypes, HotkeysTypeOK
<1>7. KeysFit'
  BY <1>1, <1>2, <1>4, <1>6 DEF KeysFit, Held, Reaching, HandlerAt, NoKeys
<1>8. UpdateFits' /\ SystemFits'
  BY <1>1, <1>2, <1>6 DEF UpdateFits, SystemFits
<1>9. RecordFits'
  BY <1>1, <1>2 DEF HotkeysFit, RecordFits, KeyTypes
<1> QED BY <1>5, <1>7, <1>8, <1>9 DEF HotkeysFit

-----------------------------------------------------------------------------
(* The hotkeys: the keys are loaded *)

LEMMA LoadKeysFits ==
    ASSUME KeyBounds, KeyTypes, HotkeysFit, NEW t \in HotkeyTasks, init(t) PROVE HotkeysFit'
<1> DEFINE loaded == [at |-> "bind", list |-> stagedKeys.hotkeys, todo |-> Configured(stagedKeys.hotkeys)]
<1>1. /\ handler[t].at = "init" /\ handler' = [handler EXCEPT ![t] = loaded]
      /\ UNCHANGED <<keySettings, stagedKeys, recorded, bound, focused, update, lost, unloaded>>
  BY DEF init, HandlerAt
<1>2. /\ handler'[t] = loaded
      /\ \A u \in HotkeyTasks \ {t} : handler'[u] = handler[u]
  BY <1>1 DEF KeyTypes
<1>3. loaded.at = "bind" /\ loaded.list = stagedKeys.hotkeys /\ loaded.todo = Configured(stagedKeys.hotkeys)
  OBVIOUS
<1> HIDE DEF loaded
<1>4. /\ update.at = "idle" /\ stagedKeys = keySettings
      /\ \A u \in HotkeyTasks \ {t} : Rested(u)
  BY <1>1, LoadsAlone DEF HotkeysFit
<1>5. HandlersFit'
  <2>1. \A u \in HotkeyTasks : handler'[u].at = (IF u = t THEN "bind" ELSE handler[u].at)
    BY <1>2, <1>3
  <2>2. /\ \A u, w \in Handlers : ~HandlerAt(u, "idle")' /\ ~HandlerAt(w, "idle")' => u = w
        /\ ~HandlerAt(Startup, "idle")' => keySettings.global /\ handler'[Startup].at \in {"init", "bind"}
    BY <1>1, <2>1 DEF HandlerAt, HotkeysFit, HandlersFit, HotkeyTasks
  <2>3. \A u \in Handlers : /\ handler'[u].at \in {"gained", "init", "bind"} => focused
                            /\ handler'[u].at \in {"lost", "reset"} => ~focused
                            /\ handler'[u].at \in {"reset", "init", "bind"} => ~keySettings.global
    BY <1>1, <2>1 DEF HotkeysFit, HandlersFit, HotkeyTasks
  <2>4. \A u \in HotkeyTasks : HandlerAt(u, "bind")' => handler'[u].list = keySettings.hotkeys
    BY <1>2, <1>3, <1>4 DEF HandlerAt, HotkeysFit, HandlersFit
  <2> QED BY <1>1, <1>4, <2>2, <2>3, <2>4 DEF HandlersFit
<1>6. KeysFit'
  <2>1. ~Idling'
    BY <1>2, <1>3 DEF Idling, Rested, HandlerAt
  <2>2. ASSUME NEW u \in HotkeyTasks, Reaching(u)' PROVE \A k \in Keys \ lost : bound[k] = NoKey
    <3>1. Reaching(u)
      BY <1>1, <1>2, <1>3, <2>2 DEF Reaching, HandlerAt
    <3> QED BY <3>1 DEF HotkeysFit, KeysFit
  <2>3. ASSUME NEW u \in HotkeyTasks, HandlerAt(u, "bind")', NEW k \in Keys \ lost
        PROVE  k \in handler'[u].todo \/ bound[k] = handler'[u].list[k]
    <3>1. CASE u = t
      <4>1. bound[k] = NoKey
        BY <1>1 DEF Reaching, HandlerAt, HotkeysFit, KeysFit
      <4>2. k \in Configured(stagedKeys.hotkeys) \/ stagedKeys.hotkeys[k] = NoKey
        BY DEF Configured
      <4> QED BY <1>2, <1>3, <3>1, <4>1, <4>2
    <3>2. CASE u # t
      BY <1>2, <2>3, <3>2 DEF HandlerAt, HotkeysFit, KeysFit
    <3> QED BY <3>1, <3>2
  <2> QED BY <1>1, <2>1, <2>2, <2>3 DEF KeysFit
<1>7. SystemFits'
  <2>1. \A u \in HotkeyTasks : handler'[u].at \in {"gained", "lost"} <=> handler[u].at \in {"gained", "lost"}
    BY <1>1, <1>2, <1>3
  <2> QED BY <1>1, <2>1 DEF HotkeysFit, SystemFits
<1>8. UpdateFits' /\ RecordFits'
  BY <1>1 DEF HotkeysFit, UpdateFits, RecordFits
<1> QED BY <1>5, <1>6, <1>7, <1>8 DEF HotkeysFit

\* One key is bound, or lost; the keys of the others are as they were.
LEMMA BindNextFits ==
    ASSUME KeyBounds, KeyTypes, HotkeysFit, NEW t \in HotkeyTasks, BindNext(t) PROVE HotkeysFit'
<1>1. handler[t].at = "bind" /\ UNCHANGED <<keySettings, stagedKeys, recorded, focused, update, unloaded>>
  BY DEF BindNext, HandlerAt
<1>2. PICK k \in handler[t].todo :
          /\ handler' = [handler EXCEPT ![t].todo = @ \ {k}]
          /\ \/ bound' = [bound EXCEPT ![k] = handler[t].list[k]] /\ lost' = lost \ {k}
             \/ bound' \in {bound, [bound EXCEPT ![k] = NoKey]} /\ lost' = lost \cup {k}
  BY DEF BindNext, register_hotkey_with_function, Refuse
<1>3. k \in Keys /\ DOMAIN bound = Keys \cup {System} /\ k # System
  BY <1>2 DEF KeyTypes, HandlerStates, HotkeysTypeOK, KeyBounds
<1>4. /\ \A u \in HotkeyTasks : handler'[u].at = handler[u].at /\ handler'[u].list = handler[u].list
      /\ handler'[t].todo = handler[t].todo \ {k}
  BY <1>2 DEF KeyTypes, HandlerStates
<1>5. /\ update.at = "idle"
      /\ \A u \in HotkeyTasks \ {t} : Rested(u)
  BY <1>1, LoadsAlone DEF HotkeysFit
<1>6. HandlersFit'
  BY <1>1, <1>4 DEF HotkeysFit, HandlersFit, HandlerAt, HotkeyTasks
<1>7. KeysFit'
  <2>1. ~Idling'
    BY <1>1, <1>4 DEF Idling, Rested, HandlerAt
  <2>2. ASSUME NEW u \in HotkeyTasks PROVE ~Reaching(u)'
    <3>1. u # t => HandlerAt(u, "idle") \/ (keySettings.global /\ handler[u].at \in {"gained", "lost"})
      BY <1>5 DEF Rested
    <3> QED BY <1>1, <1>4, <3>1 DEF Reaching, HandlerAt
  <2>3. ASSUME NEW u \in HotkeyTasks, HandlerAt(u, "bind")', NEW j \in Keys \ lost'
        PROVE  j \in handler'[u].todo \/ bound'[j] = handler'[u].list[j]
    <3>1. u = t
      BY <1>1, <1>4, <1>5, <2>3 DEF Rested, HandlerAt
    <3>2. CASE j = k
      BY <1>2, <1>3, <1>4, <3>1, <3>2
    <3>3. CASE j # k
      <4>1. j \in Keys \ lost /\ bound'[j] = bound[j]
        BY <1>2, <1>3, <3>3
      <4>2. j \in handler[t].todo \/ bound[j] = handler[t].list[j]
        BY <1>1, <4>1 DEF HandlerAt, HotkeysFit, KeysFit
      <4> QED BY <1>4, <3>1, <3>3, <4>1, <4>2
    <3> QED BY <3>2, <3>3
  <2> QED BY <2>1, <2>2, <2>3 DEF KeysFit
<1>8. SystemFits'
  <2>1. bound'[System] = bound[System]
    BY <1>2, <1>3
  <2> QED BY <1>1, <1>4, <2>1 DEF HotkeysFit, SystemFits
<1>9. UpdateFits' /\ RecordFits'
  BY <1>1, <1>5 DEF HotkeysFit, UpdateFits, RecordFits
<1> QED BY <1>6, <1>7, <1>8, <1>9 DEF HotkeysFit

LEMMA RecordKeysFits ==
    ASSUME KeyBounds, KeyTypes, HotkeysFit, NEW t \in HotkeyTasks, RecordKeys(t) PROVE HotkeysFit'
<1>1. /\ handler[t].at = "bind" /\ handler[t].todo = {} /\ HandlerTo(t, "idle") /\ recorded' = handler[t].list
      /\ unloaded' = FALSE /\ UNCHANGED <<keySettings, stagedKeys, bound, focused, update, lost>>
  BY DEF RecordKeys, HandlerAt
<1>2. HandlerMoves(t, "idle")
  BY <1>1, HandlerIsMoved DEF HandlerPhases
<1>3. /\ update.at = "idle" /\ (keySettings.global \/ focused)
      /\ \A u \in HotkeyTasks \ {t} : Rested(u)
  BY <1>1, LoadsAlone DEF HotkeysFit
<1>4. HandlersFit'
  BY <1>1, <1>2, <1>3 DEF HotkeysFit, HandlersFit, HandlerMoves, HandlerAt, HotkeyTasks
<1>5. KeysFit'
  <2>1. \A k \in Keys \ lost : bound'[k] = Held'[k]
    BY <1>1, <1>3 DEF HotkeysFit, KeysFit, HandlerAt, Held
  <2>2. ASSUME NEW u \in HotkeyTasks PROVE ~Reaching(u)' /\ ~HandlerAt(u, "bind")'
    <3>1. u # t => HandlerAt(u, "idle") \/ (keySettings.global /\ handler[u].at \in {"gained", "lost"})
      BY <1>3 DEF Rested
    <3> QED BY <1>1, <1>2, <3>1 DEF Reaching, HandlerAt, HandlerMoves
  <2> QED BY <1>1, <2>1, <2>2 DEF KeysFit
<1>6. SystemFits'
  BY <1>1, <1>2 DEF HotkeysFit, SystemFits, HandlerMoves
<1>7. UpdateFits' /\ RecordFits'
  BY <1>1, <1>3 DEF HotkeysFit, UpdateFits, RecordFits, HandlersFit, HandlerAt
<1> QED BY <1>4, <1>5, <1>6, <1>7 DEF HotkeysFit

-----------------------------------------------------------------------------
(* The hotkeys: a patch changes the keys *)

\* Beside a patch no handler is at work: what is said of them holds.
LEMMA PatchHandlersFit ==
    ASSUME (\A t \in HotkeyTasks : handler[t].at = "idle")', (update.at # "idle" => focused)'
    PROVE  HandlersFit'
BY DEF HandlersFit, HandlerAt, HotkeyTasks

LEMMA PatchKeysFit ==
    ASSUME (\A t \in HotkeyTasks : handler[t].at = "idle")',
           (update.at = "idle" => \A k \in Keys \ lost : bound[k] = Held[k])'
    PROVE  KeysFit'
BY DEF KeysFit, Idling, Reaching, HandlerAt

LEMMA StageKeysFits ==
    ASSUME KeyBounds, KeyTypes, HotkeysFit, StageKeys, ~met' PROVE HotkeysFit'
<1>1. PICK new \in [global : BOOLEAN, hotkeys : Lists] :
          /\ stagedKeys' = new /\ Unregister(get_diff(recorded, new.hotkeys))
          /\ update' = [at |-> "bind", list |-> get_diff(recorded, new.hotkeys),
                        todo |-> get_diff(recorded, new.hotkeys) \cap Configured(new.hotkeys)]
  BY DEF StageKeys
<1>2. focused /\ update.at = "idle" /\ UNCHANGED <<keySettings, recorded, focused, handler, lost, unloaded>>
  BY DEF StageKeys
<1>3. \A t \in HotkeyTasks : handler[t].at = "idle"
  BY DEF StageKeys, BusyHandlers, HandlerAt
<1>4. \A k \in Keys \ lost : bound[k] = recorded[k]
  BY <1>2, <1>3 DEF HotkeysFit, KeysFit, Idling, Rested, HandlerAt, Held
<1> DEFINE changed == get_diff(recorded, new.hotkeys)
<1>5. /\ update'.at = "bind" /\ update'.list = changed /\ update'.todo = changed \cap Configured(new.hotkeys)
      /\ bound' = [k \in DOMAIN bound |-> IF k \in changed /\ recorded[k] # NoKey THEN NoKey ELSE bound[k]]
  BY <1>1 DEF Unregister
<1>6. /\ changed \subseteq Keys
      /\ \A k \in Keys : k \in changed <=> recorded[k] # new.hotkeys[k]
      /\ \A k \in changed \ Configured(new.hotkeys) : new.hotkeys[k] = NoKey
  BY DEF get_diff, Configured
<1>7. DOMAIN bound = Keys \cup {System}
  BY DEF KeyTypes, HotkeysTypeOK
<1> HIDE DEF changed
<1>8. HandlersFit'
  BY <1>2, <1>3, PatchHandlersFit
<1>9. KeysFit'
  BY <1>2, <1>3, <1>5, PatchKeysFit
<1>10. UpdateFits'
  <2>1. ASSUME NEW k \in update'.list \ update'.todo PROVE bound'[k] = stagedKeys'.hotkeys[k]
    <3>1. k \in changed /\ k \in Keys /\ new.hotkeys[k] = NoKey /\ recorded[k] # NoKey
      BY <1>5, <1>6, <2>1
    <3> QED BY <1>1, <1>5, <1>7, <3>1
  <2>2. ASSUME NEW k \in Keys \ (lost \cup update'.list)
        PROVE  bound'[k] = recorded[k] /\ stagedKeys'.hotkeys[k] = recorded[k]
    <3>1. k \notin changed /\ new.hotkeys[k] = recorded[k]
      BY <1>5, <1>6, <2>2
    <3> QED BY <1>1, <1>4, <1>5, <1>7, <2>2, <3>1
  <2> QED BY <1>2, <1>5, <2>1, <2>2 DEF UpdateFits
<1>11. SystemFits'
  <2>1. System \notin changed
    BY <1>6 DEF KeyBounds
  <2>2. bound'[System] = bound[System]
    BY <1>5, <1>7, <2>1
  <2> QED BY <1>2, <2>2 DEF HotkeysFit, SystemFits
<1>12. RecordFits'
  BY <1>2 DEF HotkeysFit, RecordFits
<1> QED BY <1>8, <1>9, <1>10, <1>11, <1>12 DEF HotkeysFit

LEMMA BindNewFits ==
    ASSUME KeyBounds, KeyTypes, HotkeysFit, BindNew PROVE HotkeysFit'
<1>1. PICK k \in update.todo : /\ bound' = [bound EXCEPT ![k] = stagedKeys.hotkeys[k]]
                               /\ update' = [update EXCEPT !.todo = @ \ {k}]
  BY DEF BindNew, register_hotkey_with_function
<1>2. UNCHANGED <<keySettings, stagedKeys, recorded, focused, handler, lost, unloaded>> /\ update.at = "bind"
  BY DEF BindNew
<1>3. focused /\ \A t \in HotkeyTasks : handler[t].at = "idle"
  BY <1>2, PatchedAlone DEF HotkeysFit
<1>4. k \in Keys /\ k \in update.list /\ DOMAIN bound = Keys \cup {System} /\ k # System /\ update.list \subseteq Keys
  BY <1>1, <1>2 DEF KeyTypes, HotkeysTypeOK, KeyBounds
<1>5. /\ \A j \in Keys \cup {System} : bound'[j] = IF j = k THEN stagedKeys.hotkeys[k] ELSE bound[j]
      /\ update'.list = update.list /\ update'.at = "bind"
      /\ \A j : j \in update.todo /\ j # k => j \in update'.todo
  <2>1. update'.at = update.at
    BY <1>1
  <2>2. update'.list = update.list
    BY <1>1
  <2>3. DOMAIN update = DOMAIN update' /\ ("todo" \in DOMAIN update => update'.todo = update.todo \ {k})
    BY <1>1
  <2> QED BY <1>1, <1>2, <1>4, <2>1, <2>2, <2>3
<1>6. HandlersFit'
  BY <1>2, <1>3, PatchHandlersFit
<1>7. KeysFit'
  BY <1>2, <1>3, <1>5, PatchKeysFit
<1>8. UpdateFits'
  <2>1. ASSUME NEW j \in update'.list \ update'.todo PROVE bound'[j] = stagedKeys.hotkeys[j]
    <3>1. j \in Keys /\ (j = k \/ j \in update.list \ update.todo)
      BY <1>4, <1>5, <2>1
    <3> QED BY <1>2, <1>5, <3>1 DEF HotkeysFit, UpdateFits
  <2>2. ASSUME NEW j \in Keys \ (lost \cup update'.list)
        PROVE  bound'[j] = recorded[j] /\ stagedKeys.hotkeys[j] = recorded[j]
    BY <1>2, <1>4, <1>5, <2>2 DEF HotkeysFit, UpdateFits
  <2> QED BY <1>2, <1>5, <2>1, <2>2 DEF UpdateFits
<1>9. SystemFits'
  BY <1>2, <1>4, <1>5 DEF HotkeysFit, SystemFits
<1>10. RecordFits'
  BY <1>2, <1>5 DEF HotkeysFit, RecordFits
<1> QED BY <1>6, <1>7, <1>8, <1>9, <1>10 DEF HotkeysFit

LEMMA GiveUpKeysFits ==
    ASSUME KeyBounds, KeyTypes, HotkeysFit, GiveUpKeys PROVE HotkeysFit'
<1>1. PICK k \in update.todo : bound' \in {bound, [bound EXCEPT ![k] = NoKey]}
  BY DEF GiveUpKeys, Refuse
<1>2. /\ UNCHANGED <<keySettings, recorded, focused, handler, unloaded>> /\ update.at = "bind"
      /\ update'.at = "idle" /\ lost' = lost \cup update.list
  BY DEF GiveUpKeys, IdleKeys
<1>3. focused /\ \A t \in HotkeyTasks : handler[t].at = "idle"
  BY <1>2, PatchedAlone DEF HotkeysFit
<1>4. k \in Keys /\ k \in update.list /\ DOMAIN bound = Keys \cup {System} /\ k # System
  BY <1>1, <1>2 DEF KeyTypes, HotkeysTypeOK, KeyBounds
<1>5. \A j \in Keys \cup {System} : j # k => bound'[j] = bound[j]
  BY <1>1, <1>4
<1>6. HandlersFit'
  BY <1>2, <1>3, PatchHandlersFit
<1>7. KeysFit'
  <2>1. \A j \in Keys \ lost' : bound'[j] = recorded[j]
    BY <1>2, <1>4, <1>5 DEF HotkeysFit, UpdateFits
  <2>2. (\A j \in Keys \ lost : bound[j] = Held[j])'
    BY <1>2, <1>3, <2>1 DEF Held
  <2> QED BY <1>2, <1>3, <2>2, PatchKeysFit
<1>8. UpdateFits' /\ SystemFits' /\ RecordFits'
  BY <1>2, <1>4, <1>5 DEF HotkeysFit, UpdateFits, SystemFits, RecordFits
<1> QED BY <1>6, <1>7, <1>8 DEF HotkeysFit

LEMMA RecordNewFits ==
    ASSUME KeyBounds, KeyTypes, HotkeysFit, RecordNew PROVE HotkeysFit'
<1>1. /\ UNCHANGED <<keySettings, stagedKeys, bound, focused, handler, unloaded>> /\ update.at = "bind" /\ update.todo = {}
      /\ recorded' = stagedKeys.hotkeys /\ lost' = lost \ update.list
      /\ update' = [update EXCEPT !.at = "recorded"]
  BY DEF RecordNew
<1>2. focused /\ \A t \in HotkeyTasks : handler[t].at = "idle"
  BY <1>1, PatchedAlone DEF HotkeysFit
<1>3. update'.at # "bind" /\ update'.at # "idle"
  <2>1. update'.at = "recorded" \/ "at" \notin DOMAIN update
    BY <1>1
  <2> QED BY <1>1, <2>1 DEF KeyTypes
<1>4. HandlersFit'
  BY <1>1, <1>2, PatchHandlersFit
<1>5. KeysFit'
  BY <1>1, <1>2, <1>3, PatchKeysFit
<1>6. UpdateFits'
  <2>1. ASSUME NEW k \in Keys \ lost' PROVE bound[k] = stagedKeys.hotkeys[k]
    <3>1. CASE k \in update.list
      BY <1>1, <3>1 DEF HotkeysFit, UpdateFits
    <3>2. CASE k \notin update.list
      <4>1. k \in Keys \ (lost \cup update.list)
        BY <1>1, <2>1, <3>2
      <4> QED BY <1>1, <4>1 DEF HotkeysFit, UpdateFits
    <3> QED BY <3>1, <3>2
  <2> QED BY <1>1, <1>3, <2>1 DEF UpdateFits
<1>7. SystemFits'
  BY <1>1 DEF HotkeysFit, SystemFits
<1>8. RecordFits'
  BY <1>1, <1>3 DEF KeyTypes, RecordFits
<1> QED BY <1>4, <1>5, <1>6, <1>7, <1>8 DEF HotkeysFit

LEMMA EndKeyPatchFits ==
    ASSUME KeyBounds, KeyTypes, HotkeysFit, EndKeyPatch PROVE HotkeysFit'
<1>1. /\ UNCHANGED <<recorded, bound, focused, handler, lost>> /\ update.at = "recorded" /\ update'.at = "idle"
      /\ keySettings' = stagedKeys \/ unloaded'
  BY DEF EndKeyPatch, IdleKeys
<1>2. focused /\ \A t \in HotkeyTasks : handler[t].at = "idle"
  BY <1>1, PatchedAlone DEF HotkeysFit
<1>3. recorded = stagedKeys.hotkeys /\ \A k \in Keys \ lost : bound[k] = recorded[k]
  BY <1>1 DEF HotkeysFit, UpdateFits
<1>4. HandlersFit'
  BY <1>1, <1>2, PatchHandlersFit
<1>5. KeysFit'
  <2>1. (\A k \in Keys \ lost : bound[k] = Held[k])'
    BY <1>1, <1>2, <1>3 DEF Held
  <2> QED BY <1>1, <1>2, <2>1, PatchKeysFit
<1>6. UpdateFits' /\ SystemFits' /\ RecordFits'
  BY <1>1, <1>3 DEF HotkeysFit, UpdateFits, SystemFits, RecordFits
<1> QED BY <1>4, <1>5, <1>6 DEF HotkeysFit

-----------------------------------------------------------------------------
(* The hotkeys: the theorems *)

LEMMA NoKeysHeld == ASSUME KeyBounds, HotkeysInit PROVE KeyInvariant
<1> USE DEF IdleKeys
<1>1. [IdleKeys EXCEPT !.at = "init"] = [at |-> "init", list |-> NoKey, todo |-> {}]
  OBVIOUS
<1>2. /\ handler \in [HotkeyTasks -> HandlerStates]
      /\ \A t \in HotkeyTasks : /\ handler[t].at \in {"idle", "init"}
                                /\ handler[t].at = "init" <=> t = Startup /\ keySettings.global
  <2>1. IdleKeys \in HandlerStates /\ [at |-> "init", list |-> NoKey, todo |-> {}] \in HandlerStates
    BY DEF HandlerStates, HandlerPhases
  <2>2. handler = [t \in HotkeyTasks |-> IF t = Startup /\ keySettings.global
                                         THEN [at |-> "init", list |-> NoKey, todo |-> {}] ELSE IdleKeys]
    BY <1>1 DEF HotkeysInit
  <2> QED BY <2>1, <2>2
<1>3. /\ recorded = NoKeys /\ bound = [k \in Keys \cup {System} |-> NoKey] /\ focused = FALSE /\ update = IdleKeys
      /\ met = FALSE /\ lost = {} /\ unloaded = TRUE /\ stagedKeys = keySettings
      /\ keySettings \in [global : BOOLEAN, hotkeys : Lists]
  BY DEF HotkeysInit
<1>4. KeyTypes
  BY <1>2, <1>3 DEF KeyTypes, HotkeysTypeOK, HandlerAt, HandlerPhases
<1>5. KeysFit
  BY <1>3, <1>2 DEF KeysFit, Held, HandlerAt, NoKeys
<1>6. UpdateFits /\ SystemFits /\ RecordFits
  BY <1>3 DEF UpdateFits, SystemFits, RecordFits
<1>7. KeyBounds => HandlersFit
  BY <1>2, <1>3 DEF KeyBounds, HandlersFit, HandlerAt, HotkeyTasks
<1> QED BY <1>4, <1>5, <1>6, <1>7 DEF KeyInvariant, HotkeysFit

(* As long as no change of the focus met a handler or a patch, one task at a time
   changes what is registered, for the focus and the settings as they are. *)
THEOREM HotkeysAreOrderly == KeyBounds => (HotkeysSpec => []KeyInvariant)
<1> SUFFICES ASSUME KeyBounds PROVE HotkeysSpec => []KeyInvariant
  OBVIOUS
<1>1. HotkeysInit => KeyInvariant
  BY NoKeysHeld
<1>2. KeyInvariant /\ [HotkeysNext]_hotkeyVars => KeyInvariant'
  <2> SUFFICES ASSUME KeyInvariant, [HotkeysNext]_hotkeyVars PROVE KeyInvariant'
    OBVIOUS
  <2>1. CASE HotkeysNext
    <3>1. KeyTypes'
      BY <2>1, KeyTypesKept DEF KeyInvariant
    <3>2. ASSUME ~met' PROVE HotkeysFit'
      <4>1. ASSUME NEW t \in HotkeyTasks, Reset(t) PROVE HotkeysFit'
        BY <3>2, <4>1, ResetFits DEF KeyInvariant
      <4>2. ASSUME NEW t \in HotkeyTasks, Event(t) \/ Gained(t) \/ Lost(t) PROVE HotkeysFit'
        <5>1. ~met
          BY <3>2, <4>2 DEF Event, Gained, Lost
        <5> QED BY <3>2, <4>2, <5>1, EventFits, SystemKeysFit DEF KeyInvariant
      <4>3. ASSUME NEW t \in HotkeyTasks, init(t) \/ BindNext(t) \/ RecordKeys(t) PROVE HotkeysFit'
        <5>1. ~met
          BY <3>2, <4>3 DEF init, BindNext, RecordKeys
        <5> QED BY <4>3, <5>1, LoadKeysFits, BindNextFits, RecordKeysFits DEF KeyInvariant
      <4>4. CASE StageKeys
        <5>1. ~met
          BY <3>2, <4>4 DEF StageKeys
        <5> QED BY <3>2, <4>4, <5>1, StageKeysFits DEF KeyInvariant
      <4>5. CASE BindNew \/ GiveUpKeys \/ RecordNew \/ EndKeyPatch
        <5>1. ~met
          BY <3>2, <4>5 DEF BindNew, GiveUpKeys, RecordNew, EndKeyPatch
        <5> QED BY <4>5, <5>1, BindNewFits, GiveUpKeysFits, RecordNewFits, EndKeyPatchFits DEF KeyInvariant
      <4> QED BY <2>1, <4>1, <4>2, <4>3, <4>4, <4>5 DEF HotkeysNext
    <3> QED BY <3>1, <3>2 DEF KeyInvariant
  <2>2. CASE UNCHANGED hotkeyVars
    <3>1. UNCHANGED <<keySettings, stagedKeys, recorded, bound, focused, handler, update, met, lost, unloaded>>
      BY <2>2 DEF hotkeyVars
    <3> QED BY <3>1 DEF KeyInvariant, KeyTypes, HotkeysTypeOK, HotkeysFit, HandlersFit, KeysFit, UpdateFits, SystemFits,
                        RecordFits, Idling, Rested, Reaching, Held, HandlerAt
  <2> QED BY <2>1, <2>2
<1> QED BY <1>1, <1>2, PTL DEF HotkeysSpec

(* At rest the system holds the keys of the record, the record is the configured
   list, and the keys that quit and hide are held only from a focused window. *)
THEOREM HotkeysAlwaysFollow == KeyBounds => (HotkeysSpec => []HotkeysFollow)
<1> SUFFICES ASSUME KeyBounds PROVE HotkeysSpec => []HotkeysFollow
  OBVIOUS
<1>1. HotkeysSpec => []KeyInvariant
  BY HotkeysAreOrderly
<1>2. KeyInvariant => HotkeysFollow
  <2> SUFFICES ASSUME KeyInvariant PROVE HotkeysFollow
    OBVIOUS
  <2>1. ASSUME KeysQuiet PROVE HotkeysFit /\ Idling /\ \A t \in HotkeyTasks : handler[t].at = "idle"
    BY <2>1 DEF KeyInvariant, KeysQuiet, BusyHandlers, HandlerAt, Idling, Rested
  <2>2. HeldAsRecorded
    BY <2>1 DEF HeldAsRecorded, HotkeysFit, KeysFit, Held, NoKeys
  <2>3. SystemKeysFollowFocus
    BY <2>1 DEF SystemKeysFollowFocus, HotkeysFit, SystemFits
  <2>4. RecordIsConfigured
    BY <2>1 DEF RecordIsConfigured, KeysQuiet, HotkeysFit, RecordFits
  <2> QED BY <2>2, <2>3, <2>4 DEF HotkeysFollow, KeyInvariant, KeyTypes
<1> QED BY <1>1, <1>2, PTL

-----------------------------------------------------------------------------
(* What the user sees *)

\* However the window, the mode, the settings, the profile and the state change, and whatever fails
\* meanwhile: the window follows the mode, the monitor, the hotkeys and the tray follow the settings.
THEOREM InterfaceAlwaysFollows ==
    TimerBounds /\ MonitorBounds /\ KeyBounds /\ TrayBounds =>
        (LightSpec /\ MonitorSpec /\ HotkeysSpec /\ TraySpec => []InterfaceFollows)
<1>1. WindowFollowsMode /\ MonitorFollowsSettings /\ HotkeysFollow /\ TrayFollows => InterfaceFollows
  BY DEF InterfaceFollows
<1> QED BY <1>1, WindowAlwaysFollows, MonitorAlwaysFollows, HotkeysAlwaysFollow, TrayAlwaysFollows, PTL

=============================================================================
