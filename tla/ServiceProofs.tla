--------------------------- MODULE ServiceProofs ---------------------------
(***************************************************************************)
(* Theorems about the components that live with the Service: RunState, for  *)
(* every set of waiters and reasons and every bound; ProviderSync, for      *)
(* every set of tasks and configurations and every bound; RuntimeBundle,    *)
(* for every configuration.  RunState shares no name with the others.       *)
(***************************************************************************)
EXTENDS RunState, ProviderSync, FiniteSetTheorems, TLAPS

\* The part of TypeOK that the writes to the store touch.
StoreTypeOK ==
    /\ health \in Healths
    /\ pending \in Actions \cup {NoAction}
    /\ allowed \in BOOLEAN
    /\ observation \in Nat
    /\ overtaken \in SUBSET Readers

LEMMA WritesPreserveType ==
    ASSUME TypeOK
    PROVE  /\ \A h \in Healths : Observe(h) => StoreTypeOK'
           /\ \A a \in Actions : RequestAction(a) => StoreTypeOK'
           /\ health' \in Healths /\ AllowSidecar => StoreTypeOK'
           /\ RestoreAllowance => StoreTypeOK'
<1>1. ASSUME NextObservation PROVE observation' \in Nat /\ overtaken' \in SUBSET Readers
  BY <1>1 DEF TypeOK, NextObservation
<1>2. ASSUME NEW h \in Healths, Observe(h) PROVE StoreTypeOK'
  BY <1>1, <1>2 DEF Observe, Record, StoreTypeOK
<1>3. ASSUME NEW a \in Actions, RequestAction(a) PROVE StoreTypeOK'
  BY <1>1, <1>3 DEF RequestAction, StoreTypeOK, TypeOK
<1>4. ASSUME health' \in Healths, AllowSidecar PROVE StoreTypeOK'
  BY <1>1, <1>4 DEF AllowSidecar, StoreTypeOK
<1>5. ASSUME RestoreAllowance PROVE StoreTypeOK'
  BY <1>1, <1>4, <1>5 DEF RestoreAllowance, StoreTypeOK, TypeOK, service
<1>. QED BY <1>2, <1>3, <1>4, <1>5

\* Reserving and committing a reading.
LEMMA ReadersPreserveType ==
    ASSUME TypeOK, NEW r \in Readers
    PROVE  /\ Reserve(r) => StoreTypeOK' /\ reading' \in SUBSET Readers
                            /\ reservation' \in [Readers -> Nat]
           /\ \A h \in Healths : CommitReserved(r, h) =>
                StoreTypeOK' /\ reading' \in SUBSET Readers
                /\ reservation' \in [Readers -> Nat]
<1>1. ASSUME Reserve(r)
      PROVE  StoreTypeOK' /\ reading' \in SUBSET Readers /\ reservation' \in [Readers -> Nat]
  BY <1>1 DEF TypeOK, StoreTypeOK, Reserve
<1>2. ASSUME NEW h \in Healths, CommitReserved(r, h)
      PROVE  StoreTypeOK' /\ reading' \in SUBSET Readers /\ reservation' \in [Readers -> Nat]
  BY <1>2 DEF TypeOK, StoreTypeOK, CommitReserved, Record
<1>. QED BY <1>1, <1>2

\* A step of settled moves its waiter between the states of WaiterStates.
LEMMA WaiterPreservesType ==
    ASSUME TypeOK, NEW w \in Waiters, WaiterStep(w) \/ CallAgain(w)
    PROVE  waiter' \in [Waiters -> WaiterStates] /\ registered' \in SUBSET Waiters
<1>1. ASSUME NEW pc \in {"idle", "enabled", "waiting", "returned"},
             WaiterTo(w, pc)
      PROVE  waiter' \in [Waiters -> WaiterStates]
  BY <1>1 DEF TypeOK, WaiterTo, WaiterStates
<1>2. CASE Enable(w)
  BY <1>1, <1>2 DEF TypeOK, Enable
<1>3. CASE ReadFlag(w)
  BY <1>1, <1>3 DEF TypeOK, ReadFlag
<1>4. CASE CallAgain(w)
  BY <1>1, <1>4 DEF TypeOK, CallAgain
<1>. QED BY <1>2, <1>3, <1>4 DEF WaiterStep

\* A move of the operation's program counter.
LEMMA OpMovesPreserveType ==
    ASSUME TypeOK, NEW pc \in OpSteps, To(pc)
    PROVE  /\ op' \in OpStates
           /\ op'.pc = pc /\ op'.kind = op.kind /\ op'.displaced = op.displaced
BY DEF TypeOK, OpStates, To

\* An operation that has begun and is no refresh performs an action.
BegunKind == OpAt("begun") => op.kind \in Actions

\* Every step of the operation's task.
LEMMA OpStepPreservesType ==
    ASSUME TypeOK, BegunKind, OpStep
    PROVE  TypeOK'
<1>1. CASE ProbeForRefresh
  <2>1. StoreTypeOK'
    BY <1>1, WritesPreserveType
       DEF ProbeForRefresh, TypeOK, StoreTypeOK, Replied, Detected, service
  <2>2. op' \in OpStates
    BY <1>1, OpMovesPreserveType DEF ProbeForRefresh, OpSteps
  <2>. QED BY <1>1, <2>1, <2>2 DEF ProbeForRefresh, TypeOK, StoreTypeOK, readers, waiters
<1>2. CASE RequestPrivileged
  <2>1. StoreTypeOK'
    BY <1>2, WritesPreserveType DEF RequestPrivileged, BegunKind
  <2>2. op' \in OpStates
    BY <1>2 DEF RequestPrivileged, TypeOK, OpStates, OpSteps
  <2>. QED BY <1>2, <2>1, <2>2 DEF RequestPrivileged, TypeOK, StoreTypeOK, readers, waiters
<1>3. CASE RunPrivileged
  <2>1. op' \in OpStates
    BY <1>3, OpMovesPreserveType DEF RunPrivileged, OpSteps
  <2>. QED BY <1>3, <2>1 DEF RunPrivileged, TypeOK, service, readers, waiters
<1>4. CASE RecordUninstalled
  <2>1. StoreTypeOK' /\ op' \in OpStates
    BY <1>4, WritesPreserveType, OpMovesPreserveType DEF RecordUninstalled, OpSteps, Healths
  <2>. QED BY <1>4, <2>1 DEF RecordUninstalled, TypeOK, StoreTypeOK, readers, waiters
<1>5. CASE ReprobeAfterFailure
  <2>1. op' \in OpStates
    BY <1>5, OpMovesPreserveType DEF ReprobeAfterFailure, OpSteps
  <2>. QED BY <1>5, <2>1, ReadersPreserveType
           DEF ReprobeAfterFailure, TypeOK, StoreTypeOK, Readers, waiters
<1>6. ASSUME NEW h \in Detected, CommitAfterFailure(h) PROVE TypeOK'
  <2>1. op' \in OpStates
    BY <1>6, OpMovesPreserveType DEF CommitAfterFailure, OpSteps
  <2>. QED BY <1>6, <2>1, ReadersPreserveType
           DEF CommitAfterFailure, TypeOK, StoreTypeOK, Readers, waiters, Detected
<1>7. ASSUME NEW h \in Replied, AwaitReady(h) PROVE TypeOK'
  <2>1. StoreTypeOK' /\ op' \in OpStates
    BY <1>7, WritesPreserveType, OpMovesPreserveType DEF AwaitReady, OpSteps, Replied, Detected
  <2>. QED BY <1>7, <2>1 DEF AwaitReady, TypeOK, StoreTypeOK, readers, waiters
<1>8. CASE RestoreDisplaced
  <2>1. StoreTypeOK'
    BY <1>8, WritesPreserveType DEF RestoreDisplaced, TypeOK, StoreTypeOK, service
  <2>2. op' \in OpStates
    BY <1>8, OpMovesPreserveType DEF RestoreDisplaced, OpSteps
  <2>. QED BY <1>8, <2>1, <2>2 DEF RestoreDisplaced, TypeOK, StoreTypeOK, readers, waiters
<1>9. CASE ReleaseSlot
  <2>1. OpIdle \in OpStates
    BY DEF OpIdle, OpStates, OpSteps
  <2>2. operationRunning' \in BOOLEAN /\ dropping' \in Nat
    <3>1. dropping \in Nat
      BY DEF TypeOK
    <3>2. operationRunning' = FALSE /\ dropping' = dropping + 1
      BY <1>9 DEF ReleaseSlot
    <3>3. dropping' \in Nat
      BY <3>1, <3>2
    <3>. QED BY <3>2, <3>3
  <2>. QED BY <1>9, <2>1, <2>2 DEF ReleaseSlot, TypeOK, service, readers, waiters
<1>. QED BY <1>1, <1>2, <1>3, <1>4, <1>5, <1>6, <1>7, <1>8, <1>9 DEF OpStep

\* Every step of the tasks that take no slot.
LEMMA FreeStepPreservesType ==
    ASSUME TypeOK,
           \/ DetectStartup \/ \E h \in Detected : CommitStartup(h)
           \/ \E h \in Replied : ReportHealth(h)
           \/ AllowSidecarForSession
           \/ \E reason \in Reasons : AllowSidecarAfterRefusal(reason)
           \/ RequireInstall
           \/ WithdrawAllowance
    PROVE  TypeOK'
<1>1. ASSUME DetectStartup PROVE TypeOK'
  BY <1>1, ReadersPreserveType DEF DetectStartup, TypeOK, StoreTypeOK, Readers, waiters
<1>2. ASSUME NEW h \in Detected, CommitStartup(h) PROVE TypeOK'
  BY <1>2, ReadersPreserveType
     DEF CommitStartup, TypeOK, StoreTypeOK, Readers, waiters, Detected
<1>3. ASSUME NEW h \in Replied, ReportHealth(h) PROVE TypeOK'
  <2>1. StoreTypeOK'
    BY <1>3, WritesPreserveType DEF ReportHealth, Replied, Detected
  <2>. QED BY <1>3, <2>1 DEF ReportHealth, TypeOK, StoreTypeOK, readers, waiters
<1>4. CASE AllowSidecarForSession
  <2>1. StoreTypeOK'
    BY <1>4, WritesPreserveType DEF AllowSidecarForSession, TypeOK
  <2>. QED BY <1>4, <2>1 DEF AllowSidecarForSession, TypeOK, StoreTypeOK, readers, waiters
<1>5. ASSUME NEW reason \in Reasons, AllowSidecarAfterRefusal(reason) PROVE TypeOK'
  <2>1. StoreTypeOK'
    BY <1>5, WritesPreserveType DEF AllowSidecarAfterRefusal, Healths
  <2>. QED BY <1>5, <2>1 DEF AllowSidecarAfterRefusal, TypeOK, StoreTypeOK, readers, waiters
<1>6. CASE RequireInstall
  <2>1. StoreTypeOK'
    BY <1>6, WritesPreserveType
       DEF RequireInstall, TypeOK, StoreTypeOK, NextObservation, Actions
  <2>. QED BY <1>6, <2>1 DEF RequireInstall, TypeOK, StoreTypeOK, readers, waiters
<1>7. CASE WithdrawAllowance
  <2>1. observation' \in Nat /\ overtaken' \in SUBSET Readers
    BY <1>7 DEF WithdrawAllowance, NextObservation, TypeOK
  <2>2. StoreTypeOK'
    BY <1>7, <2>1 DEF WithdrawAllowance, TypeOK, StoreTypeOK
  <2>. QED BY <1>7, <2>2 DEF WithdrawAllowance, TypeOK, StoreTypeOK, readers, waiters
<1>. QED BY <1>1, <1>2, <1>3, <1>4, <1>5, <1>6, <1>7

LEMMA NextPreservesType ==
    ASSUME TypeOK, BegunKind, [Next]_vars
    PROVE  TypeOK' /\ BegunKind'
<1>1. ASSUME NEW kind \in Actions \cup {"Refresh"}, BeginOperation(kind)
      PROVE  TypeOK' /\ BegunKind'
  <2>1. observation' \in Nat /\ overtaken' \in SUBSET Readers
    BY <1>1 DEF BeginOperation, NextObservation, TypeOK
  <2>2. op' \in OpStates /\ BegunKind'
    BY <1>1 DEF BeginOperation, OpStates, OpSteps, BegunKind, OpAt
  <2>3. operationRunning' \in BOOLEAN
    BY <1>1 DEF BeginOperation
  <2>. QED BY <1>1, <2>1, <2>2, <2>3 DEF BeginOperation, TypeOK, readers, waiters
<1>2. CASE OpStep
  <2>1. ASSUME NEW pc \in OpSteps \ {"begun"}, To(pc) PROVE BegunKind'
    BY <2>1, OpMovesPreserveType DEF BegunKind, OpAt
  <2>2. ASSUME RequestPrivileged PROVE BegunKind'
    BY <2>2 DEF RequestPrivileged, BegunKind, OpAt, TypeOK, OpStates
  <2>3. ASSUME ReleaseSlot PROVE BegunKind'
    BY <2>3 DEF ReleaseSlot, BegunKind, OpAt, OpIdle
  <2>4. BegunKind'
    BY <1>2, <2>1, <2>2, <2>3 DEF OpStep, ProbeForRefresh, RunPrivileged, RecordUninstalled,
       ReprobeAfterFailure, CommitAfterFailure, AwaitReady, RestoreDisplaced, OpSteps
  <2>. QED BY <1>2, <2>4, OpStepPreservesType
<1>3. CASE NotifyWaiters
  <2>1. dropping' \in Nat
    BY <1>3 DEF NotifyWaiters, TypeOK
  <2>. QED BY <1>3, <2>1 DEF NotifyWaiters, TypeOK, BegunKind, OpAt, service, readers
<1>4. CASE \/ DetectStartup \/ \E h \in Detected : CommitStartup(h)
           \/ \E h \in Replied : ReportHealth(h)
           \/ AllowSidecarForSession
           \/ \E reason \in Reasons : AllowSidecarAfterRefusal(reason)
           \/ RequireInstall
           \/ WithdrawAllowance
  <2>1. UNCHANGED op
    BY <1>4 DEF DetectStartup, CommitStartup, ReportHealth, AllowSidecarForSession,
       AllowSidecarAfterRefusal, RequireInstall, WithdrawAllowance
  <2>. QED BY <1>4, <2>1, FreeStepPreservesType DEF BegunKind, OpAt
<1>5. ASSUME NEW w \in Waiters, WaiterStep(w) \/ CallAgain(w) PROVE TypeOK' /\ BegunKind'
  <2>1. UNCHANGED <<service, operationRunning, op, readers, dropping, overtaken>>
    BY <1>5 DEF WaiterStep, Enable, ReadFlag, CallAgain
  <2>. QED BY <1>5, <2>1, WaiterPreservesType DEF TypeOK, BegunKind, OpAt, service, readers
<1>6. CASE UNCHANGED vars
  BY <1>6 DEF vars, service, readers, waiters, TypeOK, BegunKind, OpAt
<1>. QED BY <1>1, <1>2, <1>3, <1>4, <1>5, <1>6 DEF Next

LEMMA InitType == Init => TypeOK /\ BegunKind
<1>. SUFFICES ASSUME Init PROVE TypeOK /\ BegunKind
  OBVIOUS
<1>1. op \in OpStates /\ BegunKind
  BY DEF Init, BegunKind, OpAt, OpIdle, OpStates, OpSteps
<1>2. waiter \in [Waiters -> WaiterStates]
  BY DEF Init, WaiterStates
<1>3. health \in Healths /\ reservation \in [Readers -> Nat]
  BY DEF Init, Healths
<1>. QED BY <1>1, <1>2, <1>3 DEF Init, TypeOK

\* Every variable keeps its type.
THEOREM TypeCorrect == Spec => []TypeOK
<1>1. TypeOK /\ BegunKind /\ [Next]_vars => (TypeOK /\ BegunKind)'
  BY NextPreservesType
<1>. QED BY InitType, <1>1, PTL DEF Spec

-----------------------------------------------------------------------------
(* The mutual exclusion of a question and an allowance needs no strengthening:
   every write of one of the two fields also writes the other. *)

LEMMA ExclusionPreserved ==
    ASSUME TypeOK, PendingExcludesSidecar, [Next]_vars
    PROVE  PendingExcludesSidecar'
<1>. USE DEF PendingExcludesSidecar
<1>1. ASSUME RestoreAllowance PROVE PendingExcludesSidecar'
  BY <1>1 DEF RestoreAllowance, AllowSidecar, service
<1>2. ASSUME NEW r, NEW h, CommitReserved(r, h) PROVE PendingExcludesSidecar'
  BY <1>2 DEF CommitReserved, Record
<1>3. ASSUME NEW r, Reserve(r) PROVE PendingExcludesSidecar'
  BY <1>3 DEF Reserve
<1>4. ASSUME NEW h, Observe(h) PROVE PendingExcludesSidecar'
  BY <1>4 DEF Observe, Record
<1>5. CASE OpStep
  BY <1>1, <1>2, <1>3, <1>4, <1>5
     DEF OpStep, ProbeForRefresh, RequestPrivileged, RequestAction, RunPrivileged,
         RecordUninstalled, ReprobeAfterFailure, CommitAfterFailure, AwaitReady,
         RestoreDisplaced, ReleaseSlot, service
<1>6. CASE \/ \E kind \in Actions \cup {"Refresh"} : BeginOperation(kind)
           \/ NotifyWaiters
           \/ \E w \in Waiters : WaiterStep(w) \/ CallAgain(w)
           \/ UNCHANGED vars
  <2>1. UNCHANGED <<pending, allowed>>
    BY <1>6 DEF BeginOperation, NotifyWaiters, WaiterStep, Enable, ReadFlag,
       CallAgain, service, vars
  <2>. QED BY <2>1
<1>7. ASSUME DetectStartup \/ \E h \in Detected : CommitStartup(h)
      PROVE  PendingExcludesSidecar'
  BY <1>2, <1>3, <1>7 DEF DetectStartup, CommitStartup
<1>8. CASE \/ \E h \in Replied : ReportHealth(h)
           \/ AllowSidecarForSession
           \/ \E reason \in Reasons : AllowSidecarAfterRefusal(reason)
           \/ RequireInstall
           \/ WithdrawAllowance
  BY <1>4, <1>8 DEF ReportHealth, AllowSidecarForSession, AllowSidecarAfterRefusal,
     AllowSidecar, RequireInstall, RequestAction, WithdrawAllowance
<1>. QED BY <1>5, <1>6, <1>7, <1>8 DEF Next

\* Of a pending action and a Sidecar allowance at most one is ever recorded.
THEOREM Exclusion == Spec => []PendingExcludesSidecar
<1>1. Init => PendingExcludesSidecar
  BY DEF Init, PendingExcludesSidecar
<1>2. TypeOK /\ PendingExcludesSidecar /\ [Next]_vars => PendingExcludesSidecar'
  BY ExclusionPreserved
<1>. QED BY <1>1, <1>2, TypeCorrect, PTL DEF Spec

-----------------------------------------------------------------------------
(* A reader's number.  FreshReservation is inductive once numbers in use are
   known to be distinct and never ahead of the store's. *)

ReservationInv ==
    /\ FreshReservation
    /\ \A r \in reading : reservation[r] <= observation
    /\ \A r, s \in reading : reservation[r] = reservation[s] => r = s

LEMMA NumberedWriteKeepsReservations ==
    ASSUME TypeOK, ReservationInv, NextObservation, UNCHANGED <<reading, reservation>>
    PROVE  ReservationInv'
BY DEF TypeOK, ReservationInv, FreshReservation, IsCurrent, NextObservation

LEMMA ReserveKeepsReservations ==
    ASSUME TypeOK, ReservationInv, NEW r \in Readers, Reserve(r)
    PROVE  ReservationInv'
<1>1. /\ reservation' \in [Readers -> Nat]
      /\ reservation'[r] = observation + 1
      /\ \A s \in Readers : s # r => reservation'[s] = reservation[s]
      /\ observation' = observation + 1
      /\ reading' = reading \cup {r}
      /\ overtaken' = (overtaken \cup reading) \ {r}
  BY DEF Reserve, TypeOK
<1>2. reading \subseteq Readers /\ observation \in Nat
  BY DEF TypeOK
<1>3. \A s \in reading : reservation[s] \in Nat /\ reservation[s] <= observation
  BY <1>2 DEF TypeOK, ReservationInv
<1>4. FreshReservation'
  BY <1>1, <1>2, <1>3 DEF FreshReservation, IsCurrent
<1>5. \A s \in reading' : reservation'[s] <= observation'
  BY <1>1, <1>2, <1>3
<1>6. \A s, t \in reading' : reservation'[s] = reservation'[t] => s = t
  BY <1>1, <1>2, <1>3 DEF ReservationInv
<1>. QED BY <1>4, <1>5, <1>6 DEF ReservationInv

LEMMA CommitKeepsReservations ==
    ASSUME TypeOK, ReservationInv, NEW r \in reading, NEW h, CommitReserved(r, h)
    PROVE  ReservationInv'
BY DEF TypeOK, ReservationInv, FreshReservation, IsCurrent, CommitReserved

\* A step writes the store with a number, reserves, commits, or leaves the
\* readers, the number and the history alone.
ReservationStep ==
    \/ NextObservation /\ UNCHANGED <<reading, reservation>>
    \/ \E r \in Readers : Reserve(r)
    \/ \E r \in reading, h \in Healths : CommitReserved(r, h)
    \/ UNCHANGED <<observation, overtaken, reading, reservation>>

LEMMA ReservationCases ==
    ASSUME [Next]_vars
    PROVE  ReservationStep
<1>. USE DEF ReservationStep
<1>1. ASSUME RestoreAllowance
      PROVE  NextObservation \/ UNCHANGED <<observation, overtaken>>
  BY <1>1 DEF RestoreAllowance, AllowSidecar, service
<1>2. ASSUME ProbeForRefresh \/ RequestPrivileged \/ RunPrivileged \/ RecordUninstalled
             \/ (\E h \in Replied : AwaitReady(h)) \/ RestoreDisplaced \/ ReleaseSlot
      PROVE  ReservationStep
  BY <1>1, <1>2
     DEF ProbeForRefresh, RequestPrivileged, RequestAction, RunPrivileged, RecordUninstalled,
         AwaitReady, Observe, RestoreDisplaced, ReleaseSlot, service, readers
<1>3. ASSUME ReprobeAfterFailure \/ \E h \in Detected : CommitAfterFailure(h)
      PROVE  ReservationStep
  BY <1>3 DEF ReprobeAfterFailure, CommitAfterFailure, CommitReserved, Detected, Readers
<1>4. ASSUME DetectStartup \/ \E h \in Detected : CommitStartup(h)
      PROVE  ReservationStep
  BY <1>4 DEF DetectStartup, CommitStartup, CommitReserved, Detected, Readers
<1>5. CASE \/ \E kind \in Actions \cup {"Refresh"} : BeginOperation(kind)
           \/ \E h \in Replied : ReportHealth(h)
           \/ AllowSidecarForSession
           \/ \E reason \in Reasons : AllowSidecarAfterRefusal(reason)
           \/ RequireInstall
           \/ WithdrawAllowance
  BY <1>5 DEF BeginOperation, ReportHealth, Observe, AllowSidecarForSession,
     AllowSidecarAfterRefusal, AllowSidecar, RequireInstall, RequestAction, WithdrawAllowance,
     readers
<1>6. CASE NotifyWaiters \/ (\E w \in Waiters : WaiterStep(w) \/ CallAgain(w)) \/ UNCHANGED vars
  BY <1>6 DEF NotifyWaiters, WaiterStep, Enable, ReadFlag, CallAgain, service,
     readers, vars
<1>. QED BY <1>2, <1>3, <1>4, <1>5, <1>6 DEF Next, OpStep

LEMMA ReservationPreserved ==
    ASSUME TypeOK, ReservationInv, [Next]_vars
    PROVE  ReservationInv'
<1>1. CASE UNCHANGED <<observation, overtaken, reading, reservation>>
  BY <1>1 DEF ReservationInv, FreshReservation, IsCurrent
<1>. QED BY <1>1, ReservationCases, NumberedWriteKeepsReservations, ReserveKeepsReservations,
            CommitKeepsReservations DEF ReservationStep

\* The number test is exact: a reading is current when nothing was recorded, and
\* no other reading began, since it reserved its number.
THEOREM ReservationsExact == Spec => []FreshReservation
<1>1. Init => ReservationInv
  BY DEF Init, ReservationInv, FreshReservation
<1>2. TypeOK /\ ReservationInv /\ [Next]_vars => ReservationInv'
  BY ReservationPreserved
<1>3. ReservationInv => FreshReservation
  BY DEF ReservationInv
<1>. QED BY <1>1, <1>2, <1>3, TypeCorrect, PTL DEF Spec

\* A reading that was overtaken is thrown away when it arrives.
THEOREM StaleReadings == Spec => StaleReadingDiscarded
<1>. DEFINE Discards == \A r \in reading : r \in overtaken /\ r \notin reading'
                            => UNCHANGED <<health, pending, allowed>>
<1>1. FreshReservation /\ [Next]_vars => [Discards]_vars
  <2>. SUFFICES ASSUME FreshReservation, [Next]_vars, NEW r \in reading, r \in overtaken,
                       r \notin reading'
                PROVE  UNCHANGED <<health, pending, allowed>>
    OBVIOUS
  <2>1. PICK s \in reading, h \in Healths : CommitReserved(s, h)
    BY ReservationCases DEF ReservationStep, Reserve
  <2>2. s = r
    BY <2>1 DEF CommitReserved
  <2>. QED BY <2>1, <2>2 DEF CommitReserved, FreshReservation
<1>2. Spec => [][Discards]_vars
  BY <1>1, ReservationsExact, PTL DEF Spec
<1>. QED BY <1>2 DEF StaleReadingDiscarded

-----------------------------------------------------------------------------
(* The question a failed operation leaves.  The startup detection has finished
   before anything can ask for an operation, so the only reading an operation's
   own reading can lose to is one that answered the question. *)

QuestionInv ==
    /\ operationRunning <=> ~OpAt("idle")
    /\ op.pc \in {"idle", "begun", "probe", "restore", "release"} => Answered
    /\ OpAt("reprobing") /\ Op \in overtaken => Answered

\* No operation runs before the startup detection began.
DetectedFirst == ~begun => OpAt("idle")

LEMMA DetectedFirstPreserved ==
    ASSUME DetectedFirst, [Next]_vars
    PROVE  DetectedFirst'
<1>. USE DEF DetectedFirst, OpAt
<1>1. ASSUME OpStep PROVE begun /\ begun' = begun
  BY <1>1 DEF OpStep, ProbeForRefresh, RequestPrivileged, RunPrivileged, RecordUninstalled,
     ReprobeAfterFailure, CommitAfterFailure, AwaitReady, RestoreDisplaced, ReleaseSlot, readers
<1>2. ASSUME NEW kind \in Actions \cup {"Refresh"}, BeginOperation(kind)
      PROVE  begun /\ begun' = begun
  BY <1>2 DEF BeginOperation, MayStart, StartupDone, readers
<1>3. ASSUME DetectStartup \/ \E h \in Detected : CommitStartup(h)
      PROVE  op' = op /\ (begun => begun')
  BY <1>3 DEF DetectStartup, CommitStartup
<1>4. ASSUME \/ NotifyWaiters
             \/ \E h \in Replied : ReportHealth(h)
             \/ AllowSidecarForSession
             \/ \E reason \in Reasons : AllowSidecarAfterRefusal(reason)
             \/ RequireInstall
             \/ WithdrawAllowance
             \/ \E w \in Waiters : WaiterStep(w) \/ CallAgain(w)
             \/ UNCHANGED vars
      PROVE  op' = op /\ begun' = begun
  BY <1>4 DEF NotifyWaiters, ReportHealth, AllowSidecarForSession, AllowSidecarAfterRefusal,
     RequireInstall, WithdrawAllowance, WaiterStep, Enable, ReadFlag, CallAgain,
     readers, vars
<1>. QED BY <1>1, <1>2, <1>3, <1>4 DEF Next

LEMMA QuestionPreserved ==
    ASSUME DetectedFirst, TypeOK, FreshReservation, PendingExcludesSidecar, QuestionInv,
           [Next]_vars
    PROVE  QuestionInv'
<1>. USE DEF QuestionInv, OpAt
<1>a. ASSUME NEW pc \in OpSteps, To(pc) PROVE op'.pc = pc
  BY <1>a, OpMovesPreserveType
<1>b. ASSUME NEW h, Observe(h) PROVE Answered'
  BY <1>b DEF Observe, Record, Answered
<1>c. ASSUME Answered, RestoreAllowance PROVE Answered'
  BY <1>c DEF RestoreAllowance, AllowSidecar, Answered, service
<1>1. ASSUME NEW kind \in Actions \cup {"Refresh"}, BeginOperation(kind) PROVE QuestionInv'
  BY <1>1 DEF BeginOperation, Answered
<1>2. ASSUME ProbeForRefresh PROVE QuestionInv'
  BY <1>2, <1>a, <1>b DEF ProbeForRefresh, Answered, service, OpSteps
<1>3. ASSUME RequestPrivileged PROVE QuestionInv'
  BY <1>3 DEF RequestPrivileged, TypeOK, OpStates
<1>4. ASSUME RunPrivileged PROVE QuestionInv'
  BY <1>4, <1>a DEF RunPrivileged, OpSteps
<1>5. ASSUME RecordUninstalled PROVE QuestionInv'
  BY <1>5, <1>a, <1>b DEF RecordUninstalled, OpSteps
<1>6. ASSUME ReprobeAfterFailure PROVE QuestionInv'
  BY <1>6, <1>a DEF ReprobeAfterFailure, Reserve, OpSteps
<1>7. ASSUME NEW h \in Detected, CommitAfterFailure(h) PROVE QuestionInv'
  <2>1. Answered'
    BY <1>7 DEF CommitAfterFailure, CommitReserved, Record, Answered, FreshReservation
  <2>. QED BY <1>7, <1>a, <2>1 DEF CommitAfterFailure, OpSteps
<1>8. ASSUME NEW h \in Replied, AwaitReady(h) PROVE QuestionInv'
  BY <1>8, <1>a, <1>b DEF AwaitReady, OpSteps
<1>9. ASSUME RestoreDisplaced PROVE QuestionInv'
  BY <1>9, <1>a, <1>c DEF RestoreDisplaced, Answered, service, OpSteps
<1>10. ASSUME ReleaseSlot PROVE QuestionInv'
  BY <1>10 DEF ReleaseSlot, OpIdle, Answered, service
<1>11. ASSUME NEW h \in Replied, ReportHealth(h) PROVE QuestionInv'
  BY <1>11, <1>b DEF ReportHealth
<1>12. ASSUME \/ AllowSidecarForSession
              \/ \E reason \in Reasons : AllowSidecarAfterRefusal(reason)
       PROVE  QuestionInv'
  BY <1>12 DEF AllowSidecarForSession, AllowSidecarAfterRefusal, AllowSidecar, Answered
<1>13. ASSUME RequireInstall PROVE QuestionInv'
  BY <1>13 DEF RequireInstall, RequestAction, Answered
<1>14. ASSUME WithdrawAllowance PROVE QuestionInv'
  BY <1>14 DEF WithdrawAllowance, PendingExcludesSidecar, Answered
<1>15. ASSUME NotifyWaiters \/ (\E w \in Waiters : WaiterStep(w) \/ CallAgain(w)) \/ UNCHANGED vars
       PROVE  QuestionInv'
  <2>1. UNCHANGED <<health, pending, operationRunning, op, overtaken>>
    BY <1>15 DEF NotifyWaiters, WaiterStep, Enable, ReadFlag, CallAgain, service,
       vars
  <2>. QED BY <2>1 DEF Answered
<1>16. ASSUME DetectStartup PROVE QuestionInv'
  BY <1>16 DEF DetectStartup, DetectedFirst, Reserve, Answered
<1>17. ASSUME NEW h \in Detected, CommitStartup(h) PROVE QuestionInv'
  BY <1>17 DEF CommitStartup, CommitReserved, Record, Answered
<1>. QED BY <1>1, <1>2, <1>3, <1>4, <1>5, <1>6, <1>7, <1>8, <1>9, <1>10, <1>11, <1>12, <1>13,
            <1>14, <1>15, <1>16, <1>17 DEF Next, OpStep

\* Once an operation has released the slot its question is answered: only the
\* installation that startup requires of an absent Service may be pending.
THEOREM QuestionsAnswered == Spec => []NoOrphanQuestion
<1>1. Init => QuestionInv /\ DetectedFirst
  BY DEF Init, QuestionInv, DetectedFirst, Answered, OpAt, OpIdle
<1>2. /\ TypeOK /\ FreshReservation /\ PendingExcludesSidecar
      /\ QuestionInv /\ DetectedFirst /\ [Next]_vars
      => QuestionInv' /\ DetectedFirst'
  BY QuestionPreserved, DetectedFirstPreserved
<1>3. QuestionInv => NoOrphanQuestion
  BY DEF QuestionInv, NoOrphanQuestion, OpAt
<1>. QED BY <1>1, <1>2, <1>3, TypeCorrect, ReservationsExact, Exclusion, PTL DEF Spec

LEMMA ReadyPreserved ==
    ASSUME TypeOK, NoOrphanQuestion, NeverShadowsReady, [Next]_vars
    PROVE  NeverShadowsReady'
<1>. USE DEF NeverShadowsReady
<1>1. ASSUME RestoreAllowance PROVE NeverShadowsReady'
  BY <1>1 DEF RestoreAllowance, AllowSidecar, service
<1>2. ASSUME NEW r, NEW h, CommitReserved(r, h) PROVE NeverShadowsReady'
  BY <1>2 DEF CommitReserved, Record
<1>3. ASSUME NEW r, Reserve(r) PROVE NeverShadowsReady'
  BY <1>3 DEF Reserve
<1>4. ASSUME NEW h, Observe(h) PROVE NeverShadowsReady'
  BY <1>4 DEF Observe, Record
<1>5. ASSUME OpStep PROVE NeverShadowsReady'
  BY <1>1, <1>2, <1>3, <1>4, <1>5
     DEF OpStep, ProbeForRefresh, RequestPrivileged, RequestAction, RunPrivileged,
         RecordUninstalled, ReprobeAfterFailure, CommitAfterFailure, AwaitReady,
         RestoreDisplaced, ReleaseSlot, service
<1>6. ASSUME \/ \E kind \in Actions \cup {"Refresh"} : BeginOperation(kind)
             \/ NotifyWaiters
             \/ \E w \in Waiters : WaiterStep(w) \/ CallAgain(w)
             \/ UNCHANGED vars
      PROVE  NeverShadowsReady'
  <2>1. UNCHANGED <<health, allowed>>
    BY <1>6 DEF BeginOperation, NotifyWaiters, WaiterStep, Enable, ReadFlag,
       CallAgain, service, vars
  <2>. QED BY <2>1
<1>7. ASSUME DetectStartup \/ \E h \in Detected : CommitStartup(h)
      PROVE  NeverShadowsReady'
  BY <1>2, <1>3, <1>7 DEF DetectStartup, CommitStartup
<1>8. ASSUME AllowSidecarForSession PROVE NeverShadowsReady'
  BY <1>8, RunStateAssumption
     DEF AllowSidecarForSession, AllowSidecar, NoOrphanQuestion, Answered, NoAction
<1>9. ASSUME NEW reason \in Reasons, AllowSidecarAfterRefusal(reason)
      PROVE  NeverShadowsReady'
  BY <1>9, RunStateAssumption DEF AllowSidecarAfterRefusal
<1>10. ASSUME (\E h \in Replied : ReportHealth(h)) \/ RequireInstall \/ WithdrawAllowance
       PROVE  NeverShadowsReady'
  BY <1>4, <1>10 DEF ReportHealth, RequireInstall, RequestAction, WithdrawAllowance
<1>. QED BY <1>5, <1>6, <1>7, <1>8, <1>9, <1>10 DEF Next

\* An allowance never hides a Service known to be ready.
THEOREM ReadyNeverShadowed == Spec => []NeverShadowsReady
<1>1. Init => NeverShadowsReady
  BY DEF Init, NeverShadowsReady
<1>2. TypeOK /\ NoOrphanQuestion /\ NeverShadowsReady /\ [Next]_vars => NeverShadowsReady'
  BY ReadyPreserved
<1>. QED BY <1>1, <1>2, TypeCorrect, QuestionsAnswered, PTL DEF Spec

(* Whatever the order of requests, allowances, readings and operations, the
   decisions recorded in the store agree with each other. *)
THEOREM DecisionsAlwaysAgree == Spec => []DecisionsAgree
BY Exclusion, QuestionsAnswered, ReadyNeverShadowed, PTL DEF DecisionsAgree

-----------------------------------------------------------------------------
(* ProviderSync: the inductive invariant *)

Reads == {"next", "head", "tail"}
Judges == {"verify", "publish", "rename"}
Active == {"begin"} \cup Reads \cup Judges
HoldsCache(t) == task[t].pc \in {"head", "tail"}
Reading(t) == task[t].pc \in Reads \cup Judges

TaskFields == {"pc", "attempt", "session", "todo", "cache", "before", "after", "fetched", "ready",
               "allowed", "pending", "apart"}

Shapes ==
    /\ DOMAIN task = Tasks /\ \A t \in Tasks : DOMAIN task[t] = TaskFields
    /\ DOMAIN svc = {"session", "files"} /\ DOMAIN update = {"pc", "config", "asked"}
    /\ DOMAIN core = {"up", "config", "loaded"}

\* One pass at a time, and a publication only under the lifecycle lock.
Turns ==
    \A t \in Tasks :
        /\ task[t].pc \in {"idle", "serial"} \cup Active
        /\ task[t].pc \in Active <=> serial = t
        /\ task[t].pc = "rename" <=> lifecycle = t
        /\ task[t].pc \notin Reads \cup {"verify"} => task[t].fetched = {}
        /\ task[t].pc \notin Judges => task[t].ready = {}

\* An update that stages, reloads or replaces the core has the lock, and what it
\* applies can be generated.
Updating ==
    /\ update.pc \in {"stage", "reload", "replace"} => lifecycle = Update
    /\ update.config \in Generated /\ runtime \in Generated
    /\ core.up => core.config \in Generated
    /\ svc.session \in Nat \ {0} /\ session \in Nat /\ session <= svc.session

\* The temporary files are those of the caches the pass has.
TempsOfPass(t) ==
    TempsOf(t, task[t].fetched \cup task[t].ready)
        \cup (IF HoldsCache(t) THEN {Temp(t, task[t].cache.declared)} ELSE {})
TempsBelong == ~lost => temps \subseteq (IF serial \in Tasks THEN TempsOfPass(serial) ELSE {})

Dated(file) == file.stamp \in Nat /\ file.stamp <= stamp

\* Something was loaded from d at this time, and the core writes forward only.
LoadedFrom(d, time) ==
    /\ time \in Nat /\ time <= stamp
    /\ d \in DOMAIN svc.files =>
        /\ svc.files[d].stamp >= time
        /\ svc.files[d].stamp = time => svc.files[d].whole

FilesAreDated == stamp \in Nat /\ \A d \in DOMAIN svc.files : Dated(svc.files[d])

CoreLoaded ==
    \A n \in DOMAIN core.loaded :
        /\ core.up
        /\ \E r \in ProvidersOf(core.config) : r.name = n /\ LoadedFrom(r.destination, core.loaded[n])

\* What was published is no newer than the file the Service has in that session.
AppIsOlder ==
    \A d \in DOMAIN app :
        /\ Dated(app[d]) /\ app[d].session \in Nat /\ app[d].session <= svc.session
        /\ app[d].session = svc.session /\ d \in DOMAIN svc.files => svc.files[d].stamp >= app[d].stamp

\* The caches of a pass that have a file, and what it is about.
Read(t) == task[t].fetched \cup task[t].ready
Caches(t) == Read(t) \cup (IF task[t].pc = "tail" THEN {task[t].cache} ELSE {})
DeclaredBy(t) ==
    {c.declared : c \in Read(t)} \cup task[t].todo \cup (IF HoldsCache(t) THEN {task[t].cache.declared} ELSE {})

\* Each provider is still to be read, is being read or was read, once.
OneEach(t) ==
    /\ \A c \in Read(t) : c.declared \notin task[t].todo
    /\ \A b, c \in Read(t) : b.declared = c.declared => b = c
    /\ HoldsCache(t) =>
        /\ DOMAIN task[t].cache = {"declared", "file"}
        /\ task[t].cache.declared \notin task[t].todo
        /\ \A c \in Read(t) : c.declared # task[t].cache.declared

\* It began in a session, with the providers of one configuration.
Declared(t) ==
    /\ task[t].session \in Nat \ {0} /\ task[t].session <= svc.session
    /\ Distinct(DeclaredBy(t)) /\ OneEach(t)

\* It knows when the core of its configuration loaded this provider.
Knows(t, r) == ~task[t].apart /\ task[t].before # None /\ r.name \in DOMAIN task[t].before

Compared(t) ==
    /\ \A r \in DeclaredBy(t) : Knows(t, r) => LoadedFrom(r.destination, task[t].before[r.name])
    /\ \A c \in Caches(t) : Knows(t, c.declared) =>
        /\ c.file.stamp >= task[t].before[c.declared.name]
        /\ c.file.stamp = task[t].before[c.declared.name] => c.file.whole

\* A cache is between what the session has published and what it will.
Ordered(t) ==
    \A c \in Caches(t) :
        LET d == c.declared.destination IN
        /\ Dated(c.file)
        /\ d \in DOMAIN app /\ app[d].session = task[t].session => c.file.stamp >= app[d].stamp
        /\ d \in DOMAIN svc.files /\ svc.session = task[t].session => svc.files[d].stamp >= c.file.stamp

\* What may be published.
Judged(t) ==
    /\ task[t].pc \in Judges => task[t].before # None
    /\ \A c \in task[t].ready : Knows(t, c.declared) => c.file.whole
    /\ task[t].pc = "rename" /\ task[t].allowed # {} => StillServed(t)

PassOK(t) == Declared(t) /\ Compared(t) /\ Ordered(t) /\ Judged(t)
PassesOK == \A t \in Tasks : Reading(t) => PassOK(t)

SyncInv ==
    /\ SyncTypeOK /\ Shapes /\ Turns /\ Updating /\ TempsBelong
    /\ FilesAreDated /\ CoreLoaded /\ AppIsOlder /\ PassesOK
-----------------------------------------------------------------------------
(* Facts about single definitions *)

LEMMA NoneLoaded == DOMAIN <<>> = {}
OBVIOUS

LEMMA SleepingFields ==
    /\ DOMAIN Sleeping = TaskFields /\ Sleeping.pc = "idle" /\ Sleeping.attempt = 0
    /\ Sleeping.fetched = {} /\ Sleeping.ready = {}
BY DEF Sleeping, TaskFields

\* A task that waits for its turn.
Waiting(r) ==
    /\ DOMAIN r = TaskFields /\ r.pc = "serial" /\ r.attempt \in 0 .. MaxAttempts
    /\ r.fetched = {} /\ r.ready = {}

LEMMA WaitingFields ==
    ASSUME NEW n \in 0 .. MaxAttempts
    PROVE  Waiting([Sleeping EXCEPT !.pc = "serial", !.attempt = n])
BY SleepingFields DEF Waiting, TaskFields

LEMMA SetFacts ==
    ASSUME Shapes, NEW t \in Tasks, NEW r, Set(t, r), DOMAIN r = TaskFields
    PROVE  /\ DOMAIN task' = Tasks /\ task'[t] = r /\ \A u \in Tasks \ {t} : task'[u] = task[u]
           /\ \A u \in Tasks : DOMAIN task'[u] = TaskFields
BY DEF Shapes, Set

LEMMA Assumptions ==
    /\ MaxAttempts \in Nat \ {0} /\ MaxSession \in Nat \ {0} /\ None \notin Nat
    /\ Free \notin Tasks /\ Update \notin Tasks /\ Free # Update
    /\ \A config \in Generated : Distinct(ProvidersOf(config))
BY ProviderSyncAssumption DEF Free, Update

LEMMA FirstGenerated ==
    /\ Resolved(First) \in Generated /\ <<>> \in Generated
    /\ \A config \in Configs : Resolved(config) \in Generated
<1>1. <<>> = Resolved(<<>>)
  BY DEF Resolved, ResolveProviderPathConflicts
<1>. QED BY <1>1 DEF Generated

-----------------------------------------------------------------------------
(* What everybody but a pass may do *)

TasksWait ==
    /\ UNCHANGED <<serial, temps, lost>> /\ DOMAIN task' = Tasks
    /\ \A u \in Tasks : task'[u] = task[u] \/ (task[u].pc = "idle" /\ Waiting(task'[u]))

FilesGrow ==
    /\ stamp' \in {stamp, stamp + 1}
    /\ DOMAIN svc' = {"session", "files"} /\ svc'.session \in {svc.session, svc.session + 1}
    /\ \A d \in DOMAIN svc'.files :
        \/ /\ d \in DOMAIN svc.files /\ svc'.files[d].stamp = svc.files[d].stamp
           /\ svc'.files[d].whole = svc.files[d].whole
        \/ stamp' = stamp + 1 /\ svc'.files[d].stamp = stamp'

AppGrows ==
    \A d \in DOMAIN app' :
        \/ d \in DOMAIN app /\ app'[d] = app[d]
        \/ app'[d].stamp = stamp' /\ app'[d].session = 0

LocksKept ==
    /\ lifecycle' = lifecycle \/ (lifecycle \in {Free, Update} /\ lifecycle' \in {Free, Update})
    /\ lifecycle \in Tasks => mode' = mode /\ session' = session

HostMove == TasksWait /\ FilesGrow /\ AppGrows /\ LocksKept

LEMMA RequestWaits ==
    ASSUME Shapes, RequestRuntimeProviderSync
    PROVE  TasksWait
<1>1. CASE queued
  BY <1>1 DEF RequestRuntimeProviderSync, TasksWait, Shapes
<1>2. CASE ~queued
  <2>. DEFINE t == CHOOSE t \in Tasks : task[t].pc = "idle"
  <2>. DEFINE r == [Sleeping EXCEPT !.pc = "serial", !.attempt = 1]
  <2>1. t \in Tasks /\ task[t].pc = "idle"
    BY <1>2 DEF RequestRuntimeProviderSync
  <2>2. task' = [task EXCEPT ![t] = r] /\ UNCHANGED <<serial, temps, lost>>
    BY <1>2 DEF RequestRuntimeProviderSync
  <2>3. Waiting(r)
    <3>1. 1 \in 0 .. MaxAttempts
      BY Assumptions
    <3>. QED BY <3>1, WaitingFields
  <2>. HIDE DEF t, r
  <2>. QED BY <2>1, <2>2, <2>3 DEF TasksWait, Shapes
<1>. QED BY <1>1, <1>2

LEMMA StillWaiting ==
    ASSUME Shapes, UNCHANGED <<task, serial, temps, lost>>
    PROVE  TasksWait
BY DEF TasksWait, Shapes

LEMMA FilesStay ==
    ASSUME Shapes, UNCHANGED <<svc, stamp>>
    PROVE  FilesGrow
BY DEF FilesGrow, Shapes

LEMMA LoadedKept ==
    ASSUME FilesAreDated, FilesGrow, NEW d, NEW time, LoadedFrom(d, time)
    PROVE  LoadedFrom(d, time)'
BY DEF FilesAreDated, FilesGrow, LoadedFrom

LEMMA HostKeepsTurns ==
    ASSUME SyncInv, HostMove
    PROVE  Turns' /\ TempsBelong' /\ FilesAreDated' /\ AppIsOlder' /\ \A t \in Tasks : DOMAIN task'[t] = TaskFields
<1>. USE DEF HostMove
<1>1. \A u \in Tasks : DOMAIN task'[u] = TaskFields
  BY DEF TasksWait, Waiting, SyncInv, Shapes
<1>2. Turns'
  <2>. SUFFICES ASSUME NEW u \in Tasks
       PROVE  /\ task'[u].pc \in {"idle", "serial"} \cup Active
              /\ task'[u].pc \in Active <=> serial' = u
              /\ task'[u].pc = "rename" <=> lifecycle' = u
              /\ task'[u].pc \notin Reads \cup {"verify"} => task'[u].fetched = {}
              /\ task'[u].pc \notin Judges => task'[u].ready = {}
    BY DEF Turns
  <2>1. lifecycle' = u <=> lifecycle = u
    BY Assumptions DEF LocksKept
  <2>2. CASE task'[u] = task[u]
    BY <2>1, <2>2 DEF SyncInv, Turns, TasksWait
  <2>3. CASE task[u].pc = "idle" /\ Waiting(task'[u])
    BY <2>1, <2>3 DEF SyncInv, Turns, TasksWait, Waiting, Active, Reads, Judges
  <2>. QED BY <2>2, <2>3 DEF TasksWait
<1>3. TempsBelong'
  <2>1. CASE serial \in Tasks
    <3>1. task'[serial] = task[serial]
      BY <2>1 DEF SyncInv, Turns, TasksWait, Active, Reads, Judges
    <3>2. TempsOfPass(serial)' = TempsOfPass(serial)
      BY <3>1 DEF TempsOfPass, TempsOf, HoldsCache, TasksWait
    <3>. QED BY <3>2, <2>1 DEF SyncInv, TempsBelong, TasksWait
  <2>2. CASE serial \notin Tasks
    BY <2>2 DEF SyncInv, TempsBelong, TasksWait
  <2>. QED BY <2>1, <2>2
<1>4. FilesAreDated'
  BY DEF SyncInv, FilesAreDated, FilesGrow, Dated
<1>5. AppIsOlder'
  <2>. SUFFICES ASSUME NEW d \in DOMAIN app'
       PROVE  /\ app'[d].stamp \in Nat /\ app'[d].stamp <= stamp'
              /\ app'[d].session \in Nat /\ app'[d].session <= svc'.session
              /\ app'[d].session = svc'.session /\ d \in DOMAIN svc'.files =>
                    svc'.files[d].stamp >= app'[d].stamp
    BY DEF AppIsOlder, Dated
  <2>0. /\ stamp \in Nat /\ stamp' \in {stamp, stamp + 1}
        /\ svc.session \in Nat \ {0} /\ svc'.session \in {svc.session, svc.session + 1}
    BY DEF SyncInv, FilesAreDated, FilesGrow, Updating
  <2>1. CASE d \in DOMAIN app /\ app'[d] = app[d]
    <3>1. /\ app[d].stamp \in Nat /\ app[d].stamp <= stamp
          /\ app[d].session \in Nat /\ app[d].session <= svc.session
          /\ app[d].session = svc.session /\ d \in DOMAIN svc.files => svc.files[d].stamp >= app[d].stamp
      BY <2>1 DEF SyncInv, AppIsOlder, Dated
    <3>2. d \in DOMAIN svc'.files => \/ d \in DOMAIN svc.files /\ svc'.files[d].stamp = svc.files[d].stamp
                                     \/ stamp' = stamp + 1 /\ svc'.files[d].stamp = stamp'
      BY DEF FilesGrow
    <3>. QED BY <2>0, <2>1, <3>1, <3>2
  <2>2. CASE app'[d].stamp = stamp' /\ app'[d].session = 0
    BY <2>0, <2>2
  <2>. QED BY <2>1, <2>2 DEF AppGrows
<1>. QED BY <1>1, <1>2, <1>3, <1>4, <1>5

LEMMA HostKeepsPasses ==
    ASSUME SyncInv, HostMove
    PROVE  PassesOK'
<1>. USE DEF HostMove
<1>. SUFFICES ASSUME NEW t \in Tasks, Reading(t)' PROVE PassOK(t)'
  BY DEF PassesOK
<1>1. task'[t] = task[t]
  BY DEF TasksWait, Waiting, Reading, Reads, Judges
<1>2. PassOK(t)
  BY <1>1 DEF SyncInv, PassesOK, Reading
<1>3. /\ DeclaredBy(t)' = DeclaredBy(t) /\ Caches(t)' = Caches(t) /\ Read(t)' = Read(t)
      /\ HoldsCache(t)' = HoldsCache(t)
  BY <1>1 DEF DeclaredBy, Caches, Read, HoldsCache
<1>4. Declared(t)'
  <2>1. svc.session \in Nat /\ svc'.session \in {svc.session, svc.session + 1}
    BY DEF SyncInv, Updating, FilesGrow
  <2>2. task[t].session \in Nat \ {0} /\ task[t].session <= svc'.session
    BY <1>2, <2>1 DEF PassOK, Declared
  <2>. QED BY <1>1, <1>2, <1>3, <2>2 DEF PassOK, Declared, OneEach
<1>5. Compared(t)'
  <2>1. \A r : Knows(t, r)' <=> Knows(t, r)
    BY <1>1 DEF Knows
  <2>2. ASSUME NEW r \in DeclaredBy(t), Knows(t, r)
        PROVE  LoadedFrom(r.destination, task[t].before[r.name])'
    <3>. SUFFICES ASSUME NEW time, time = task[t].before[r.name]
         PROVE  LoadedFrom(r.destination, time)'
      BY <1>1 DEF LoadedFrom
    <3>1. LoadedFrom(r.destination, time)
      BY <1>2, <2>2 DEF PassOK, Compared
    <3>. QED BY <3>1, LoadedKept DEF SyncInv
  <2>3. \A c \in Caches(t) : Knows(t, c.declared) =>
            /\ c.file.stamp >= task[t].before[c.declared.name]
            /\ c.file.stamp = task[t].before[c.declared.name] => c.file.whole
    BY <1>2 DEF PassOK, Compared
  <2>. QED BY <1>1, <1>3, <2>1, <2>2, <2>3 DEF Compared
<1>6. Ordered(t)'
  <2>. SUFFICES ASSUME NEW c \in Caches(t), NEW d, d = c.declared.destination
       PROVE  /\ c.file.stamp \in Nat /\ c.file.stamp <= stamp'
              /\ d \in DOMAIN app' /\ app'[d].session = task[t].session => c.file.stamp >= app'[d].stamp
              /\ d \in DOMAIN svc'.files /\ svc'.session = task[t].session => svc'.files[d].stamp >= c.file.stamp
    BY <1>1, <1>3 DEF Ordered, Dated
  <2>1. /\ c.file.stamp \in Nat /\ c.file.stamp <= stamp
        /\ d \in DOMAIN app /\ app[d].session = task[t].session => c.file.stamp >= app[d].stamp
        /\ d \in DOMAIN svc.files /\ svc.session = task[t].session => svc.files[d].stamp >= c.file.stamp
    BY <1>2 DEF PassOK, Ordered, Dated
  <2>2. task[t].session \in Nat \ {0} /\ task[t].session <= svc.session
    BY <1>2 DEF PassOK, Declared
  <2>3. /\ stamp \in Nat /\ stamp' \in {stamp, stamp + 1}
        /\ svc.session \in Nat \ {0} /\ svc'.session \in {svc.session, svc.session + 1}
    BY DEF SyncInv, FilesAreDated, FilesGrow, Updating
  <2>4. d \in DOMAIN app' => (d \in DOMAIN app /\ app'[d] = app[d]) \/ app'[d].session = 0
    BY DEF AppGrows
  <2>5. d \in DOMAIN svc'.files => \/ d \in DOMAIN svc.files /\ svc'.files[d].stamp = svc.files[d].stamp
                                   \/ stamp' = stamp + 1 /\ svc'.files[d].stamp = stamp'
    BY DEF FilesGrow
  <2>. QED BY <2>1, <2>2, <2>3, <2>4, <2>5
<1>7. Judged(t)'
  <2>1. task[t].pc = "rename" => lifecycle = t
    BY DEF SyncInv, Turns
  <2>2. task[t].pc = "rename" /\ task[t].allowed # {} => mode' = "Service" /\ session' = task[t].session
    BY <1>2, <2>1 DEF PassOK, Judged, StillServed, LocksKept
  <2>. QED BY <1>1, <1>2, <2>2 DEF PassOK, Judged, StillServed, Knows
<1>. QED BY <1>4, <1>5, <1>6, <1>7 DEF PassOK
-----------------------------------------------------------------------------
(* Each of those actions does no more *)

HostStep ==
    /\ HostMove /\ SyncTypeOK' /\ Updating' /\ CoreLoaded'
    /\ DOMAIN update' = {"pc", "config", "asked"} /\ DOMAIN core' = {"up", "config", "loaded"}

LEMMA KeptFacts ==
    ASSUME NEW config
    PROVE  \A d \in DOMAIN Kept(config) : d \in DOMAIN svc.files /\ Kept(config)[d] = svc.files[d]
BY DEF Kept

LEMMA KeepingGrows ==
    ASSUME SyncInv, UNCHANGED stamp, NEW config, svc'.files = Kept(config), DOMAIN svc' = {"session", "files"},
           svc'.session \in {svc.session, svc.session + 1}
    PROVE  FilesGrow
BY KeptFacts DEF FilesGrow

LEMMA CoreKept ==
    ASSUME SyncInv, FilesGrow, core' = core \/ DOMAIN core'.loaded = {}
    PROVE  CoreLoaded'
<1>1. CASE DOMAIN core'.loaded = {}
  BY <1>1 DEF CoreLoaded
<1>2. CASE core' = core
  <2>. SUFFICES ASSUME NEW n \in DOMAIN core.loaded
       PROVE  core.up /\ \E r \in ProvidersOf(core.config) :
                 r.name = n /\ LoadedFrom(r.destination, core.loaded[n])'
    BY <1>2 DEF CoreLoaded, LoadedFrom
  <2>1. core.up
    BY DEF SyncInv, CoreLoaded
  <2>2. PICK r \in ProvidersOf(core.config) : r.name = n /\ LoadedFrom(r.destination, core.loaded[n])
    BY DEF SyncInv, CoreLoaded
  <2>. SUFFICES ASSUME NEW time, time = core.loaded[n] PROVE LoadedFrom(r.destination, time)'
    BY <1>2, <2>1, <2>2 DEF LoadedFrom
  <2>. QED BY <2>2, LoadedKept DEF SyncInv
<1>. QED BY <1>1, <1>2

LEMMA NewCore ==
    /\ \A config : /\ DOMAIN Running(config) = {"up", "config", "loaded"}
                   /\ Running(config).config = config /\ DOMAIN Running(config).loaded = {}
    /\ DOMAIN Down = {"up", "config", "loaded"} /\ ~Down.up /\ DOMAIN Down.loaded = {}
BY NoneLoaded DEF Running, Down

LEMMA HostTypes ==
    ASSUME SyncInv, TasksWait, LocksKept, mode' \in {"Service", "Sidecar", "NotRunning"},
           session' \in {0, svc'.session} \cup 1 .. MaxSession
    PROVE  SyncTypeOK'
<1>1. \A t \in Tasks : task'[t].attempt \in 0 .. MaxAttempts
  BY DEF SyncInv, SyncTypeOK, TasksWait, Waiting
<1>2. lifecycle' \in {Free, Update} \cup Tasks /\ serial' \in {Free} \cup Tasks
  BY DEF SyncInv, SyncTypeOK, TasksWait, LocksKept
<1>. QED BY <1>1, <1>2 DEF SyncTypeOK

LEMMA UpdateFacts ==
    /\ NoUpdate.pc = "idle" /\ NoUpdate.config \in Generated /\ DOMAIN NoUpdate = {"pc", "config", "asked"}
BY FirstGenerated DEF NoUpdate

LEMMA MovesUpdate ==
    ASSUME SyncInv, NEW pc, UpdateTo(pc)
    PROVE  update'.pc = pc /\ update'.config = update.config /\ DOMAIN update' = {"pc", "config", "asked"}
BY DEF SyncInv, Shapes, UpdateTo

LEMMA AppStays ==
    ASSUME UNCHANGED app
    PROVE  AppGrows
BY DEF AppGrows

LEMMA RequestIsHostStep ==
    ASSUME SyncInv, SyncRuntimeProviders
    PROVE  HostStep
<1>1. TasksWait
  BY RequestWaits DEF SyncInv, SyncRuntimeProviders
<1>2. UNCHANGED <<hostVars, svc, app, stamp>>
  BY DEF SyncRuntimeProviders
<1>3. FilesGrow /\ AppGrows /\ LocksKept
  BY <1>2, FilesStay, AppStays DEF SyncInv, LocksKept, hostVars
<1>4. SyncTypeOK'
  BY <1>1, <1>2, <1>3, HostTypes DEF SyncInv, SyncTypeOK, hostVars
<1>5. CoreLoaded'
  BY <1>2, <1>3, CoreKept DEF hostVars
<1>. QED BY <1>1, <1>2, <1>3, <1>4, <1>5 DEF HostStep, HostMove, SyncInv, Updating, Shapes, hostVars

LEMMA StartUpdateIsHostStep ==
    ASSUME SyncInv, NEW config \in Configs, StartUpdate(config)
    PROVE  HostStep
<1>1. UNCHANGED <<syncVars, mode, session, lifecycle, runtime, core, svc, app, stamp>>
  BY DEF StartUpdate
<1>2. TasksWait /\ FilesGrow /\ AppGrows /\ LocksKept
  BY <1>1, StillWaiting, FilesStay, AppStays DEF SyncInv, LocksKept, syncVars
<1>3. SyncTypeOK'
  BY <1>1, <1>2, HostTypes DEF SyncInv, SyncTypeOK
<1>4. CoreLoaded'
  BY <1>1, <1>2, CoreKept
<1>5. update'.pc = "apply" /\ update'.config \in Generated /\ DOMAIN update' = {"pc", "config", "asked"}
  BY FirstGenerated DEF StartUpdate
<1>. QED BY <1>1, <1>2, <1>3, <1>4, <1>5 DEF HostStep, HostMove, SyncInv, Updating, Shapes

LEMMA ApplyIsHostStep ==
    ASSUME SyncInv, ApplyToSidecar
    PROVE  HostStep
<1>1. /\ UNCHANGED <<syncVars, mode, session, lifecycle, runtime, svc, app, stamp>>
      /\ core' = Running(update.config)
  BY DEF ApplyToSidecar
<1>2. TasksWait /\ FilesGrow /\ AppGrows /\ LocksKept
  BY <1>1, StillWaiting, FilesStay, AppStays DEF SyncInv, LocksKept, syncVars
<1>3. SyncTypeOK'
  BY <1>1, <1>2, HostTypes DEF SyncInv, SyncTypeOK
<1>4. CoreLoaded'
  BY <1>1, <1>2, CoreKept, NewCore
<1>5. update'.pc = "commit" /\ update'.config = update.config /\ DOMAIN update' = {"pc", "config", "asked"}
  BY MovesUpdate DEF ApplyToSidecar
<1>. QED BY <1>1, <1>2, <1>3, <1>4, <1>5, NewCore DEF HostStep, HostMove, SyncInv, Updating, Shapes

LEMMA LockIsHostStep ==
    ASSUME SyncInv, LockForUpdate
    PROVE  HostStep
<1>1. /\ UNCHANGED <<syncVars, mode, session, runtime, core, svc, app, stamp>>
      /\ lifecycle = Free /\ lifecycle' = Update
  BY DEF LockForUpdate
<1>2. TasksWait /\ FilesGrow /\ AppGrows /\ LocksKept
  BY <1>1, StillWaiting, FilesStay, AppStays, Assumptions DEF SyncInv, LocksKept, syncVars
<1>3. SyncTypeOK'
  BY <1>1, <1>2, HostTypes DEF SyncInv, SyncTypeOK
<1>4. CoreLoaded'
  BY <1>1, <1>2, CoreKept
<1>5. update'.pc = "stage" /\ update'.config = update.config /\ DOMAIN update' = {"pc", "config", "asked"}
  BY MovesUpdate DEF LockForUpdate
<1>. QED BY <1>1, <1>2, <1>3, <1>4, <1>5 DEF HostStep, HostMove, SyncInv, Updating, Shapes

LEMMA StageIsHostStep ==
    ASSUME SyncInv, Stage
    PROVE  HostStep
<1>1. /\ UNCHANGED <<syncVars, mode, session, runtime, core, app, stamp>>
      /\ update.pc = "stage" /\ lifecycle = Update
  BY DEF Stage, At, SyncInv, Updating
<1>2. svc' = svc \/ svc' = [svc EXCEPT !.files = Kept(update.config)]
  BY DEF Stage, Staged
<1>3. FilesGrow
  <2>1. CASE svc' = svc
    BY <1>1, <2>1, FilesStay DEF SyncInv
  <2>2. CASE svc' = [svc EXCEPT !.files = Kept(update.config)]
    BY <1>1, <2>2, KeepingGrows DEF SyncInv, Shapes
  <2>. QED BY <1>2, <2>1, <2>2
<1>4. /\ update'.config \in Generated /\ DOMAIN update' = {"pc", "config", "asked"}
      /\ \/ update'.pc \in {"stage", "reload", "replace"} /\ lifecycle' = lifecycle
         \/ update'.pc = "idle" /\ lifecycle' = Free
  <2>1. ASSUME NEW pc \in {"reload", "replace"}, UpdateTo(pc), UNCHANGED lifecycle PROVE <1>4
    BY <2>1, MovesUpdate DEF SyncInv, Updating
  <2>2. ASSUME Over, lifecycle' = Free PROVE <1>4
    BY <2>2, UpdateFacts DEF Over
  <2>3. ASSUME update' = [update EXCEPT !.asked = 1, !.pc = IF update.asked = 0 THEN "stage" ELSE "replace"],
               UNCHANGED lifecycle
        PROVE  <1>4
    BY <2>3 DEF SyncInv, Updating, Shapes
  <2>. QED BY <2>1, <2>2, <2>3 DEF Stage
<1>5. TasksWait /\ AppGrows /\ LocksKept
  BY <1>1, <1>4, StillWaiting, AppStays, Assumptions DEF SyncInv, LocksKept, syncVars
<1>6. svc'.session = svc.session
  BY <1>2 DEF SyncInv, Shapes
<1>7. SyncTypeOK'
  BY <1>1, <1>5, <1>6, HostTypes DEF SyncInv, SyncTypeOK
<1>8. CoreLoaded'
  BY <1>1, <1>3, CoreKept
<1>. QED BY <1>1, <1>3, <1>4, <1>5, <1>6, <1>7, <1>8 DEF HostStep, HostMove, SyncInv, Updating, Shapes

LEMMA ReloadIsHostStep ==
    ASSUME SyncInv, ReloadStaged
    PROVE  HostStep
<1>1. /\ UNCHANGED <<mode, session, runtime, svc, app, stamp>>
      /\ update.pc = "reload" /\ lifecycle = Update
  BY DEF ReloadStaged, At, SyncInv, Updating
<1>2. \/ core' = Running(update.config) /\ lifecycle' = Free /\ UpdateTo("commit") /\ RequestRuntimeProviderSync
      \/ UpdateTo("replace") /\ UNCHANGED <<core, lifecycle, syncVars>>
  BY DEF ReloadStaged
<1>3. TasksWait
  BY <1>2, RequestWaits, StillWaiting DEF SyncInv, syncVars
<1>4. FilesGrow /\ AppGrows /\ LocksKept
  BY <1>1, <1>2, FilesStay, AppStays, Assumptions DEF SyncInv, LocksKept
<1>5. SyncTypeOK'
  BY <1>1, <1>3, <1>4, HostTypes DEF SyncInv, SyncTypeOK
<1>6. CoreLoaded'
  BY <1>2, <1>4, CoreKept, NewCore
<1>7. /\ update'.config = update.config /\ DOMAIN update' = {"pc", "config", "asked"}
      /\ update'.pc = "commit" \/ (update'.pc = "replace" /\ lifecycle' = lifecycle)
  BY <1>2, MovesUpdate
<1>8. DOMAIN core' = {"up", "config", "loaded"} /\ (core'.up => core'.config \in Generated)
  BY <1>2, NewCore DEF SyncInv, Updating, Shapes
<1>. QED BY <1>1, <1>3, <1>4, <1>5, <1>6, <1>7, <1>8 DEF HostStep, HostMove, SyncInv, Updating

LEMMA StopIsHostStep ==
    ASSUME SyncInv, StopForUpdate
    PROVE  HostStep
<1>1. /\ UNCHANGED <<syncVars, lifecycle, runtime, update, svc, app, stamp>>
      /\ mode' = "NotRunning" /\ session' = 0 /\ core' = Down
      /\ lifecycle = Update
  BY DEF StopForUpdate, NoSession, At, SyncInv, Updating
<1>2. TasksWait /\ FilesGrow /\ AppGrows /\ LocksKept
  BY <1>1, StillWaiting, FilesStay, AppStays, Assumptions DEF SyncInv, LocksKept, syncVars
<1>3. SyncTypeOK'
  BY <1>1, <1>2, HostTypes
<1>4. CoreLoaded'
  BY <1>1, <1>2, CoreKept, NewCore
<1>. QED BY <1>1, <1>2, <1>3, <1>4, NewCore DEF HostStep, HostMove, SyncInv, Updating, Shapes

LEMMA StartIsHostStep ==
    ASSUME SyncInv, StartForUpdate
    PROVE  HostStep
<1>1. UNCHANGED <<runtime, app, stamp>> /\ lifecycle = Update /\ lifecycle' = Free
  BY DEF StartForUpdate, At, SyncInv, Updating
<1>2. \/ /\ svc.session < MaxSession
         /\ mode' = "Service" /\ session' = svc.session + 1
         /\ svc' = [session |-> session', files |-> Kept(update.config)]
         /\ core' = Running(update.config) /\ UpdateTo("commit") /\ RequestRuntimeProviderSync
      \/ Over /\ UNCHANGED <<mode, session, svc, core, syncVars>>
  BY DEF StartForUpdate, Granted
<1>3. TasksWait
  BY <1>2, RequestWaits, StillWaiting DEF SyncInv, syncVars
<1>4. FilesGrow
  BY <1>1, <1>2, FilesStay, KeepingGrows DEF SyncInv
<1>5. AppGrows /\ LocksKept
  BY <1>1, AppStays, Assumptions DEF LocksKept
<1>6. SyncTypeOK'
  BY <1>2, <1>3, <1>5, HostTypes DEF SyncInv, SyncTypeOK
<1>7. CoreLoaded'
  BY <1>2, <1>4, CoreKept, NewCore
<1>8. update'.config \in Generated /\ update'.pc \in {"commit", "idle"} /\ DOMAIN update' = {"pc", "config", "asked"}
  BY <1>2, MovesUpdate, UpdateFacts DEF Over, SyncInv, Updating
<1>9. DOMAIN core' = {"up", "config", "loaded"} /\ (core'.up => core'.config \in Generated)
  BY <1>2, NewCore DEF SyncInv, Updating, Shapes
<1>10. svc'.session \in Nat \ {0} /\ session' \in Nat /\ session' <= svc'.session
  BY <1>2 DEF SyncInv, Updating
<1>. QED BY <1>1, <1>3, <1>4, <1>5, <1>6, <1>7, <1>8, <1>9, <1>10 DEF HostStep, HostMove, SyncInv, Updating

LEMMA CommitIsHostStep ==
    ASSUME SyncInv, CommitUpdate
    PROVE  HostStep
<1>1. /\ UNCHANGED <<syncVars, mode, session, lifecycle, core, svc, app, stamp>>
      /\ runtime' = update.config /\ update' = NoUpdate
  BY DEF CommitUpdate, Over
<1>2. TasksWait /\ FilesGrow /\ AppGrows /\ LocksKept
  BY <1>1, StillWaiting, FilesStay, AppStays DEF SyncInv, LocksKept, syncVars
<1>3. SyncTypeOK'
  BY <1>1, <1>2, HostTypes DEF SyncInv, SyncTypeOK
<1>4. CoreLoaded'
  BY <1>1, <1>2, CoreKept
<1>. QED BY <1>1, <1>2, <1>3, <1>4, UpdateFacts DEF HostStep, HostMove, SyncInv, Updating, Shapes

LEMMA RestartIsHostStep ==
    ASSUME SyncInv, StartByService \/ StartSidecar
    PROVE  HostStep
<1>1. /\ UNCHANGED <<lifecycle, runtime, update, app, stamp>> /\ lifecycle = Free
      /\ core' = Running(runtime) /\ mode' \in {"Service", "Sidecar"}
  BY DEF StartByService, StartSidecar
<1>2. \/ /\ svc.session < MaxSession /\ session' = svc.session + 1
         /\ svc' = [session |-> session', files |-> Kept(runtime)] /\ RequestRuntimeProviderSync
      \/ session' = 0 /\ UNCHANGED <<syncVars, svc>>
  BY DEF StartByService, StartSidecar, Granted, NoSession
<1>3. TasksWait
  BY <1>2, RequestWaits, StillWaiting DEF SyncInv, syncVars
<1>4. FilesGrow
  BY <1>1, <1>2, FilesStay, KeepingGrows DEF SyncInv
<1>5. AppGrows /\ LocksKept
  BY <1>1, AppStays, Assumptions DEF LocksKept
<1>6. SyncTypeOK'
  BY <1>1, <1>2, <1>3, <1>5, HostTypes
<1>7. CoreLoaded'
  BY <1>1, <1>4, CoreKept, NewCore
<1>8. svc'.session \in Nat \ {0} /\ session' \in Nat /\ session' <= svc'.session
  BY <1>2 DEF SyncInv, Updating
<1>. QED BY <1>1, <1>3, <1>4, <1>5, <1>6, <1>7, <1>8, NewCore DEF HostStep, HostMove, SyncInv, Updating, Shapes

LEMMA TakingIsHostStep ==
    ASSUME SyncInv, SessionTaken
    PROVE  HostStep
<1>1. /\ UNCHANGED <<syncVars, mode, session, lifecycle, runtime, update, app, stamp>>
      /\ svc' = [svc EXCEPT !.session = svc.session + 1] /\ core' = Down
      /\ session = svc.session /\ svc.session < MaxSession
  BY DEF SessionTaken
<1>2. svc'.session = svc.session + 1 /\ svc'.files = svc.files /\ DOMAIN svc' = {"session", "files"}
  BY <1>1 DEF SyncInv, Shapes
<1>3. FilesGrow
  BY <1>1, <1>2 DEF FilesGrow
<1>4. TasksWait /\ AppGrows /\ LocksKept
  BY <1>1, StillWaiting, AppStays DEF SyncInv, LocksKept, syncVars
<1>5. svc.session \in Nat \ {0} /\ session \in Nat
  BY DEF SyncInv, Updating
<1>6. SyncTypeOK'
  BY <1>1, <1>2, <1>4, <1>5, HostTypes, Assumptions DEF SyncInv, SyncTypeOK
<1>7. CoreLoaded'
  BY <1>1, <1>3, CoreKept, NewCore
<1>. QED BY <1>1, <1>2, <1>3, <1>4, <1>5, <1>6, <1>7, NewCore DEF HostStep, HostMove, SyncInv, Updating, Shapes

LEMMA CoreIsHostStep ==
    ASSUME SyncInv, CoreStep
    PROVE  HostStep
<1>1. UNCHANGED <<syncVars, mode, session, lifecycle, runtime, update, app>>
  BY DEF CoreStep
<1>2. /\ FilesGrow /\ svc'.session = svc.session /\ core'.up = core.up /\ core'.config = core.config
      /\ DOMAIN core' = {"up", "config", "loaded"} /\ CoreLoaded'
  <2>1. ASSUME NEW r \in ProvidersOf(core.config), CoreWrites(r) PROVE <1>2
    <3>. DEFINE d == r.destination
    <3>1. PICK whole \in BOOLEAN : svc' = [svc EXCEPT !.files = Put(svc.files, d, File(r.url, whole))]
      BY <2>1 DEF CoreWrites
    <3>. DEFINE file == File(r.url, whole)
    <3>2. stamp' = stamp + 1 /\ UNCHANGED core /\ file.stamp = stamp'
      BY <2>1 DEF CoreWrites, File
    <3>. HIDE DEF file, d
    <3>3. svc'.files = Put(svc.files, d, file) /\ svc'.session = svc.session /\ DOMAIN svc' = {"session", "files"}
      BY <3>1 DEF SyncInv, Shapes, file, d
    <3>4. /\ DOMAIN svc'.files = DOMAIN svc.files \cup {d} /\ svc'.files[d] = file
          /\ \A x \in DOMAIN svc.files \ {d} : svc'.files[x] = svc.files[x]
      BY <3>3 DEF Put
    <3>5. FilesGrow
      BY <3>2, <3>3, <3>4 DEF FilesGrow
    <3>. QED BY <3>2, <3>3, <3>5, CoreKept DEF SyncInv, Shapes
  <2>2. ASSUME NEW r \in ProvidersOf(core.config), CoreLoads(r) PROVE <1>2
    <3>. DEFINE time == svc.files[r.destination].stamp
    <3>1. /\ UNCHANGED <<svc, stamp>> /\ core' = [core EXCEPT !.loaded = Put(core.loaded, r.name, time)]
          /\ r.destination \in DOMAIN svc.files /\ svc.files[r.destination].whole /\ core.up
      BY <2>2 DEF CoreLoads, InService
    <3>2. /\ core'.loaded = Put(core.loaded, r.name, time) /\ core'.up = core.up /\ core'.config = core.config
          /\ DOMAIN core' = {"up", "config", "loaded"}
      BY <3>1 DEF SyncInv, Shapes
    <3>3. LoadedFrom(r.destination, time)
      BY <3>1 DEF SyncInv, FilesAreDated, Dated, LoadedFrom
    <3>4. FilesGrow
      BY <3>1, FilesStay DEF SyncInv
    <3>5. CoreLoaded'
      <4>. SUFFICES ASSUME NEW n \in DOMAIN core'.loaded
           PROVE  \E x \in ProvidersOf(core.config) : x.name = n /\ LoadedFrom(x.destination, core'.loaded[n])
        BY <3>1, <3>2 DEF CoreLoaded, LoadedFrom
      <4>0. /\ DOMAIN core'.loaded = DOMAIN core.loaded \cup {r.name} /\ core'.loaded[r.name] = time
            /\ \A x \in DOMAIN core.loaded \ {r.name} : core'.loaded[x] = core.loaded[x]
        <5>. HIDE DEF time
        <5>. QED BY <3>2 DEF Put
      <4>1. CASE n = r.name
        BY <3>3, <4>0, <4>1
      <4>2. CASE n # r.name
        <5>1. n \in DOMAIN core.loaded /\ core'.loaded[n] = core.loaded[n]
          BY <4>0, <4>2
        <5>. QED BY <5>1 DEF SyncInv, CoreLoaded
      <4>. QED BY <4>1, <4>2
    <3>. QED BY <3>1, <3>2, <3>4, <3>5
  <2>3. ASSUME NEW d \in DOMAIN svc.files, Settles(d) PROVE <1>2
    <3>1. svc' = [svc EXCEPT !.files[d].fresh = FALSE] /\ UNCHANGED <<core, stamp>>
      BY <2>3 DEF Settles
    <3>2. /\ DOMAIN svc' = {"session", "files"} /\ svc'.session = svc.session
          /\ DOMAIN svc'.files = DOMAIN svc.files
          /\ \A x \in DOMAIN svc.files : /\ svc'.files[x].stamp = svc.files[x].stamp
                                         /\ svc'.files[x].whole = svc.files[x].whole
      BY <3>1 DEF SyncInv, Shapes
    <3>3. FilesGrow
      BY <3>1, <3>2 DEF FilesGrow
    <3>. QED BY <3>1, <3>2, <3>3, CoreKept DEF SyncInv, Shapes
  <2>. QED BY <2>1, <2>2, <2>3 DEF CoreStep
<1>3. TasksWait /\ AppGrows /\ LocksKept
  BY <1>1, StillWaiting, AppStays DEF SyncInv, LocksKept, syncVars
<1>4. SyncTypeOK'
  BY <1>1, <1>2, <1>3, HostTypes DEF SyncInv, SyncTypeOK
<1>. QED BY <1>1, <1>2, <1>3, <1>4 DEF HostStep, HostMove, SyncInv, Updating, Shapes

LEMMA SidecarIsHostStep ==
    ASSUME SyncInv, SidecarWrites
    PROVE  HostStep
<1>1. UNCHANGED <<syncVars, hostVars, svc>> /\ stamp' = stamp + 1
  BY DEF SidecarWrites
<1>2. AppGrows
  <2>1. PICK r : app' = Put(app, r.destination, [stamp |-> stamp', whole |-> TRUE, session |-> 0])
    BY DEF SidecarWrites
  <2>. DEFINE d == r.destination
  <2>. DEFINE file == [stamp |-> stamp', whole |-> TRUE, session |-> 0]
  <2>2. file.stamp = stamp' /\ file.session = 0
    OBVIOUS
  <2>3. app' = Put(app, d, file)
    BY <2>1
  <2>. HIDE DEF d, file
  <2>4. /\ DOMAIN app' = DOMAIN app \cup {d} /\ app'[d] = file
        /\ \A x \in DOMAIN app \ {d} : app'[x] = app[x]
    BY <2>3 DEF Put
  <2>. QED BY <2>2, <2>4 DEF AppGrows
<1>3. TasksWait /\ FilesGrow /\ LocksKept
  BY <1>1, StillWaiting DEF SyncInv, FilesGrow, Shapes, LocksKept, syncVars, hostVars
<1>4. SyncTypeOK'
  BY <1>1, <1>3, HostTypes DEF SyncInv, SyncTypeOK, hostVars
<1>5. CoreLoaded'
  BY <1>1, <1>3, CoreKept DEF hostVars
<1>. QED BY <1>1, <1>2, <1>3, <1>4, <1>5 DEF HostStep, HostMove, SyncInv, Updating, Shapes, hostVars

LEMMA HostKeepsInv ==
    ASSUME SyncInv, HostStep
    PROVE  SyncInv'
<1>1. Turns' /\ TempsBelong' /\ FilesAreDated' /\ AppIsOlder' /\ \A t \in Tasks : DOMAIN task'[t] = TaskFields
  BY HostKeepsTurns DEF HostStep
<1>2. PassesOK'
  BY HostKeepsPasses DEF HostStep
<1>3. Shapes'
  BY <1>1 DEF Shapes, HostStep, HostMove, TasksWait, FilesGrow
<1>. QED BY <1>1, <1>2, <1>3 DEF SyncInv, HostStep
-----------------------------------------------------------------------------
(* Steps of a pass *)

Around == UNCHANGED <<mode, session, runtime, update, core, svc, stamp>>

\* The record r is where a pass of t may be, with who holds what.
TurnOf(t, r) ==
    /\ DOMAIN r = TaskFields /\ r.attempt \in 0 .. MaxAttempts
    /\ r.pc \in {"idle", "serial"} \cup Active
    /\ serial' \in {Free, t} /\ (r.pc \in Active <=> serial' = t)
    /\ r.pc = "rename" <=> lifecycle' = t
    /\ r.pc \notin Reads \cup {"verify"} => r.fetched = {}
    /\ r.pc \notin Judges => r.ready = {}

LEMMA OneHolder ==
    ASSUME SyncInv, NEW t \in Tasks, task[t].pc \in Active
    PROVE  /\ serial = t /\ \A u \in Tasks \ {t} : task[u].pc \notin Active
           /\ task[t].attempt \in 0 .. MaxAttempts /\ DOMAIN task[t] = TaskFields
BY DEF SyncInv, Turns, SyncTypeOK, Shapes

LEMMA TaskKeepsInv ==
    ASSUME SyncInv, NEW t \in Tasks, NEW r, Set(t, r), TurnOf(t, r), Around,
           serial \in {Free, t}, lifecycle' = lifecycle \/ {lifecycle, lifecycle'} = {Free, t},
           TempsBelong', AppIsOlder', Reading(t)' => PassOK(t)'
    PROVE  SyncInv'
<1>1. /\ DOMAIN task' = Tasks /\ task'[t] = r /\ \A u \in Tasks \ {t} : task'[u] = task[u]
      /\ \A u \in Tasks : DOMAIN task'[u] = TaskFields
  BY SetFacts DEF SyncInv, TurnOf
<1>2. \A u \in Tasks \ {t} : task[u].pc \notin Active
  BY Assumptions DEF SyncInv, Turns
<1>3. SyncTypeOK'
  <2>1. serial' \in {Free} \cup Tasks /\ lifecycle' \in {Free, Update} \cup Tasks
    BY DEF TurnOf, SyncInv, SyncTypeOK
  <2>2. \A u \in Tasks : task'[u].attempt \in 0 .. MaxAttempts
    BY <1>1 DEF TurnOf, SyncInv, SyncTypeOK
  <2>. QED BY <2>1, <2>2 DEF SyncInv, SyncTypeOK, Around
<1>4. Shapes'
  BY <1>1 DEF SyncInv, Shapes, Around
<1>5. Turns'
  <2>. SUFFICES ASSUME NEW u \in Tasks
       PROVE  /\ task'[u].pc \in {"idle", "serial"} \cup Active
              /\ task'[u].pc \in Active <=> serial' = u
              /\ task'[u].pc = "rename" <=> lifecycle' = u
              /\ task'[u].pc \notin Reads \cup {"verify"} => task'[u].fetched = {}
              /\ task'[u].pc \notin Judges => task'[u].ready = {}
    BY DEF Turns
  <2>1. CASE u = t
    BY <1>1, <2>1 DEF TurnOf
  <2>2. CASE u # t
    <3>1. lifecycle' = u <=> lifecycle = u
      BY <2>2, Assumptions
    <3>2. serial' # u /\ task[u].pc \notin Active
      BY <1>2, <2>2, Assumptions DEF TurnOf
    <3>. QED BY <1>1, <2>2, <3>1, <3>2 DEF SyncInv, Turns
  <2>. QED BY <2>1, <2>2
<1>6. Updating'
  <2>1. lifecycle = Update => lifecycle' = Update
    BY Assumptions
  <2>. QED BY <2>1 DEF SyncInv, Updating, Around
<1>7. FilesAreDated' /\ CoreLoaded'
  BY DEF SyncInv, FilesAreDated, CoreLoaded, LoadedFrom, Dated, Around
<1>8. PassesOK'
  <2>. SUFFICES ASSUME NEW u \in Tasks, Reading(u)' PROVE PassOK(u)'
    BY DEF PassesOK
  <2>1. CASE u = t
    BY <2>1
  <2>2. CASE u # t
    BY <1>1, <1>2, <2>2 DEF Reading, Active
  <2>. QED BY <2>1, <2>2
<1>. QED BY <1>3, <1>4, <1>5, <1>6, <1>7, <1>8 DEF SyncInv

LEMMA AppStaysOlder ==
    ASSUME SyncInv, UNCHANGED <<app, svc, stamp>>
    PROVE  AppIsOlder'
BY DEF SyncInv, AppIsOlder, Dated

LEMMA PassEndsKeepsInv ==
    ASSUME SyncInv, NEW t \in Tasks, NEW again \in BOOLEAN, PassEnds(t, again), serial = t, Around, UNCHANGED app,
           lifecycle' # t, lifecycle' = lifecycle \/ {lifecycle, lifecycle'} = {Free, t},
           ~lost' => temps' = {}
    PROVE  SyncInv'
<1>. DEFINE r == IF again /\ task[t].attempt < MaxAttempts
                 THEN [Sleeping EXCEPT !.pc = "serial", !.attempt = task[t].attempt + 1]
                 ELSE Sleeping
<1>1. Set(t, r) /\ serial' = Free
  BY DEF PassEnds
<1>2. /\ DOMAIN r = TaskFields /\ r.attempt \in 0 .. MaxAttempts /\ r.pc \in {"idle", "serial"}
      /\ r.fetched = {} /\ r.ready = {}
  <2>1. CASE again /\ task[t].attempt < MaxAttempts
    <3>1. task[t].attempt + 1 \in 0 .. MaxAttempts
      BY <2>1, Assumptions DEF SyncInv, SyncTypeOK
    <3>2. Waiting([Sleeping EXCEPT !.pc = "serial", !.attempt = task[t].attempt + 1])
      BY <3>1, WaitingFields
    <3>. QED BY <2>1, <3>2 DEF Waiting
  <2>2. CASE ~(again /\ task[t].attempt < MaxAttempts)
    BY <2>2, SleepingFields, Assumptions
  <2>. QED BY <2>1, <2>2
<1>. HIDE DEF r
<1>3. TurnOf(t, r)
  BY <1>1, <1>2, Assumptions DEF TurnOf, Active, Reads, Judges
<1>4. TempsBelong'
  BY DEF TempsBelong
<1>5. task'[t] = r
  BY <1>1, <1>2, SetFacts DEF SyncInv
<1>6. ~Reading(t)'
  BY <1>2, <1>5 DEF Reading, Reads, Judges
<1>7. AppIsOlder'
  BY AppStaysOlder DEF Around
<1>. QED BY <1>1, <1>3, <1>4, <1>6, <1>7, TaskKeepsInv

\* A cache read from the file the Service has now.
FreshlyRead(t, c) ==
    /\ c.declared \in DeclaredBy(t) /\ svc.session = task[t].session
    /\ c.declared.destination \in DOMAIN svc.files /\ c.file = svc.files[c.declared.destination]

LEMMA FreshIsSound ==
    ASSUME SyncInv, NEW t \in Tasks, PassOK(t), NEW c, FreshlyRead(t, c), NEW d, d = c.declared.destination
    PROVE  /\ Knows(t, c.declared) =>
                /\ c.file.stamp >= task[t].before[c.declared.name]
                /\ c.file.stamp = task[t].before[c.declared.name] => c.file.whole
           /\ Dated(c.file)
           /\ d \in DOMAIN app /\ app[d].session = task[t].session => c.file.stamp >= app[d].stamp
           /\ d \in DOMAIN svc.files /\ svc.session = task[t].session => svc.files[d].stamp >= c.file.stamp
<1>1. d \in DOMAIN svc.files /\ c.file = svc.files[d] /\ Dated(c.file) /\ svc.session = task[t].session
  BY DEF FreshlyRead, SyncInv, FilesAreDated
<1>2. Knows(t, c.declared) => LoadedFrom(d, task[t].before[c.declared.name])
  BY DEF FreshlyRead, PassOK, Compared
<1>3. d \in DOMAIN app /\ app[d].session = task[t].session => c.file.stamp >= app[d].stamp
  BY <1>1 DEF SyncInv, AppIsOlder
<1>. QED BY <1>1, <1>2, <1>3 DEF LoadedFrom, Dated

\* A pass of which nothing but what it still has to do and what it has read changes.
LEMMA PassMoves ==
    ASSUME SyncInv, NEW t \in Tasks, PassOK(t), Around,
           task'[t].session = task[t].session, task'[t].before = task[t].before,
           task'[t].apart = task[t].apart,
           DeclaredBy(t)' \subseteq DeclaredBy(t),
           NEW fresh, \A c \in fresh : FreshlyRead(t, c), Caches(t)' \subseteq Caches(t) \cup fresh
    PROVE  /\ Compared(t)' /\ (UNCHANGED app => Ordered(t)') /\ Distinct(DeclaredBy(t)')
           /\ task'[t].session \in Nat \ {0} /\ task'[t].session <= svc'.session
           /\ \A r : Knows(t, r)' <=> Knows(t, r)
<1>1. \A r : Knows(t, r)' <=> Knows(t, r)
  BY DEF Knows
<1>2. Compared(t)'
  <2>1. \A r \in DeclaredBy(t) : Knows(t, r) => LoadedFrom(r.destination, task[t].before[r.name])'
    BY DEF PassOK, Compared, LoadedFrom, Around
  <2>2. \A c \in Caches(t) \cup fresh : Knows(t, c.declared) =>
            /\ c.file.stamp >= task[t].before[c.declared.name]
            /\ c.file.stamp = task[t].before[c.declared.name] => c.file.whole
    BY FreshIsSound DEF PassOK, Compared
  <2>. QED BY <1>1, <2>1, <2>2 DEF Compared
<1>3. ASSUME UNCHANGED app PROVE Ordered(t)'
  <2>. SUFFICES ASSUME NEW c \in Caches(t) \cup fresh, NEW d, d = c.declared.destination
       PROVE  /\ Dated(c.file)
              /\ d \in DOMAIN app /\ app[d].session = task[t].session => c.file.stamp >= app[d].stamp
              /\ d \in DOMAIN svc.files /\ svc.session = task[t].session => svc.files[d].stamp >= c.file.stamp
    BY <1>3 DEF Ordered, Dated, Around
  <2>. QED BY FreshIsSound DEF PassOK, Ordered
<1>4. /\ Distinct(DeclaredBy(t)')
      /\ task'[t].session \in Nat \ {0} /\ task'[t].session <= svc'.session
  BY DEF PassOK, Declared, Distinct, Around
<1>. QED BY <1>1, <1>2, <1>3, <1>4

LEMMA TakingKeepsInv ==
    ASSUME SyncInv, NEW t \in Tasks, TakeSerial(t), BesideSync
    PROVE  SyncInv'
<1>. DEFINE r == [task[t] EXCEPT !.pc = "begin"]
<1>1. Set(t, r) /\ task[t].pc = "serial" /\ serial = Free /\ serial' = t /\ UNCHANGED <<temps, lost, app>>
  BY DEF TakeSerial
<1>2. Around /\ lifecycle' = lifecycle
  BY DEF BesideSync, Around, hostVars
<1>3. DOMAIN task[t] = TaskFields /\ task[t].fetched = {} /\ task[t].ready = {} /\ lifecycle # t
  BY <1>1 DEF SyncInv, Shapes, Turns, Reads, Judges
<1>4. r.pc = "begin" /\ r.fetched = {} /\ r.ready = {} /\ r.attempt = task[t].attempt /\ DOMAIN r = TaskFields
  BY <1>3 DEF TaskFields
<1>5. task[t].attempt \in 0 .. MaxAttempts
  BY DEF SyncInv, SyncTypeOK
<1>. HIDE DEF r
<1>6. TurnOf(t, r)
  BY <1>1, <1>2, <1>3, <1>4, <1>5 DEF TurnOf, Active, Reads, Judges
<1>7. task'[t] = r
  BY <1>1, <1>4, SetFacts DEF SyncInv
<1>8. ~Reading(t)'
  BY <1>4, <1>7 DEF Reading, Reads, Judges
<1>9. TempsBelong'
  BY <1>1, Assumptions DEF SyncInv, TempsBelong
<1>10. AppIsOlder'
  BY <1>1, <1>2, AppStaysOlder DEF Around
<1>. QED BY <1>1, <1>2, <1>6, <1>8, <1>9, <1>10, TaskKeepsInv

LEMMA BeginKeepsInv ==
    ASSUME SyncInv, NEW t \in Tasks, Begin(t), BesideSync
    PROVE  SyncInv'
<1>1. task[t].pc = "begin" /\ UNCHANGED <<temps, lost, app>>
  BY DEF Begin
<1>2. Around /\ lifecycle' = lifecycle
  BY DEF BesideSync, Around, hostVars
<1>3. /\ serial = t /\ lifecycle # t /\ task[t].fetched = {} /\ task[t].ready = {}
      /\ DOMAIN task[t] = TaskFields /\ task[t].attempt \in 0 .. MaxAttempts
  BY <1>1, OneHolder DEF SyncInv, Turns, Active, Reads, Judges
<1>4. ~lost => temps = {}
  BY <1>1, <1>3 DEF SyncInv, TempsBelong, TempsOfPass, TempsOf, HoldsCache
<1>5. CASE session = 0
  <2>1. PassEnds(t, FALSE)
    BY <1>5 DEF Begin
  <2>2. UNCHANGED app /\ lifecycle' # t /\ (~lost' => temps' = {})
    BY <1>1, <1>2, <1>3, <1>4
  <2>. QED BY <1>2, <1>3, <2>1, <2>2, PassEndsKeepsInv
<1>6. CASE session # 0
  <2>1. PICK times \in {core.loaded, None} :
            Set(t, [task[t] EXCEPT !.pc = "next", !.session = session, !.todo = ProvidersOf(runtime),
                                   !.before = times, !.apart = core.config # runtime])
    BY <1>6 DEF Begin
  <2>. DEFINE r == [task[t] EXCEPT !.pc = "next", !.session = session, !.todo = ProvidersOf(runtime),
                                   !.before = times, !.apart = core.config # runtime]
  <2>2. /\ r.pc = "next" /\ r.session = session /\ r.todo = ProvidersOf(runtime) /\ r.before = times
        /\ r.apart = (core.config # runtime) /\ r.fetched = {} /\ r.ready = {} /\ DOMAIN r = TaskFields
        /\ r.attempt = task[t].attempt
    BY <1>3 DEF TaskFields
  <2>3. Set(t, r)
    BY <2>1
  <2>. HIDE DEF r
  <2>4. TurnOf(t, r)
    BY <1>2, <1>3, <1>6, <2>2 DEF TurnOf, Active, Reads, Judges, Begin
  <2>5. task'[t] = r
    BY <2>2, <2>3, SetFacts DEF SyncInv
  <2>6. TempsBelong'
    BY <1>1, <1>4 DEF TempsBelong
  <2>7. DeclaredBy(t)' = ProvidersOf(runtime) /\ Caches(t)' = {} /\ Read(t)' = {} /\ ~HoldsCache(t)'
    BY <2>2, <2>5 DEF DeclaredBy, Caches, Read, HoldsCache
  <2>8. Declared(t)'
    <3>1. session \in Nat \ {0} /\ session <= svc.session /\ runtime \in Generated
      BY <1>6 DEF SyncInv, Updating
    <3>. QED BY <1>2, <2>2, <2>5, <2>7, <3>1, Assumptions DEF Declared, OneEach, Around
  <2>9. Compared(t)'
    <3>. SUFFICES ASSUME NEW p \in ProvidersOf(runtime), Knows(t, p)'
         PROVE  LoadedFrom(p.destination, task[t].before[p.name])'
      BY <2>7 DEF Compared
    <3>1. core.config = runtime /\ times = core.loaded /\ p.name \in DOMAIN core.loaded
      BY <2>2, <2>5 DEF Knows
    <3>2. PICK q \in ProvidersOf(runtime) : q.name = p.name /\ LoadedFrom(q.destination, core.loaded[p.name])
      BY <3>1 DEF SyncInv, CoreLoaded
    <3>3. q = p
      BY <3>2, Assumptions DEF SyncInv, Updating, Distinct
    <3>. QED BY <1>2, <2>2, <2>5, <3>1, <3>2, <3>3 DEF LoadedFrom, Around
  <2>10. Ordered(t)' /\ Judged(t)'
    BY <2>2, <2>5, <2>7 DEF Ordered, Judged, Judges
  <2>11. AppIsOlder'
    BY <1>1, <1>2, AppStaysOlder DEF Around
  <2>. QED BY <1>2, <1>3, <2>3, <2>4, <2>6, <2>8, <2>9, <2>10, <2>11, TaskKeepsInv DEF PassOK
<1>. QED BY <1>5, <1>6
LEMMA ReadKeepsInv ==
    ASSUME SyncInv, NEW t \in Tasks, Reading(t), NEW r, Set(t, r), TurnOf(t, r), Around, UNCHANGED app,
           lifecycle' = lifecycle \/ {lifecycle, lifecycle'} = {Free, t}, TempsBelong',
           r.session = task[t].session, r.before = task[t].before, r.apart = task[t].apart,
           DeclaredBy(t)' \subseteq DeclaredBy(t), OneEach(t)', Judged(t)',
           NEW fresh, \A c \in fresh : FreshlyRead(t, c), Caches(t)' \subseteq Caches(t) \cup fresh
    PROVE  SyncInv'
<1>1. task'[t] = r
  BY SetFacts DEF SyncInv, TurnOf
<1>2. PassOK(t) /\ serial = t
  BY OneHolder DEF SyncInv, PassesOK, Reading, Active
<1>3. /\ Compared(t)' /\ Ordered(t)' /\ Distinct(DeclaredBy(t)')
      /\ task'[t].session \in Nat \ {0} /\ task'[t].session <= svc'.session
  BY <1>1, <1>2, PassMoves
<1>4. PassOK(t)'
  BY <1>3 DEF PassOK, Declared, Distinct
<1>5. AppIsOlder'
  BY AppStaysOlder DEF Around
<1>. QED BY <1>2, <1>4, <1>5, TaskKeepsInv

LEMMA MoveKeepsInv ==
    ASSUME SyncInv, NEW t \in Tasks, Reading(t), NEW r, Set(t, r), TurnOf(t, r), Around, UNCHANGED app,
           lifecycle' = lifecycle \/ {lifecycle, lifecycle'} = {Free, t}, TempsBelong',
           r.session = task[t].session, r.before = task[t].before, r.apart = task[t].apart,
           DeclaredBy(t)' \subseteq DeclaredBy(t), Caches(t)' \subseteq Caches(t), OneEach(t)',
           Judged(t)'
    PROVE  SyncInv'
<1>. DEFINE fresh == {}
<1>1. (\A c \in fresh : FreshlyRead(t, c)) /\ Caches(t)' \subseteq Caches(t) \cup fresh
  OBVIOUS
<1>. HIDE DEF fresh
<1>. QED BY <1>1, ReadKeepsInv

LEMMA ReadingFacts ==
    ASSUME SyncInv, NEW t \in Tasks, Reading(t)
    PROVE  /\ serial = t /\ task[t].attempt \in 0 .. MaxAttempts /\ DOMAIN task[t] = TaskFields /\ PassOK(t)
           /\ task[t].pc \notin Judges => task[t].ready = {}
           /\ task[t].pc \in {"publish", "rename"} => task[t].fetched = {}
           /\ task[t].pc = "rename" <=> lifecycle = t
           /\ ~lost => temps \subseteq TempsOfPass(t)
           /\ serial \in Tasks /\ lifecycle # Free => lifecycle # t \/ task[t].pc = "rename"
BY OneHolder, Assumptions DEF SyncInv, Turns, PassesOK, TempsBelong, Reading, Active, Reads, Judges

LEMMA NextCacheKeepsInv ==
    ASSUME SyncInv, NEW t \in Tasks, NextCache(t), BesideSync
    PROVE  SyncInv'
<1>. DEFINE p == CHOOSE x \in task[t].todo : TRUE
<1>1. task[t].pc = "next" /\ p \in task[t].todo /\ UNCHANGED <<serial, lost, app>>
  BY DEF NextCache
<1>2. Around /\ lifecycle' = lifecycle
  BY DEF BesideSync, Around, hostVars
<1>3. Reading(t) /\ ~HoldsCache(t)
  BY <1>1 DEF Reading, HoldsCache, Reads
<1>4. \/ /\ Set(t, [[task[t] EXCEPT !.todo = @ \ {p}] EXCEPT !.pc = "head",
                        !.cache = [declared |-> p, file |-> None]])
         /\ temps' = temps \cup {Temp(t, p)}
      \/ Set(t, [[task[t] EXCEPT !.todo = @ \ {p}] EXCEPT !.pending = TRUE]) /\ UNCHANGED temps
  BY DEF NextCache
<1>. HIDE DEF p
<1>5. CASE /\ Set(t, [[task[t] EXCEPT !.todo = @ \ {p}] EXCEPT !.pc = "head",
                        !.cache = [declared |-> p, file |-> None]])
           /\ temps' = temps \cup {Temp(t, p)}
  <2>. DEFINE r == [[task[t] EXCEPT !.todo = @ \ {p}] EXCEPT !.pc = "head",
                        !.cache = [declared |-> p, file |-> None]]
  <2>1. /\ r.pc = "head" /\ r.todo = task[t].todo \ {p} /\ r.cache = [declared |-> p, file |-> None]
        /\ r.fetched = task[t].fetched /\ r.ready = task[t].ready /\ DOMAIN r = TaskFields
        /\ r.attempt = task[t].attempt /\ r.session = task[t].session /\ r.before = task[t].before
        /\ r.apart = task[t].apart
    BY <1>3, ReadingFacts DEF TaskFields
  <2>2. Set(t, r)
    BY <1>5
  <2>. HIDE DEF r
  <2>3. task'[t] = r
    BY <2>1, <2>2, SetFacts DEF SyncInv
  <2>4. TurnOf(t, r)
    BY <1>1, <1>2, <1>3, <2>1, ReadingFacts DEF TurnOf, Active, Reads, Judges
  <2>5. /\ Read(t)' = Read(t) /\ HoldsCache(t)' /\ task'[t].cache.declared = p
        /\ DOMAIN task'[t].cache = {"declared", "file"}
    BY <2>1, <2>3 DEF Read, HoldsCache
  <2>6. DeclaredBy(t)' \subseteq DeclaredBy(t) /\ Caches(t)' \subseteq Caches(t)
    BY <1>1, <2>1, <2>3, <2>5 DEF DeclaredBy, Caches
  <2>7. OneEach(t)'
    <3>1. OneEach(t)
      BY <1>3, ReadingFacts DEF PassOK, Declared
    <3>. QED BY <1>1, <2>1, <2>3, <2>5, <3>1 DEF OneEach
  <2>8. Judged(t)'
    BY <1>1, <1>3, <2>1, <2>3, ReadingFacts DEF Judged, Judges
  <2>9. TempsBelong'
    <3>1. TempsOfPass(t)' = TempsOf(t, Read(t)) \cup {Temp(t, p)}
      BY <2>3, <2>5 DEF TempsOfPass, TempsOf, Temp, Read
    <3>2. ~lost => temps \subseteq TempsOf(t, Read(t))
      BY <1>3, ReadingFacts DEF TempsOfPass, Read
    <3>. QED BY <1>1, <1>3, <1>5, <3>1, <3>2, ReadingFacts DEF TempsBelong
  <2>. QED BY <1>1, <1>2, <1>3, <2>1, <2>2, <2>4, <2>6, <2>7, <2>8, <2>9, MoveKeepsInv
<1>6. CASE Set(t, [[task[t] EXCEPT !.todo = @ \ {p}] EXCEPT !.pending = TRUE]) /\ UNCHANGED temps
  <2>. DEFINE r == [[task[t] EXCEPT !.todo = @ \ {p}] EXCEPT !.pending = TRUE]
  <2>1. /\ r.pc = "next" /\ r.todo = task[t].todo \ {p}
        /\ r.fetched = task[t].fetched /\ r.ready = task[t].ready /\ DOMAIN r = TaskFields
        /\ r.attempt = task[t].attempt /\ r.session = task[t].session /\ r.before = task[t].before
        /\ r.apart = task[t].apart
    BY <1>1, <1>3, ReadingFacts DEF TaskFields
  <2>2. Set(t, r)
    BY <1>6
  <2>. HIDE DEF r
  <2>3. task'[t] = r
    BY <2>1, <2>2, SetFacts DEF SyncInv
  <2>4. TurnOf(t, r)
    BY <1>1, <1>2, <1>3, <2>1, ReadingFacts DEF TurnOf, Active, Reads, Judges
  <2>5. Read(t)' = Read(t) /\ ~HoldsCache(t)'
    BY <2>1, <2>3 DEF Read, HoldsCache
  <2>6. DeclaredBy(t)' \subseteq DeclaredBy(t) /\ Caches(t)' \subseteq Caches(t)
    BY <1>1, <2>1, <2>3, <2>5 DEF DeclaredBy, Caches
  <2>7. OneEach(t)'
    <3>1. OneEach(t)
      BY <1>3, ReadingFacts DEF PassOK, Declared
    <3>. QED BY <1>1, <2>1, <2>3, <2>5, <3>1 DEF OneEach
  <2>8. Judged(t)'
    BY <1>1, <1>3, <2>1, <2>3, ReadingFacts DEF Judged, Judges
  <2>9. TempsBelong'
    <3>1. TempsOfPass(t)' = TempsOfPass(t)
      BY <1>3, <2>3, <2>5 DEF TempsOfPass, TempsOf, Temp, Read
    <3>. QED BY <1>1, <1>3, <1>6, <3>1, ReadingFacts DEF TempsBelong
  <2>. QED BY <1>1, <1>2, <1>3, <2>1, <2>2, <2>4, <2>6, <2>7, <2>8, <2>9, MoveKeepsInv
<1>. QED BY <1>4, <1>5, <1>6

LEMMA FetchKeepsInv ==
    ASSUME SyncInv, NEW t \in Tasks, FetchRuntimeFile(t), BesideSync
    PROVE  SyncInv'
<1>. DEFINE p == task[t].cache.declared
<1>. DEFINE f == svc.files[p.destination]
<1>1. task[t].pc \in {"head", "tail"} /\ HoldsCache(t) /\ Reading(t) /\ UNCHANGED <<lost, app>>
  BY DEF FetchRuntimeFile, HoldsCache, Reading, Reads
<1>2. Around /\ lifecycle' = lifecycle
  BY DEF BesideSync, Around, hostVars
<1>3. /\ serial = t /\ task[t].attempt \in 0 .. MaxAttempts /\ DOMAIN task[t] = TaskFields /\ PassOK(t)
      /\ task[t].ready = {} /\ lifecycle # t
      /\ ~lost => temps \subseteq TempsOf(t, Read(t)) \cup {Temp(t, p)}
  BY <1>1, ReadingFacts DEF Judges, TempsOfPass, Read
<1>4. OneEach(t)
  BY <1>3 DEF PassOK, Declared
<1>5. CASE ReadingLost(t)
  <2>1. PassEnds(t, FALSE) /\ (~lost' => temps' = {})
    BY <1>1, <1>3, <1>5 DEF ReadingLost, Read
  <2>. QED BY <1>1, <1>2, <1>3, <2>1, PassEndsKeepsInv
<1>6. CASE NotReady(t)
  <2>. DEFINE r == [task[t] EXCEPT !.pc = "next", !.cache = None, !.pending = TRUE]
  <2>1. /\ r.pc = "next" /\ r.todo = task[t].todo
        /\ r.fetched = task[t].fetched /\ r.ready = task[t].ready /\ DOMAIN r = TaskFields
        /\ r.attempt = task[t].attempt /\ r.session = task[t].session /\ r.before = task[t].before
        /\ r.apart = task[t].apart
    BY <1>3 DEF TaskFields
  <2>2. Set(t, r) /\ temps' = temps \ {Temp(t, p)} /\ serial' = serial
    BY <1>6 DEF NotReady
  <2>. HIDE DEF r
  <2>3. task'[t] = r
    BY <2>1, <2>2, SetFacts DEF SyncInv
  <2>4. TurnOf(t, r)
    BY <1>2, <1>3, <2>1, <2>2 DEF TurnOf, Active, Reads, Judges
  <2>5. Read(t)' = Read(t) /\ ~HoldsCache(t)'
    BY <2>1, <2>3 DEF Read, HoldsCache
  <2>6. DeclaredBy(t)' \subseteq DeclaredBy(t) /\ Caches(t)' \subseteq Caches(t)
    BY <2>1, <2>3, <2>5 DEF DeclaredBy, Caches
  <2>7. OneEach(t)'
    BY <1>4, <2>1, <2>3, <2>5 DEF OneEach
  <2>8. Judged(t)'
    BY <1>3, <2>1, <2>3 DEF Judged, Judges
  <2>9. TempsBelong'
    <3>1. TempsOfPass(t)' = TempsOf(t, Read(t))
      BY <2>3, <2>5 DEF TempsOfPass, TempsOf, Temp, Read
    <3>. QED BY <1>1, <1>3, <2>2, <3>1 DEF TempsBelong
  <2>. QED BY <1>1, <1>2, <2>1, <2>2, <2>4, <2>6, <2>7, <2>8, <2>9, MoveKeepsInv
<1>7. CASE /\ svc.session = task[t].session /\ Readable(t) /\ UNCHANGED <<serial, temps>>
           /\ LET cache == [task[t].cache EXCEPT !.file = f] IN
              IF task[t].pc = "head"
              THEN Set(t, [task[t] EXCEPT !.pc = "tail", !.cache = cache])
              ELSE Set(t, [task[t] EXCEPT !.pc = "next", !.cache = None,
                                          !.fetched = task[t].fetched \cup {cache}])
  <2>. DEFINE cache == [task[t].cache EXCEPT !.file = f]
  <2>1. cache.declared = p /\ cache.file = f /\ DOMAIN cache = {"declared", "file"}
    BY <1>1, <1>4 DEF OneEach
  <2>2. p.destination \in DOMAIN svc.files
    BY <1>7 DEF Readable, Get
  <2>3. p \in DeclaredBy(t)
    BY <1>1 DEF DeclaredBy
  <2>. HIDE DEF p
  <2>4. \A c \in {cache} : FreshlyRead(t, c)
    BY <1>7, <2>1, <2>2, <2>3 DEF FreshlyRead
  <2>. HIDE DEF f
  <2>5. CASE task[t].pc = "head"
    <3>. DEFINE r == [task[t] EXCEPT !.pc = "tail", !.cache = cache]
    <3>. HIDE DEF cache
    <3>1. /\ r.pc = "tail" /\ r.todo = task[t].todo /\ r.cache = cache
          /\ r.fetched = task[t].fetched /\ r.ready = task[t].ready /\ DOMAIN r = TaskFields
          /\ r.attempt = task[t].attempt /\ r.session = task[t].session /\ r.before = task[t].before
          /\ r.apart = task[t].apart
      BY <1>3 DEF TaskFields
    <3>2. Set(t, r)
      BY <1>7, <2>5 DEF cache
    <3>. HIDE DEF r
    <3>3. task'[t] = r
      BY <3>1, <3>2, SetFacts DEF SyncInv
    <3>4. TurnOf(t, r)
      BY <1>2, <1>3, <1>7, <3>1 DEF TurnOf, Active, Reads, Judges
    <3>5. Read(t)' = Read(t) /\ HoldsCache(t)' /\ task'[t].cache = cache
      BY <3>1, <3>3 DEF Read, HoldsCache
    <3>6. DeclaredBy(t)' \subseteq DeclaredBy(t) /\ Caches(t)' \subseteq Caches(t) \cup {cache}
      BY <2>1, <2>3, <3>1, <3>3, <3>5 DEF DeclaredBy, Caches
    <3>7. OneEach(t)'
      BY <1>1, <1>4, <2>1, <3>1, <3>3, <3>5 DEF OneEach, p
    <3>8. Judged(t)'
      BY <1>3, <3>1, <3>3 DEF Judged, Judges
    <3>9. TempsBelong'
      <4>1. TempsOfPass(t)' = TempsOf(t, Read(t)) \cup {Temp(t, p)}
        BY <2>1, <3>3, <3>5 DEF TempsOfPass, TempsOf, Temp, Read
      <4>. QED BY <1>1, <1>3, <1>7, <4>1 DEF TempsBelong, p
    <3>. DEFINE fresh == {cache}
    <3>10. (\A c \in fresh : FreshlyRead(t, c)) /\ Caches(t)' \subseteq Caches(t) \cup fresh
      BY <2>4, <3>6
    <3>. HIDE DEF fresh
    <3>. QED BY <1>1, <1>2, <3>1, <3>2, <3>4, <3>6, <3>7, <3>8, <3>9, <3>10, ReadKeepsInv
  <2>6. CASE task[t].pc = "tail"
    <3>. DEFINE r == [task[t] EXCEPT !.pc = "next", !.cache = None, !.fetched = task[t].fetched \cup {cache}]
    <3>. HIDE DEF cache
    <3>1. /\ r.pc = "next" /\ r.todo = task[t].todo
          /\ r.fetched = task[t].fetched \cup {cache} /\ r.ready = task[t].ready /\ DOMAIN r = TaskFields
          /\ r.attempt = task[t].attempt /\ r.session = task[t].session /\ r.before = task[t].before
          /\ r.apart = task[t].apart
      BY <1>3 DEF TaskFields
    <3>2. Set(t, r)
      BY <1>7, <2>6 DEF cache
    <3>. HIDE DEF r
    <3>3. task'[t] = r
      BY <3>1, <3>2, SetFacts DEF SyncInv
    <3>4. TurnOf(t, r)
      BY <1>2, <1>3, <1>7, <3>1 DEF TurnOf, Active, Reads, Judges
    <3>5. Read(t)' = Read(t) \cup {cache} /\ ~HoldsCache(t)'
      BY <3>1, <3>3 DEF Read, HoldsCache
    <3>6. DeclaredBy(t)' \subseteq DeclaredBy(t) /\ Caches(t)' \subseteq Caches(t) \cup {cache}
      BY <2>1, <2>3, <3>1, <3>3, <3>5 DEF DeclaredBy, Caches
    <3>7. OneEach(t)'
      BY <1>1, <1>4, <2>1, <3>1, <3>3, <3>5 DEF OneEach, p
    <3>8. Judged(t)'
      BY <1>3, <3>1, <3>3 DEF Judged, Judges
    <3>9. TempsBelong'
      <4>1. TempsOfPass(t)' = TempsOf(t, Read(t)) \cup {Temp(t, p)}
        BY <2>1, <3>3, <3>5 DEF TempsOfPass, TempsOf, Temp, Read
      <4>. QED BY <1>1, <1>3, <1>7, <4>1 DEF TempsBelong, p
    <3>. DEFINE fresh == {cache}
    <3>10. (\A c \in fresh : FreshlyRead(t, c)) /\ Caches(t)' \subseteq Caches(t) \cup fresh
      BY <2>4, <3>6
    <3>. HIDE DEF fresh
    <3>. QED BY <1>1, <1>2, <3>1, <3>2, <3>4, <3>6, <3>7, <3>8, <3>9, <3>10, ReadKeepsInv
  <2>. QED BY <1>1, <2>5, <2>6
<1>8. \/ ReadingLost(t) \/ NotReady(t)
      \/ /\ svc.session = task[t].session /\ Readable(t) /\ UNCHANGED <<serial, temps>>
         /\ IF task[t].pc = "head"
            THEN Set(t, [task[t] EXCEPT !.pc = "tail", !.cache = [task[t].cache EXCEPT !.file = f]])
            ELSE Set(t, [task[t] EXCEPT !.pc = "next", !.cache = None,
                            !.fetched = task[t].fetched \cup {[task[t].cache EXCEPT !.file = f]}])
  BY Zenon DEF FetchRuntimeFile
<1>. QED BY <1>5, <1>6, <1>7, <1>8

LEMMA CompareKeepsInv ==
    ASSUME SyncInv, NEW t \in Tasks, CompareLoads(t), BesideSync
    PROVE  SyncInv'
<1>1. task[t].pc = "next" /\ ~HoldsCache(t) /\ Reading(t) /\ UNCHANGED <<lost, app>>
  BY DEF CompareLoads, HoldsCache, Reading, Reads
<1>2. Around /\ lifecycle' = lifecycle
  BY DEF BesideSync, Around, hostVars
<1>3. /\ serial = t /\ task[t].attempt \in 0 .. MaxAttempts /\ DOMAIN task[t] = TaskFields /\ PassOK(t)
      /\ task[t].ready = {} /\ lifecycle # t
      /\ ~lost => temps \subseteq TempsOf(t, Read(t))
  BY <1>1, ReadingFacts DEF Judges, TempsOfPass, Read
<1>4. PICK times : IF None \in {task[t].before, times}
                   THEN /\ temps' = temps \ TempsOf(t, task[t].fetched)
                        /\ PassEnds(t, task[t].pending \/ task[t].fetched # {})
                   ELSE /\ Set(t, [task[t] EXCEPT !.pc = "verify", !.after = times])
                        /\ UNCHANGED <<temps, serial>>
  BY DEF CompareLoads
<1>5. CASE None \in {task[t].before, times}
  <2>1. (task[t].pending \/ task[t].fetched # {}) \in BOOLEAN
    OBVIOUS
  <2>2. PassEnds(t, task[t].pending \/ task[t].fetched # {}) /\ (~lost' => temps' = {})
    BY <1>1, <1>3, <1>4, <1>5 DEF Read
  <2>. QED BY <1>1, <1>2, <1>3, <2>1, <2>2, PassEndsKeepsInv
<1>6. CASE None \notin {task[t].before, times}
  <2>. DEFINE r == [task[t] EXCEPT !.pc = "verify", !.after = times]
  <2>1. /\ r.pc = "verify" /\ r.todo = task[t].todo
        /\ r.fetched = task[t].fetched /\ r.ready = task[t].ready /\ DOMAIN r = TaskFields
        /\ r.attempt = task[t].attempt /\ r.session = task[t].session /\ r.before = task[t].before
        /\ r.apart = task[t].apart
    BY <1>3 DEF TaskFields
  <2>2. Set(t, r) /\ UNCHANGED <<temps, serial>>
    BY <1>4, <1>6
  <2>. HIDE DEF r
  <2>3. task'[t] = r
    BY <2>1, <2>2, SetFacts DEF SyncInv
  <2>4. TurnOf(t, r)
    BY <1>2, <1>3, <2>1, <2>2 DEF TurnOf, Active, Reads, Judges
  <2>5. Read(t)' = Read(t) /\ ~HoldsCache(t)'
    BY <2>1, <2>3 DEF Read, HoldsCache
  <2>6. DeclaredBy(t)' \subseteq DeclaredBy(t) /\ Caches(t)' \subseteq Caches(t)
    BY <2>1, <2>3, <2>5 DEF DeclaredBy, Caches
  <2>7. OneEach(t)'
    BY <1>3, <2>1, <2>3, <2>5 DEF OneEach, PassOK, Declared
  <2>8. Judged(t)'
    BY <1>3, <1>6, <2>1, <2>3 DEF Judged, Judges
  <2>9. TempsBelong'
    <3>1. TempsOfPass(t)' = TempsOf(t, Read(t))
      BY <2>3, <2>5 DEF TempsOfPass, TempsOf, Temp, Read
    <3>. QED BY <1>1, <1>3, <2>2, <3>1 DEF TempsBelong
  <2>. QED BY <1>1, <1>2, <2>1, <2>2, <2>4, <2>6, <2>7, <2>8, <2>9, MoveKeepsInv
<1>. QED BY <1>5, <1>6

\* A provider loaded at the same time before and after, and a file no newer than
\* that: the file it was loaded from.
LEMMA FinishedIsWhole ==
    ASSUME SyncInv, NEW t \in Tasks, PassOK(t), NEW c \in Read(t), FinishedLoading(t, c), Knows(t, c.declared)
    PROVE  c.file.whole
<1>. DEFINE time == task[t].before[c.declared.name]
<1>1. Get(task[t].before, c.declared.name) = time
  BY DEF Knows, Get
<1>2. time \in Nat
  BY DEF PassOK, Compared, DeclaredBy, LoadedFrom
<1>3. /\ c.file.stamp \in Nat /\ c.file.stamp >= time
      /\ c.file.stamp = time => c.file.whole
  BY DEF PassOK, Compared, Ordered, Caches, Dated
<1>4. c.file.stamp <= time
  BY <1>1, <1>2, Assumptions DEF FinishedLoading
<1>. QED BY <1>2, <1>3, <1>4

LEMMA VerifyKeepsInv ==
    ASSUME SyncInv, NEW t \in Tasks, Verify(t), BesideSync
    PROVE  SyncInv'
<1>1. task[t].pc = "verify" /\ ~HoldsCache(t) /\ Reading(t) /\ UNCHANGED app
  BY DEF Verify, HoldsCache, Reading, Judges
<1>2. Around /\ lifecycle' = lifecycle
  BY DEF BesideSync, Around, hostVars
<1>3. /\ serial = t /\ task[t].attempt \in 0 .. MaxAttempts /\ DOMAIN task[t] = TaskFields /\ PassOK(t)
      /\ lifecycle # t
      /\ ~lost => temps \subseteq TempsOf(t, Read(t))
  BY <1>1, ReadingFacts DEF TempsOfPass, Read
<1>4. OneEach(t) /\ Judged(t)
  BY <1>3 DEF PassOK, Declared
<1>5. CASE task[t].fetched = {}
  <2>. DEFINE r == [task[t] EXCEPT !.pc = "publish", !.after = <<>>]
  <2>1. /\ r.pc = "publish" /\ r.todo = task[t].todo
        /\ r.fetched = task[t].fetched /\ r.ready = task[t].ready /\ DOMAIN r = TaskFields
        /\ r.attempt = task[t].attempt /\ r.session = task[t].session /\ r.before = task[t].before
        /\ r.apart = task[t].apart
    BY <1>3 DEF TaskFields
  <2>2. Set(t, r) /\ UNCHANGED <<temps, serial, lost>>
    BY <1>5 DEF Verify
  <2>. HIDE DEF r
  <2>3. task'[t] = r
    BY <2>1, <2>2, SetFacts DEF SyncInv
  <2>4. TurnOf(t, r)
    BY <1>2, <1>3, <1>5, <2>1, <2>2 DEF TurnOf, Active, Reads, Judges
  <2>5. Read(t)' = Read(t) /\ ~HoldsCache(t)'
    BY <2>1, <2>3 DEF Read, HoldsCache
  <2>6. DeclaredBy(t)' \subseteq DeclaredBy(t) /\ Caches(t)' \subseteq Caches(t)
    BY <2>1, <2>3, <2>5 DEF DeclaredBy, Caches
  <2>7. OneEach(t)'
    BY <1>4, <2>1, <2>3, <2>5 DEF OneEach
  <2>8. Judged(t)'
    BY <1>1, <1>4, <2>1, <2>3 DEF Judged, Judges, Knows
  <2>9. TempsBelong'
    <3>1. TempsOfPass(t)' = TempsOf(t, Read(t))
      BY <2>3, <2>5 DEF TempsOfPass, TempsOf, Temp, Read
    <3>. QED BY <1>3, <2>2, <3>1 DEF TempsBelong
  <2>. QED BY <1>1, <1>2, <2>1, <2>2, <2>4, <2>6, <2>7, <2>8, <2>9, MoveKeepsInv
<1>6. CASE task[t].fetched # {}
  <2>. DEFINE c == CHOOSE x \in task[t].fetched : TRUE
  <2>1. c \in task[t].fetched
    BY <1>6
  <2>2. \/ /\ Set(t, [[task[t] EXCEPT !.fetched = task[t].fetched \ {c}] EXCEPT !.pending = TRUE])
           /\ temps' = temps \ {Temp(t, c.declared)} /\ UNCHANGED <<serial, lost>>
        \/ lost' = TRUE /\ PassEnds(t, FALSE)
        \/ /\ Set(t, [[task[t] EXCEPT !.fetched = task[t].fetched \ {c}] EXCEPT !.ready = task[t].ready \cup {c}])
           /\ UNCHANGED <<serial, temps, lost>> /\ FinishedLoading(t, c)
    BY <1>6, Zenon DEF Verify
  <2>. HIDE DEF c
  <2>3. CASE /\ Set(t, [[task[t] EXCEPT !.fetched = task[t].fetched \ {c}] EXCEPT !.pending = TRUE])
             /\ temps' = temps \ {Temp(t, c.declared)} /\ UNCHANGED <<serial, lost>>
    <3>. DEFINE r == [[task[t] EXCEPT !.fetched = task[t].fetched \ {c}] EXCEPT !.pending = TRUE]
    <3>1. /\ r.pc = "verify" /\ r.todo = task[t].todo
          /\ r.fetched = task[t].fetched \ {c} /\ r.ready = task[t].ready /\ DOMAIN r = TaskFields
          /\ r.attempt = task[t].attempt /\ r.session = task[t].session /\ r.before = task[t].before
          /\ r.apart = task[t].apart
      BY <1>1, <1>3 DEF TaskFields
    <3>2. Set(t, r)
      BY <2>3
    <3>. HIDE DEF r
    <3>3. task'[t] = r
      BY <3>1, <3>2, SetFacts DEF SyncInv
    <3>4. TurnOf(t, r)
      BY <1>2, <1>3, <2>3, <3>1 DEF TurnOf, Active, Reads, Judges
    <3>5. Read(t)' \subseteq Read(t) /\ Read(t) \subseteq Read(t)' \cup {c} /\ ~HoldsCache(t)'
      BY <3>1, <3>3 DEF Read, HoldsCache
    <3>6. DeclaredBy(t)' \subseteq DeclaredBy(t) /\ Caches(t)' \subseteq Caches(t)
      BY <3>1, <3>3, <3>5 DEF DeclaredBy, Caches
    <3>7. OneEach(t)'
      BY <1>4, <3>1, <3>3, <3>5 DEF OneEach
    <3>8. Judged(t)'
      BY <1>1, <1>4, <3>1, <3>3 DEF Judged, Judges, Knows
    <3>9. TempsBelong'
      <4>1. TempsOf(t, Read(t)') \subseteq TempsOfPass(t)'
        BY <3>3, <3>5 DEF TempsOfPass, TempsOf, Temp, Read
      <4>2. TempsOf(t, Read(t)) \ {Temp(t, c.declared)} \subseteq TempsOf(t, Read(t)')
        BY <3>5 DEF TempsOf
      <4>. QED BY <1>3, <2>3, <4>1, <4>2 DEF TempsBelong
    <3>. QED BY <1>1, <1>2, <3>1, <3>2, <3>4, <3>6, <3>7, <3>8, <3>9, MoveKeepsInv
  <2>4. CASE lost' = TRUE /\ PassEnds(t, FALSE)
    <3>1. ~lost' => temps' = {}
      BY <2>4
    <3>. QED BY <1>1, <1>2, <1>3, <2>4, <3>1, PassEndsKeepsInv
  <2>5. CASE /\ Set(t, [[task[t] EXCEPT !.fetched = task[t].fetched \ {c}] EXCEPT !.ready = task[t].ready \cup {c}])
             /\ UNCHANGED <<serial, temps, lost>> /\ FinishedLoading(t, c)
    <3>. DEFINE r == [[task[t] EXCEPT !.fetched = task[t].fetched \ {c}] EXCEPT !.ready = task[t].ready \cup {c}]
    <3>1. /\ r.pc = "verify" /\ r.todo = task[t].todo
          /\ r.fetched = task[t].fetched \ {c} /\ r.ready = task[t].ready \cup {c} /\ DOMAIN r = TaskFields
          /\ r.attempt = task[t].attempt /\ r.session = task[t].session /\ r.before = task[t].before
          /\ r.apart = task[t].apart
      BY <1>1, <1>3 DEF TaskFields
    <3>2. Set(t, r)
      BY <2>5
    <3>. HIDE DEF r
    <3>3. task'[t] = r
      BY <3>1, <3>2, SetFacts DEF SyncInv
    <3>4. TurnOf(t, r)
      BY <1>2, <1>3, <2>5, <3>1 DEF TurnOf, Active, Reads, Judges
    <3>5. Read(t)' = Read(t) /\ ~HoldsCache(t)'
      BY <2>1, <3>1, <3>3 DEF Read, HoldsCache
    <3>6. DeclaredBy(t)' \subseteq DeclaredBy(t) /\ Caches(t)' \subseteq Caches(t)
      BY <3>1, <3>3, <3>5 DEF DeclaredBy, Caches
    <3>7. OneEach(t)'
      BY <1>4, <3>1, <3>3, <3>5 DEF OneEach
    <3>8. Judged(t)'
      <4>1. Knows(t, c.declared) => c.file.whole
        BY <1>3, <2>1, <2>5, FinishedIsWhole DEF Read
      <4>. QED BY <1>1, <1>4, <3>1, <3>3, <4>1 DEF Judged, Judges, Knows
    <3>9. TempsBelong'
      <4>1. TempsOfPass(t)' = TempsOf(t, Read(t))
        BY <3>3, <3>5 DEF TempsOfPass, TempsOf, Temp, Read
      <4>. QED BY <1>3, <2>5, <4>1 DEF TempsBelong
    <3>. QED BY <1>1, <1>2, <3>1, <3>2, <3>4, <3>6, <3>7, <3>8, <3>9, MoveKeepsInv
  <2>. QED BY <2>2, <2>3, <2>4, <2>5
<1>. QED BY <1>5, <1>6

LEMMA LockKeepsInv ==
    ASSUME SyncInv, NEW t \in Tasks, LockToPublish(t)
    PROVE  SyncInv'
<1>1. /\ task[t].pc = "publish" /\ ~HoldsCache(t) /\ Reading(t) /\ UNCHANGED <<serial, temps, lost, app>>
      /\ lifecycle = Free /\ lifecycle' = t
  BY DEF LockToPublish, HoldsCache, Reading, Judges
<1>2. Around
  BY DEF LockToPublish, Around
<1>3. /\ serial = t /\ task[t].attempt \in 0 .. MaxAttempts /\ DOMAIN task[t] = TaskFields /\ PassOK(t)
      /\ ~lost => temps \subseteq TempsOf(t, Read(t))
      /\ task[t].fetched = {}
  BY <1>1, ReadingFacts DEF TempsOfPass, Read
<1>4. OneEach(t) /\ Judged(t)
  BY <1>3 DEF PassOK, Declared
<1>. DEFINE r == [task[t] EXCEPT !.pc = "rename", !.allowed = Allowed(t)]
<1>5. /\ r.pc = "rename" /\ r.todo = task[t].todo /\ r.allowed = Allowed(t)
      /\ r.fetched = task[t].fetched /\ r.ready = task[t].ready /\ DOMAIN r = TaskFields
      /\ r.attempt = task[t].attempt /\ r.session = task[t].session /\ r.before = task[t].before
      /\ r.apart = task[t].apart
  BY <1>3 DEF TaskFields
<1>6. Set(t, r)
  BY DEF LockToPublish
<1>. HIDE DEF r
<1>7. task'[t] = r
  BY <1>5, <1>6, SetFacts DEF SyncInv
<1>8. TurnOf(t, r)
  BY <1>1, <1>3, <1>5 DEF TurnOf, Active, Reads, Judges
<1>9. Read(t)' = Read(t) /\ ~HoldsCache(t)'
  BY <1>5, <1>7 DEF Read, HoldsCache
<1>10. DeclaredBy(t)' \subseteq DeclaredBy(t) /\ Caches(t)' \subseteq Caches(t)
  BY <1>5, <1>7, <1>9 DEF DeclaredBy, Caches
<1>11. OneEach(t)'
  BY <1>4, <1>5, <1>7, <1>9 DEF OneEach
<1>12. Judged(t)'
  <2>1. Allowed(t) # {} => StillServed(t)'
    BY <1>2, <1>5, <1>7 DEF Allowed, StillServed, Around
  <2>. QED BY <1>1, <1>4, <1>5, <1>7, <2>1 DEF Judged, Judges, Knows
<1>13. TempsBelong'
  <2>1. TempsOfPass(t)' = TempsOf(t, Read(t))
    BY <1>7, <1>9 DEF TempsOfPass, TempsOf, Temp, Read
  <2>. QED BY <1>1, <1>3, <2>1 DEF TempsBelong
<1>. QED BY <1>1, <1>2, <1>5, <1>6, <1>8, <1>10, <1>11, <1>12, <1>13, MoveKeepsInv

\* A cache that is put in place is the next of the session, and what the app
\* still stands for.
Replaced(t, c) ==
    /\ c \in task[t].ready /\ c.declared \in task[t].allowed /\ ~SameContents(c)
    /\ app' = Put(app, c.declared.destination, Published(t, c))

LEMMA ReplacedFacts ==
    ASSUME SyncInv, NEW t \in Tasks, task[t].pc = "rename", NEW c, Replaced(t, c), NEW d, d = c.declared.destination
    PROVE  /\ DOMAIN app' = DOMAIN app \cup {d} /\ \A x \in DOMAIN app \ {d} : app'[x] = app[x]
           /\ app'[d].stamp = c.file.stamp /\ app'[d].session = task[t].session
           /\ app'[d].whole = c.file.whole
           /\ StillServed(t) /\ Dated(c.file)
           /\ d \in DOMAIN app /\ app[d].session = task[t].session => c.file.stamp > app[d].stamp
           /\ d \in DOMAIN svc.files /\ svc.session = task[t].session => svc.files[d].stamp >= c.file.stamp
<1>. DEFINE p == Published(t, c)
<1>1. p.stamp = c.file.stamp /\ p.session = task[t].session /\ p.whole = c.file.whole
  BY DEF Published
<1>2. app' = Put(app, d, p)
  BY DEF Replaced
<1>. HIDE DEF p
<1>3. DOMAIN app' = DOMAIN app \cup {d} /\ app'[d] = p /\ \A x \in DOMAIN app \ {d} : app'[x] = app[x]
  BY <1>2 DEF Put
<1>4. PassOK(t)
  BY ReadingFacts DEF Reading, Judges
<1>5. StillServed(t) /\ c \in Caches(t)
  BY <1>4 DEF PassOK, Judged, Replaced, Caches, Read
<1>6. /\ Dated(c.file)
      /\ d \in DOMAIN app /\ app[d].session = task[t].session => c.file.stamp >= app[d].stamp
      /\ d \in DOMAIN svc.files /\ svc.session = task[t].session => svc.files[d].stamp >= c.file.stamp
  BY <1>4, <1>5 DEF PassOK, Ordered
<1>7. d \in DOMAIN app => app[d].stamp # c.file.stamp
  BY DEF Replaced, SameContents
<1>8. d \in DOMAIN app => app[d].stamp \in Nat
  BY DEF SyncInv, AppIsOlder, Dated
<1>. QED BY <1>1, <1>3, <1>5, <1>6, <1>7, <1>8 DEF Dated

LEMMA RenameKeepsInv ==
    ASSUME SyncInv, NEW t \in Tasks, Rename(t)
    PROVE  SyncInv'
<1>. DEFINE c == CHOOSE x \in task[t].ready : TRUE
<1>1. task[t].pc = "rename" /\ c \in task[t].ready /\ ~HoldsCache(t) /\ Reading(t) /\ UNCHANGED <<serial, lost>>
  BY DEF Rename, HoldsCache, Reading, Judges
<1>2. Around /\ lifecycle' = lifecycle
  BY DEF Rename, BesideSync, Around, hostVars
<1>3. /\ Set(t, [task[t] EXCEPT !.ready = task[t].ready \ {c}]) /\ temps' = temps \ {Temp(t, c.declared)}
      /\ UNCHANGED app \/ Replaced(t, c)
  BY <1>1 DEF Rename, Replaced
<1>. HIDE DEF c
<1>4. /\ serial = t /\ task[t].attempt \in 0 .. MaxAttempts /\ DOMAIN task[t] = TaskFields /\ PassOK(t)
      /\ ~lost => temps \subseteq TempsOf(t, Read(t))
      /\ task[t].fetched = {} /\ lifecycle = t
  BY <1>1, ReadingFacts DEF TempsOfPass, Read
<1>5. OneEach(t) /\ Judged(t) /\ Ordered(t)
  BY <1>4 DEF PassOK, Declared
<1>. DEFINE r == [task[t] EXCEPT !.ready = task[t].ready \ {c}]
<1>6. /\ r.pc = "rename" /\ r.todo = task[t].todo /\ r.allowed = task[t].allowed
      /\ r.fetched = {} /\ r.ready = task[t].ready \ {c} /\ DOMAIN r = TaskFields
      /\ r.attempt = task[t].attempt /\ r.session = task[t].session /\ r.before = task[t].before
      /\ r.apart = task[t].apart
  BY <1>1, <1>4 DEF TaskFields
<1>7. Set(t, r)
  BY <1>3
<1>. HIDE DEF r
<1>8. task'[t] = r
  BY <1>6, <1>7, SetFacts DEF SyncInv
<1>9. TurnOf(t, r)
  BY <1>1, <1>2, <1>4, <1>6 DEF TurnOf, Active, Reads, Judges
<1>10. Read(t)' = Read(t) \ {c} /\ ~HoldsCache(t)' /\ Reading(t)'
  BY <1>4, <1>6, <1>8 DEF Read, HoldsCache, Reading, Judges
<1>11. DeclaredBy(t)' \subseteq DeclaredBy(t) /\ Caches(t)' = Read(t) \ {c}
  BY <1>6, <1>8, <1>10 DEF DeclaredBy, Caches
<1>12. OneEach(t)'
  BY <1>5, <1>6, <1>8, <1>10 DEF OneEach
<1>13. Judged(t)'
  BY <1>1, <1>2, <1>5, <1>6, <1>8 DEF Judged, Judges, Knows, StillServed, Around
<1>14. TempsBelong'
  <2>1. TempsOfPass(t)' = TempsOf(t, Read(t) \ {c})
    BY <1>8, <1>10 DEF TempsOfPass, TempsOf, Temp, Read
  <2>2. TempsOf(t, Read(t)) \ {Temp(t, c.declared)} \subseteq TempsOf(t, Read(t) \ {c})
    BY DEF TempsOf
  <2>. QED BY <1>1, <1>3, <1>4, <2>1, <2>2 DEF TempsBelong
<1>15. CASE UNCHANGED app
  <2>1. Caches(t)' \subseteq Caches(t)
    BY <1>11 DEF Caches
  <2>. QED BY <1>1, <1>2, <1>6, <1>7, <1>9, <1>11, <1>12, <1>13, <1>14, <1>15, <2>1, MoveKeepsInv
<1>16. CASE Replaced(t, c)
  <2>. DEFINE d == c.declared.destination
  <2>1. /\ DOMAIN app' = DOMAIN app \cup {d} /\ \A x \in DOMAIN app \ {d} : app'[x] = app[x]
        /\ app'[d].stamp = c.file.stamp /\ app'[d].session = task[t].session
        /\ StillServed(t) /\ Dated(c.file)
        /\ d \in DOMAIN svc.files /\ svc.session = task[t].session => svc.files[d].stamp >= c.file.stamp
    BY <1>1, <1>16, ReplacedFacts
  <2>. HIDE DEF d
  <2>2. task[t].session \in Nat /\ task[t].session <= svc.session
    BY <1>4 DEF PassOK, Declared
  <2>3. AppIsOlder'
    <3>. SUFFICES ASSUME NEW x \in DOMAIN app'
         PROVE  /\ app'[x].stamp \in Nat /\ app'[x].stamp <= stamp
                /\ app'[x].session \in Nat /\ app'[x].session <= svc.session
                /\ app'[x].session = svc.session /\ x \in DOMAIN svc.files => svc.files[x].stamp >= app'[x].stamp
      BY <1>2 DEF AppIsOlder, Dated, Around
    <3>1. CASE x = d
      BY <2>1, <2>2, <3>1 DEF Dated
    <3>2. CASE x # d
      BY <2>1, <3>2 DEF SyncInv, AppIsOlder, Dated
    <3>. QED BY <3>1, <3>2
  <2>4. Ordered(t)'
    <3>. SUFFICES ASSUME NEW b \in Read(t) \ {c}, NEW x, x = b.declared.destination
         PROVE  /\ Dated(b.file)
                /\ x \in DOMAIN app' /\ app'[x].session = task[t].session => b.file.stamp >= app'[x].stamp
                /\ x \in DOMAIN svc.files /\ svc.session = task[t].session => svc.files[x].stamp >= b.file.stamp
      BY <1>2, <1>6, <1>8, <1>11 DEF Ordered, Dated, Around
    <3>1. x # d
      <4>1. c \in Read(t) /\ b.declared # c.declared
        BY <1>1, <1>5 DEF OneEach, Read
      <4>. QED BY <1>4, <4>1 DEF PassOK, Declared, Distinct, DeclaredBy, d
    <3>2. b \in Caches(t)
      BY DEF Caches
    <3>. QED BY <1>5, <2>1, <3>1, <3>2 DEF Ordered
  <2>5. PassOK(t)'
    <3>. DEFINE fresh == {}
    <3>1. (\A b \in fresh : FreshlyRead(t, b)) /\ Caches(t)' \subseteq Caches(t) \cup fresh
      BY <1>11 DEF Caches
    <3>. HIDE DEF fresh
    <3>2. /\ Compared(t)' /\ Distinct(DeclaredBy(t)')
          /\ task'[t].session \in Nat \ {0} /\ task'[t].session <= svc'.session
      BY <1>2, <1>4, <1>6, <1>8, <1>11, <3>1, PassMoves
    <3>. QED BY <1>12, <1>13, <2>4, <3>2 DEF PassOK, Declared, Distinct
  <2>. QED BY <1>2, <1>4, <1>7, <1>9, <1>14, <2>3, <2>5, TaskKeepsInv
<1>. QED BY <1>3, <1>15, <1>16

LEMMA UnlockKeepsInv ==
    ASSUME SyncInv, NEW t \in Tasks, Unlock(t)
    PROVE  SyncInv'
<1>1. /\ task[t].pc = "rename" /\ task[t].ready = {} /\ ~HoldsCache(t) /\ Reading(t) /\ UNCHANGED <<temps, lost, app>>
      /\ lifecycle' = Free
  BY DEF Unlock, HoldsCache, Reading, Judges
<1>2. Around
  BY DEF Unlock, Around
<1>3. /\ serial = t /\ lifecycle = t /\ task[t].fetched = {}
      /\ ~lost => temps \subseteq TempsOf(t, Read(t))
  BY <1>1, ReadingFacts DEF TempsOfPass, Read
<1>4. ~lost' => temps' = {}
  BY <1>1, <1>3 DEF TempsOf, Read
<1>. DEFINE again == task[t].pending = TRUE
<1>5. PassEnds(t, again)
  BY DEF Unlock, PassEnds
<1>6. again \in BOOLEAN
  OBVIOUS
<1>. HIDE DEF again
<1>7. lifecycle' # t /\ {lifecycle, lifecycle'} = {Free, t}
  BY <1>1, <1>3, Assumptions
<1>. QED BY <1>1, <1>2, <1>3, <1>4, <1>5, <1>6, <1>7, PassEndsKeepsInv

-----------------------------------------------------------------------------
(* The steps together *)

LEMMA SyncInitially == SyncInit => SyncInv
<1>. SUFFICES ASSUME SyncInit PROVE SyncInv
  OBVIOUS
<1>. USE DEF SyncInit
<1>. DEFINE first == ProvidersOf(Resolved(First))
<1>1. \A t \in Tasks : task[t] = Sleeping
  OBVIOUS
<1>2. SyncTypeOK
  <2>1. \A t \in Tasks : task[t].attempt \in 0 .. MaxAttempts
    BY <1>1, SleepingFields, Assumptions
  <2>. QED BY <2>1, Assumptions DEF SyncTypeOK
<1>3. core.up /\ core.config = Resolved(First) /\ core.loaded = [n \in {r.name : r \in first} |-> 1]
      /\ DOMAIN core = {"up", "config", "loaded"}
  BY DEF Running
<1>4. svc.session = 1 /\ svc.files = FirstFiles /\ DOMAIN svc = {"session", "files"}
  OBVIOUS
<1>5. Shapes
  BY <1>1, <1>3, <1>4, SleepingFields DEF Shapes, NoUpdate
<1>6. Turns
  BY <1>1, SleepingFields, Assumptions DEF Turns, Active, Reads, Judges
<1>7. Updating
  BY <1>3, <1>4, FirstGenerated DEF Updating, NoUpdate
<1>8. TempsBelong
  BY DEF TempsBelong
<1>9. \A d \in DOMAIN FirstFiles : FirstFiles[d].stamp = 1 /\ FirstFiles[d].whole
  BY DEF FirstFiles
<1>10. FilesAreDated
  BY <1>4, <1>9 DEF FilesAreDated, Dated
<1>11. CoreLoaded
  <2>. SUFFICES ASSUME NEW n \in DOMAIN core.loaded
       PROVE  \E r \in first : r.name = n /\ LoadedFrom(r.destination, core.loaded[n])
    BY <1>3 DEF CoreLoaded
  <2>1. PICK r \in first : r.name = n /\ core.loaded[n] = 1
    BY <1>3
  <2>2. LoadedFrom(r.destination, 1)
    BY <1>4, <1>9 DEF LoadedFrom
  <2>. QED BY <2>1, <2>2
<1>12. AppIsOlder
  BY NoneLoaded DEF AppIsOlder
<1>13. PassesOK
  BY <1>1, SleepingFields DEF PassesOK, Reading, Reads, Judges
<1>. QED BY <1>2, <1>5, <1>6, <1>7, <1>8, <1>10, <1>11, <1>12, <1>13 DEF SyncInv

LEMMA TaskStepKeepsInv ==
    ASSUME SyncInv, NEW t \in Tasks, TaskStep(t)
    PROVE  SyncInv'
BY TakingKeepsInv, BeginKeepsInv, NextCacheKeepsInv, FetchKeepsInv, CompareKeepsInv, VerifyKeepsInv,
   LockKeepsInv, RenameKeepsInv, UnlockKeepsInv DEF TaskStep

LEMMA StaysSame ==
    ASSUME SyncInv, UNCHANGED providerVars
    PROVE  SyncInv'
<1>1. HostStep
  <2>1. UNCHANGED <<syncVars, hostVars, svc, app, stamp>>
    BY DEF providerVars
  <2>2. TasksWait /\ FilesGrow /\ AppGrows /\ LocksKept
    BY <2>1, StillWaiting, FilesStay, AppStays DEF SyncInv, LocksKept, syncVars, hostVars
  <2>3. SyncTypeOK' /\ CoreLoaded'
    BY <2>1, <2>2, HostTypes, CoreKept DEF SyncInv, SyncTypeOK, hostVars
  <2>. QED BY <2>1, <2>2, <2>3 DEF HostStep, HostMove, SyncInv, Updating, Shapes, hostVars
<1>. QED BY <1>1, HostKeepsInv

LEMMA SyncStepKeepsInv == SyncInv /\ [SyncNext]_providerVars => SyncInv'
<1>. SUFFICES ASSUME SyncInv, [SyncNext]_providerVars PROVE SyncInv'
  OBVIOUS
<1>1. CASE SyncRuntimeProviders
  BY <1>1, RequestIsHostStep, HostKeepsInv
<1>2. CASE UpdateStep
  BY <1>2, ApplyIsHostStep, LockIsHostStep, StageIsHostStep, ReloadIsHostStep, StopIsHostStep,
     StartIsHostStep, CommitIsHostStep, HostKeepsInv DEF UpdateStep
<1>3. ASSUME NEW c \in Configs, StartUpdate(c) PROVE SyncInv'
  BY <1>3, StartUpdateIsHostStep, HostKeepsInv
<1>4. CASE StartByService \/ StartSidecar
  BY <1>4, RestartIsHostStep, HostKeepsInv
<1>5. CASE SessionTaken
  BY <1>5, TakingIsHostStep, HostKeepsInv
<1>6. CASE CoreStep
  BY <1>6, CoreIsHostStep, HostKeepsInv
<1>7. CASE SidecarWrites
  BY <1>7, SidecarIsHostStep, HostKeepsInv
<1>8. ASSUME NEW t \in Tasks, TaskStep(t) PROVE SyncInv'
  BY <1>8, TaskStepKeepsInv
<1>9. CASE UNCHANGED providerVars
  BY <1>9, StaysSame
<1>. QED BY <1>1, <1>2, <1>3, <1>4, <1>5, <1>6, <1>7, <1>8, <1>9 DEF SyncNext

LEMMA SyncInvHolds == SyncSpec => []SyncInv
BY SyncInitially, SyncStepKeepsInv, PTL DEF SyncSpec

LEMMA TempsAreGone == SyncInv => TemporaryFilesGo
BY Assumptions DEF SyncInv, TempsBelong, TemporaryFilesGo

\* A pass changes the app directory in one place.
LEMMA OnlyRenamePublishes ==
    ASSUME SyncInv, [SyncNext]_providerVars, NEW d, Publishes(d)
    PROVE  \E t \in Tasks : Rename(t)
<1>1. ~UNCHANGED app /\ ~UNCHANGED task
  BY DEF Publishes
<1>2. ASSUME NEW t \in Tasks, TaskStep(t) PROVE Rename(t)
  BY <1>1, <1>2 DEF TaskStep, TakeSerial, Begin, NextCache, FetchRuntimeFile, CompareLoads, Verify,
                    LockToPublish, Unlock
<1>3. ~SyncRuntimeProviders /\ ~(\E c \in Configs : StartUpdate(c)) /\ ~StartByService /\ ~StartSidecar
      /\ ~SessionTaken /\ ~CoreStep /\ ~SidecarWrites
  BY <1>1 DEF SyncRuntimeProviders, StartUpdate, StartByService, StartSidecar, SessionTaken, CoreStep,
              SidecarWrites, syncVars
<1>4. ~UpdateStep
  BY <1>1 DEF UpdateStep, ApplyToSidecar, LockForUpdate, Stage, ReloadStaged, StopForUpdate, StartForUpdate,
              CommitUpdate
<1>5. ~UNCHANGED providerVars
  BY <1>1 DEF providerVars
<1>. QED BY <1>2, <1>3, <1>4, <1>5 DEF SyncNext

LEMMA RenameIsSound ==
    ASSUME SyncInv, NEW t \in Tasks, Rename(t), NEW d \in DOMAIN app', Publishes(d)
    PROVE  Whole(d) /\ Own(d) /\ Newer(d)
<1>. DEFINE c == CHOOSE x \in task[t].ready : TRUE
<1>1. task[t].pc = "rename" /\ c \in task[t].ready /\ lifecycle = t /\ PassOK(t)
  <2>1. task[t].pc = "rename" /\ c \in task[t].ready
    BY DEF Rename
  <2>. QED BY <2>1, ReadingFacts DEF Reading, Judges
<1>2. Replaced(t, c)
  BY <1>1 DEF Rename, Replaced, Publishes
<1>. HIDE DEF c
<1>. DEFINE target == c.declared.destination
<1>3. /\ DOMAIN app' = DOMAIN app \cup {target} /\ \A x \in DOMAIN app \ {target} : app'[x] = app[x]
      /\ app'[target].stamp = c.file.stamp /\ app'[target].session = task[t].session
      /\ app'[target].whole = c.file.whole /\ StillServed(t)
      /\ target \in DOMAIN app /\ app[target].session = task[t].session => c.file.stamp > app[target].stamp
  BY <1>1, <1>2, ReplacedFacts
<1>. HIDE DEF target
<1>4. d = target
  BY <1>3 DEF Publishes, Get
<1>5. Whole(d)
  <2>1. task[t].before # None /\ (Knows(t, c.declared) => c.file.whole)
    BY <1>1 DEF PassOK, Judged, Judges
  <2>. QED BY <1>1, <1>3, <1>4, <2>1 DEF Whole, Knows, target
<1>6. Own(d)
  BY <1>1, <1>2, <1>3, <1>4 DEF Own, StillServed, Replaced, target
<1>7. Newer(d)
  BY <1>3, <1>4 DEF Newer, Get
<1>. QED BY <1>5, <1>6, <1>7

\* ProviderSync is well typed: the session the app keeps is one the Service
\* granted, the two locks have one holder, and no task tries more often than
\* RUNTIME_PROVIDER_SYNC_ATTEMPTS.
THEOREM SyncTypeCorrect == SyncSpec => []SyncTypeOK
<1>1. SyncInv => SyncTypeOK
  BY DEF SyncInv
<1>. QED BY <1>1, SyncInvHolds, PTL

\* Between passes no temporary file is left in the app directory, whichever step
\* of a pass failed (remove_temp, discard_fetched), but for the exception of a
\* session lost while caches were verified.
THEOREM NoFileIsLeft == SyncSpec => []TemporaryFilesGo
BY SyncInvHolds, TempsAreGone, PTL

\* What a pass puts into the app directory is the file a provider was loaded from,
\* of the live session and the committed configuration, and never older than what
\* the session put there before: the order of load times, chunks, load times and
\* rechecks in sync_runtime_providers_by_service, and the lifecycle lock in
\* publish_fetched, suffice for any number of rewrites, updates and sessions.
THEOREM PublicationsAreSound == SyncSpec => PublishedCachesAreSound
<1>. DEFINE Sound == \A d \in DOMAIN app' : Publishes(d) => Whole(d) /\ Own(d) /\ Newer(d)
<1>1. SyncInv /\ [SyncNext]_providerVars => [Sound]_providerVars
  <2>. SUFFICES ASSUME SyncInv, [SyncNext]_providerVars, NEW d \in DOMAIN app', Publishes(d)
       PROVE  Whole(d) /\ Own(d) /\ Newer(d)
    OBVIOUS
  <2>1. PICK t \in Tasks : Rename(t)
    BY OnlyRenamePublishes
  <2>. QED BY <2>1, RenameIsSound
<1>. QED BY <1>1, SyncInvHolds, PTL DEF SyncSpec, PublishedCachesAreSound

-----------------------------------------------------------------------------
(* RuntimeBundle: conflicts between declared files *)

\* Natural numbers are well founded: a set of them has a least one.
LEMMA LeastOf ==
    ASSUME NEW S \in SUBSET Nat, S # {}
    PROVE  \E n \in S : \A k \in S : n <= k
<1>. DEFINE T == {0 .. n : n \in S}
<1>1. T # {} /\ T \subseteq FiniteSubsetsOf(Nat)
  <2>1. \A n \in S : 0 .. n \in SUBSET Nat /\ IsFiniteSet(0 .. n)
    BY FS_Interval
  <2>. QED BY <2>1 DEF FiniteSubsetsOf
<1>2. PICK x \in T : \A y \in T : <<y, x>> \notin StrictSubsetOrdering(Nat)
  <2>. HIDE DEF T
  <2>. QED BY <1>1, FS_StrictSubsetOrderingWellFounded, WFMin
<1>3. PICK n \in S : x = 0 .. n
  BY <1>2
<1>4. ASSUME NEW k \in S, k < n PROVE FALSE
  <2>1. 0 .. k \subseteq 0 .. n /\ n \in 0 .. n /\ n \notin 0 .. k
    BY <1>4
  <2>2. <<0 .. k, 0 .. n>> \in StrictSubsetOrdering(Nat)
    BY <2>1 DEF StrictSubsetOrdering
  <2>. QED BY <1>2, <1>3, <2>2
<1>. QED BY <1>3, <1>4

\* A made-up name is none of the reserved ones: there are more numbers than those.
LEMMA AllocateIsFree ==
    ASSUME NEW origin, NEW source, NEW reserved, IsFiniteSet(reserved)
    PROVE  /\ Allocate(origin, source, reserved) \notin reserved
           /\ \E n \in Nat : Allocate(origin, source, reserved) = <<origin, source, n>>
<1>. DEFINE N == Cardinality(reserved)
<1>. DEFINE free == {n \in 0 .. N : <<origin, source, n>> \notin reserved}
<1>1. N \in Nat
  BY FS_CardinalityType
<1>2. free # {}
  <2>. SUFFICES ASSUME \A n \in 0 .. N : <<origin, source, n>> \in reserved PROVE FALSE
    OBVIOUS
  <2>. DEFINE f == [n \in 0 .. N |-> <<origin, source, n>>]
  <2>1. f \in Injection(0 .. N, reserved)
    BY DEF Injection, IsInjective
  <2>2. Cardinality(0 .. N) <= Cardinality(reserved)
    <3>. HIDE DEF f
    <3>. QED BY <2>1, FS_Injection
  <2>3. Cardinality(0 .. N) = N + 1
    <3>. HIDE DEF N
    <3>. QED BY <1>1, FS_Interval
  <2>. QED BY <1>1, <2>2, <2>3
<1>3. \E n \in free : \A k \in free : n <= k
  <2>1. free \in SUBSET Nat
    BY <1>1
  <2>. HIDE DEF free
  <2>. QED BY <1>2, <2>1, LeastOf
<1>. DEFINE least == CHOOSE n \in free : \A k \in free : n <= k
<1>4. least \in free
  <2>. HIDE DEF free
  <2>. QED BY <1>3
<1>5. Allocate(origin, source, reserved) = <<origin, source, least>>
  BY DEF Allocate
<1>6. least \in Nat /\ <<origin, source, least>> \notin reserved
  BY <1>1, <1>4
<1>. QED BY <1>5, <1>6

\* A configuration, whatever its names, urls and paths are.
IsConfig(config) ==
    \E Kinds, Names, Links, Paths :
        config \in Seq([kind : Kinds, name : Names, url : Links, path : Paths])

\* A name made out of a digest is no other spelling of a path.
MadeUpNamesArePlain == \A o, s, n : <<o, s, n>> \notin DOMAIN Place \cup {None}

Moves(config, i) ==
    /\ IsProvider(config[i]) /\ Destination(config[i]) # None
    /\ Conflicting(config, Destination(config[i]))
Moved(config, i) == Allocate(Destination(config[i]), config[i].url, Reserved(config))

LEMMA ConfigFields ==
    ASSUME NEW config, IsConfig(config)
    PROVE  /\ DOMAIN config = 1 .. Len(config) /\ Len(config) \in Nat
           /\ config = [i \in DOMAIN config |-> config[i]]
           /\ \A i \in DOMAIN config : DOMAIN config[i] = {"kind", "name", "url", "path"}
<1>1. PICK Kinds, Names, Links, Paths : config \in Seq([kind : Kinds, name : Names, url : Links, path : Paths])
  BY DEF IsConfig
<1>. DEFINE Entries == [kind : Kinds, name : Names, url : Links, path : Paths]
<1>2. \A e \in Entries : DOMAIN e = {"kind", "name", "url", "path"}
  OBVIOUS
<1>. HIDE DEF Entries
<1>3. config \in Seq(Entries)
  BY <1>1 DEF Entries
<1>4. DOMAIN config = 1 .. Len(config) /\ Len(config) \in Nat /\ \A i \in DOMAIN config : config[i] \in Entries
  BY <1>3
<1>5. config = [i \in DOMAIN config |-> config[i]]
  BY <1>3
<1>. QED BY <1>2, <1>4, <1>5

LEMMA ReservedIsFinite ==
    ASSUME NEW config, IsConfig(config), IsFiniteSet(Geo)
    PROVE  IsFiniteSet(Reserved(config))
<1>. DEFINE f == [i \in DOMAIN config |-> Destination(config[i])]
<1>. DEFINE T == {Destination(config[i]) : i \in DOMAIN config}
<1>1. IsFiniteSet(DOMAIN config)
  <2>1. IsFiniteSet(1 .. Len(config))
    BY ConfigFields, FS_Interval
  <2>. QED BY <2>1, ConfigFields
<1>2. f \in Surjection(DOMAIN config, T)
  BY DEF Surjection
<1>3. IsFiniteSet(T)
  <2>. HIDE DEF f, T
  <2>. QED BY <1>1, <1>2, FS_Surjection
<1>. DEFINE D == {Destination(config[i]) : i \in {j \in DOMAIN config : IsProvider(config[j])}} \ {None}
<1>4. D \in SUBSET T
  OBVIOUS
<1>5. IsFiniteSet(D)
  <2>. HIDE DEF D, T
  <2>. QED BY <1>3, <1>4, FS_Subset
<1>6. Reserved(config) = Geo \cup D
  BY DEF Reserved
<1>. HIDE DEF D
<1>. QED BY <1>5, <1>6, FS_Union

\* Where a configuration ends up once its conflicts are resolved.
LEMMA ResolvedEntries ==
    ASSUME NEW config, IsConfig(config), IsFiniteSet(Geo), MadeUpNamesArePlain,
           NEW resolved, resolved = ResolveProviderPathConflicts(config)
    PROVE  /\ DOMAIN resolved = DOMAIN config
           /\ resolved = [i \in DOMAIN config |-> resolved[i]]
           /\ \A i \in DOMAIN config :
                /\ resolved[i].url = config[i].url /\ resolved[i].kind = config[i].kind
                /\ ~Moves(config, i) => resolved[i] = config[i]
                /\ Moves(config, i) =>
                    /\ resolved[i].path = Moved(config, i) /\ Destination(resolved[i]) = Moved(config, i)
                    /\ Moved(config, i) \notin Reserved(config)
                    /\ \E n : Moved(config, i) = <<Destination(config[i]), config[i].url, n>>
<1>1. resolved = [i \in DOMAIN config |-> IF Moves(config, i) THEN [config[i] EXCEPT !.path = Moved(config, i)]
                                          ELSE config[i]]
  BY DEF ResolveProviderPathConflicts, Moves, Moved
<1>2. DOMAIN resolved = DOMAIN config /\ resolved = [i \in DOMAIN config |-> resolved[i]]
  BY <1>1
<1>3. ASSUME NEW i \in DOMAIN config
      PROVE  /\ resolved[i].url = config[i].url /\ resolved[i].kind = config[i].kind
             /\ ~Moves(config, i) => resolved[i] = config[i]
             /\ Moves(config, i) => resolved[i].path = Moved(config, i)
  BY <1>1, ConfigFields
<1>4. ASSUME NEW i \in DOMAIN config, Moves(config, i)
      PROVE  /\ Destination(resolved[i]) = Moved(config, i) /\ Moved(config, i) \notin Reserved(config)
             /\ \E n : Moved(config, i) = <<Destination(config[i]), config[i].url, n>>
  <2>1. Moved(config, i) \notin Reserved(config) /\ \E n : Moved(config, i) = <<Destination(config[i]), config[i].url, n>>
    BY ReservedIsFinite, AllocateIsFree DEF Moved
  <2>2. Moved(config, i) \notin DOMAIN Place
    BY <2>1 DEF MadeUpNamesArePlain
  <2>3. i \in Owners(config, Destination(config[i]))
    BY <1>4 DEF Owners, Moves
  <2>4. config[i].kind = "http"
    BY <1>4, <2>3 DEF Moves, Conflicting, Downloads, IsRemote
  <2>5. resolved[i].kind = "http" /\ resolved[i].path = Moved(config, i)
    BY <1>3, <1>4, <2>4
  <2>6. Destination(resolved[i]) = Moved(config, i)
    BY <2>2, <2>5, PlaceAssumption DEF Destination, IsRemote, ProviderDestination, Leads
  <2>. QED BY <2>1, <2>6
<1>. QED BY <1>2, <1>3, <1>4

LEMMA MovedMeetNoOther ==
    ASSUME NEW config, IsConfig(config), IsFiniteSet(Geo), MadeUpNamesArePlain,
           NEW resolved, resolved = ResolveProviderPathConflicts(config),
           NEW i \in DOMAIN config, Moves(config, i),
           NEW j \in Owners(resolved, Destination(resolved[i]))
    PROVE  resolved[j].url = resolved[i].url
<1>1. j \in DOMAIN config /\ IsProvider(resolved[j]) /\ Destination(resolved[j]) = Moved(config, i)
  BY ResolvedEntries DEF Owners
<1>2. CASE Moves(config, j)
  <2>1. Moved(config, j) = Moved(config, i)
    BY <1>1, <1>2, ResolvedEntries
  <2>2. PICK n : Moved(config, i) = <<Destination(config[i]), config[i].url, n>>
    BY ResolvedEntries
  <2>3. PICK m : Moved(config, j) = <<Destination(config[j]), config[j].url, m>>
    BY <1>1, <1>2, ResolvedEntries
  <2>4. config[j].url = config[i].url
    BY <2>1, <2>2, <2>3
  <2>. QED BY <1>1, <2>4, ResolvedEntries
<1>3. CASE ~Moves(config, j)
  <2>1. IsProvider(config[j]) /\ Destination(config[j]) = Moved(config, i)
    BY <1>1, <1>3, ResolvedEntries
  <2>2. Moved(config, i) # None /\ Moved(config, i) \notin Reserved(config)
    BY ResolvedEntries DEF MadeUpNamesArePlain
  <2>. QED BY <1>1, <2>1, <2>2 DEF Reserved
<1>. QED BY <1>2, <1>3

\* A source that is moved out of a conflict meets no other where it goes
\* (resolve_provider_path_conflicts, allocate_provider_destination), whatever a
\* configuration declares.
THEOREM MovedSourcesMeetNoOther ==
    ASSUME NEW config, IsConfig(config), IsFiniteSet(Geo), MadeUpNamesArePlain,
           NEW resolved, resolved = ResolveProviderPathConflicts(config),
           NEW i \in DOMAIN config, resolved[i].path # config[i].path,
           NEW j \in Owners(resolved, Destination(resolved[i]))
    PROVE  resolved[j].url = resolved[i].url
<1>1. Moves(config, i)
  BY ResolvedEntries
<1>. QED BY <1>1, MovedMeetNoOther

\* Moving is done once: what is resolved has no conflict that would move a source
\* again, so applying a configuration twice stages the same files.
THEOREM ResolvingIsDoneOnce ==
    ASSUME NEW config, IsConfig(config), IsFiniteSet(Geo), MadeUpNamesArePlain,
           NEW resolved, resolved = ResolveProviderPathConflicts(config)
    PROVE  ResolveProviderPathConflicts(resolved) = resolved
<1>1. ASSUME NEW i \in DOMAIN config, Moves(resolved, i) PROVE FALSE
  <2>. DEFINE d == Destination(resolved[i])
  <2>1. IsProvider(resolved[i]) /\ d # None /\ Conflicting(resolved, d)
    BY <1>1 DEF Moves
  <2>2. CASE Moves(config, i)
    <3>1. \A j \in Owners(resolved, d) : resolved[j].url = resolved[i].url
      BY <2>2, MovedMeetNoOther
    <3>2. i \in Owners(resolved, d)
      BY <2>1, ResolvedEntries DEF Owners
    <3>3. Urls(resolved, d) = {resolved[i].url}
      BY <3>1, <3>2 DEF Urls
    <3>4. Cardinality(Urls(resolved, d)) = 1
      BY <3>3, FS_Singleton
    <3>. QED BY <2>1, <3>4 DEF Conflicting
  <2>3. CASE ~Moves(config, i)
    <3>1. resolved[i] = config[i] /\ IsProvider(config[i]) /\ d = Destination(config[i]) /\ d \in Reserved(config)
      <4>1. resolved[i] = config[i]
        BY <2>3, ResolvedEntries
      <4>. QED BY <2>1, <4>1 DEF Reserved
    <3>2. ~Conflicting(config, d)
      BY <2>1, <2>3, <3>1 DEF Moves
    <3>3. \A j \in DOMAIN config : Destination(config[j]) = d => ~Moves(config, j)
      BY <3>2 DEF Moves
    <3>4. \A j \in DOMAIN config : Destination(resolved[j]) = d => ~Moves(config, j)
      BY <3>1, ResolvedEntries
    <3>5. Owners(resolved, d) = Owners(config, d) /\ \A j \in Owners(config, d) : resolved[j] = config[j]
      BY <3>3, <3>4, ResolvedEntries DEF Owners
    <3>6. Urls(resolved, d) = Urls(config, d)
      BY <3>5 DEF Urls
    <3>. QED BY <2>1, <3>2, <3>5, <3>6 DEF Conflicting
  <2>. QED BY <2>2, <2>3
<1>2. DOMAIN resolved = DOMAIN config /\ resolved = [i \in DOMAIN config |-> resolved[i]]
  BY ResolvedEntries
<1>3. ResolveProviderPathConflicts(resolved) =
        [i \in DOMAIN resolved |-> IF Moves(resolved, i) THEN [resolved[i] EXCEPT !.path = Moved(resolved, i)]
                                   ELSE resolved[i]]
  BY DEF ResolveProviderPathConflicts, Moves, Moved
<1>. QED BY <1>1, <1>2, <1>3

=============================================================================
