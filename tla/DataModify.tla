------------------------------ MODULE DataModify ------------------------------
(***************************************************************************)
(* Draft::with_data_modify (crates/clash-verge-draft): asynchronous edits  *)
(* of a layer's committed value.  A permit serialises the modifiers; the   *)
(* value may still change under one of them, through an editor that stages *)
(* a draft and applies it, and then the modifier gives up.                 *)
(*                                                                         *)
(* The committed value is the set of actors whose edit it contains, with   *)
(* the identity of its Arc: every replacement is a new one.                *)
(***************************************************************************)
EXTENDS Naturals, FiniteSets

CONSTANTS
    Modifiers,   \* callers of with_data_modify, each of which runs once
    Editors      \* callers of edit_draft and apply, each of which runs once

ASSUME DataModifyAssumption == Modifiers \cap Editors = {} /\ IsFiniteSet(Modifiers)

VARIABLES
    committedValue, \* guard.0: [edits, arc]
    stagedDraft, \* guard.1: {} or the edits of the staged draft
    modifying,   \* data_modifying, the permit flag
    stored,      \* data_modify_notify holds a wake-up nobody waited for
    modifier,    \* each modifier: its step, and the value it copied
    editor       \* where each editor stands

modifyVars == <<committedValue, stagedDraft, modifying, stored, modifier, editor>>

Authors == Modifiers \cup Editors
Values == [edits : SUBSET Authors, arc : Nat]

Inside == {"reading", "editing", "publishing", "releasing"}
Steps == {"fast", "slow", "parking", "parked", "notifying", "ok", "failed"} \cup Inside

ModifyTypeOK ==
    /\ committedValue \in Values
    /\ stagedDraft \in SUBSET (SUBSET Authors)
    /\ modifying \in BOOLEAN
    /\ stored \in BOOLEAN
    /\ modifier \in [Modifiers -> [step : Steps, base : Values, result : {"none", "ok", "failed"}]]
    /\ editor \in [Editors -> {"idle", "edited", "done"}]

NoValue == [edits |-> {}, arc |-> 0]

ModifyInit ==
    /\ committedValue = NoValue
    /\ stagedDraft = {}
    /\ modifying = FALSE
    /\ stored = FALSE
    /\ modifier = [m \in Modifiers |-> [step |-> "fast", base |-> NoValue, result |-> "none"]]
    /\ editor = [w \in Editors |-> "idle"]

At(m, step) == modifier[m].step = step
Move(m, step) == modifier' = [modifier EXCEPT ![m].step = step]
Parked == {m \in Modifiers : At(m, "parked")}

Replace(edits) == committedValue' = [edits |-> edits, arc |-> committedValue.arc + 1]

-----------------------------------------------------------------------------
(* acquire_data_modify_permit *)

\* compare_exchange(false, true)
TryAcquire(m, else) ==
    /\ modifying' = TRUE
    /\ Move(m, IF modifying THEN else ELSE "reading")
    /\ UNCHANGED <<committedValue, stagedDraft, stored, editor>>

\* One attempt before a yield, then attempts between naps.
FastTry(m) == At(m, "fast") /\ TryAcquire(m, "slow")
SlowTry(m) == At(m, "slow") /\ TryAcquire(m, "parking")

\* Mutant: a wake-up kept from before is not looked at.
ParkRegardless(m) ==
    /\ At(m, "parking")
    /\ Move(m, "parked")
    /\ UNCHANGED <<committedValue, stagedDraft, modifying, stored, editor>>

\* notified.await takes a stored wake-up or joins the waiters.
Park(m) ==
    /\ At(m, "parking")
    /\ stored' = FALSE
    /\ Move(m, IF stored THEN "slow" ELSE "parked")
    /\ UNCHANGED <<committedValue, stagedDraft, modifying, editor>>

-----------------------------------------------------------------------------
(* with_data_modify, under the permit *)

Read(m) ==
    /\ At(m, "reading")
    /\ modifier' = [modifier EXCEPT ![m].step = "editing", ![m].base = committedValue]
    /\ UNCHANGED <<committedValue, stagedDraft, modifying, stored, editor>>

\* The caller's future fails, or ends with a new value.
EditFails(m) ==
    /\ At(m, "editing")
    /\ modifier' = [modifier EXCEPT ![m].step = "releasing", ![m].result = "failed"]
    /\ UNCHANGED <<committedValue, stagedDraft, modifying, stored, editor>>

EditEnds(m) ==
    /\ At(m, "editing")
    /\ Move(m, "publishing")
    /\ UNCHANGED <<committedValue, stagedDraft, modifying, stored, editor>>

\* Mutant: the value is replaced whatever became of the one that was copied.
PublishAnyway(m) ==
    /\ At(m, "publishing")
    /\ Replace(modifier[m].base.edits \cup {m})
    /\ modifier' = [modifier EXCEPT ![m].step = "releasing", ![m].result = "ok"]
    /\ UNCHANGED <<stagedDraft, modifying, stored, editor>>

\* Arc::ptr_eq decides, under the layer's lock.
Publish(m) ==
    /\ At(m, "publishing")
    /\ LET same == committedValue.arc = modifier[m].base.arc IN
       /\ IF same THEN Replace(modifier[m].base.edits \cup {m}) ELSE UNCHANGED committedValue
       /\ modifier' = [modifier EXCEPT ![m].step = "releasing",
                                       ![m].result = IF same THEN "ok" ELSE "failed"]
    /\ UNCHANGED <<stagedDraft, modifying, stored, editor>>

-----------------------------------------------------------------------------
(* DataModifyPermit::drop *)

ClearFlag(m) ==
    /\ At(m, "releasing")
    /\ modifying' = FALSE
    /\ Move(m, "notifying")
    /\ UNCHANGED <<committedValue, stagedDraft, stored, editor>>

\* Mutant: a wake-up that finds nobody waiting is forgotten.
NotifyWaiting(m) ==
    /\ At(m, "notifying")
    /\ LET left == [modifier EXCEPT ![m].step = modifier[m].result] IN
       IF Parked = {} THEN modifier' = left
       ELSE \E p \in Parked : modifier' = [left EXCEPT ![p].step = "slow"]
    /\ UNCHANGED <<committedValue, stagedDraft, modifying, stored, editor>>

\* notify_one wakes a waiter, or is kept for the next one.
NotifyOne(m) ==
    /\ At(m, "notifying")
    /\ LET left == [modifier EXCEPT ![m].step = modifier[m].result] IN
       IF Parked = {}
       THEN /\ stored' = TRUE
            /\ modifier' = left
       ELSE /\ \E p \in Parked : modifier' = [left EXCEPT ![p].step = "slow"]
            /\ UNCHANGED stored
    /\ UNCHANGED <<committedValue, stagedDraft, modifying, editor>>

ModifierStep(m) ==
    \/ FastTry(m) \/ SlowTry(m) \/ Park(m)
    \/ Read(m) \/ EditFails(m) \/ EditEnds(m) \/ Publish(m)
    \/ ClearFlag(m) \/ NotifyOne(m)

-----------------------------------------------------------------------------
(* Editors *)

EditorEdits(w) ==
    /\ editor[w] = "idle"
    /\ editor' = [editor EXCEPT ![w] = "edited"]
    /\ LET latest == IF stagedDraft = {} THEN committedValue.edits ELSE UNION stagedDraft IN
       stagedDraft' = {latest \cup {w}}
    /\ UNCHANGED <<committedValue, modifying, stored, modifier>>

EditorApplies(w) ==
    /\ editor[w] = "edited"
    /\ editor' = [editor EXCEPT ![w] = "done"]
    /\ IF stagedDraft = {} THEN UNCHANGED committedValue ELSE Replace(UNION stagedDraft)
    /\ stagedDraft' = {}
    /\ UNCHANGED <<modifying, stored, modifier>>

-----------------------------------------------------------------------------
ModifyNext ==
    \/ \E m \in Modifiers : ModifierStep(m)
    \/ \E w \in Editors : EditorEdits(w) \/ EditorApplies(w)

ModifySpec == ModifyInit /\ [][ModifyNext]_modifyVars

\* The scheduler runs every task that is ready, and a caller's future ends.
FairModifySpec == ModifySpec /\ \A m \in Modifiers : WF_modifyVars(ModifierStep(m))

-----------------------------------------------------------------------------
(* Properties *)

\* The permit: its flag is up exactly while one modifier is inside.
PermitExact ==
    /\ modifying <=> \E m \in Modifiers : modifier[m].step \in Inside
    /\ \A m, n \in Modifiers :
          modifier[m].step \in Inside /\ modifier[n].step \in Inside => m = n

\* with_data_modify never drops an edit that was committed while it ran: a modifier
\* that returns Ok adds its own edit to what is there, and nothing else.
ModifyKeepsOthers ==
    [][\A m \in Modifiers :
          modifier[m].result # "ok" /\ modifier'[m].result = "ok" =>
              committedValue'.edits = committedValue.edits \cup {m}]_modifyVars

\* The permit is there so that modifiers do not fail for each other: the value a
\* modifier copied is stale only when an editor applied a draft.
StaleOnlyByEditor ==
    \A m \in Modifiers :
        modifier[m].step \in {"editing", "publishing"} /\ modifier[m].base.arc # committedValue.arc
            => \E w \in Editors : editor[w] = "done"

\* The notify is sent after the flag is cleared and is kept when nobody waits, so a
\* modifier sleeps only while another one is awake that will wake it.
SleepersHaveAWaker ==
    Parked # {} => \E m \in Modifiers : modifier[m].step \in Inside \cup {"notifying", "slow"}

\* Every caller of with_data_modify gets its answer.
EveryModifierReturns == \A m \in Modifiers : <>(modifier[m].step \in {"ok", "failed"})

=============================================================================
