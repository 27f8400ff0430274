----------------------------- MODULE DraftLayers -----------------------------
(***************************************************************************)
(* Draft transactions (crates/clash-verge-draft): each configuration layer *)
(* has one committed value and one draft slot.  A transaction claims its   *)
(* layers in order, stages edits in their drafts across awaits, and then   *)
(* applies every draft or discards every draft.                            *)
(*                                                                         *)
(* The value of a layer is the set of actors whose edit it contains: an    *)
(* edit adds its author to a copy of what the layer showed.                *)
(*                                                                         *)
(* A writer edits a draft and applies it without claiming the layer, as    *)
(* CoreManager::change_core does on the Verge layer and                    *)
(* restore_previous_profile on the profiles, which no transaction names.   *)
(***************************************************************************)
EXTENDS Naturals, Sequences

CONSTANTS
    Layers,
    Txs,          \* transactions, each of which runs once
    Writers,      \* unclaimed writers, each of which runs once
    Order,        \* Order[t]: the layers of t, in the order it names them
    WriterLayer   \* the layer each writer edits

LayersOf == [t \in Txs |-> {Order[t][i] : i \in DOMAIN Order[t]}]

ASSUME DraftLayersAssumption ==
    /\ Txs \cap Writers = {}
    /\ Order \in [Txs -> Seq(Layers)]
    /\ \A t \in Txs : /\ Len(Order[t]) > 0
                      /\ \A i, j \in DOMAIN Order[t] : Order[t][i] = Order[t][j] => i = j
    /\ WriterLayer \in [Writers -> Layers]

VARIABLES
    committed,   \* guard.0 of each layer
    draft,       \* guard.1 of each layer: whether a draft is staged, and its value
    claimed,     \* the claimed flag of each layer
    tx,          \* where each transaction stands: its phase, and the position
                 \* in its Order of the layer its next step touches
    writer       \* where each writer stands

vars == <<committed, draft, claimed, tx, writer>>
data == <<committed, draft>>

Actors == Txs \cup Writers
Phases == {"claiming", "unwinding", "busy", "staging", "applying", "releasing", "committed",
           "discarding", "dropping", "rolledBack"}

Drafts == [staged : BOOLEAN, edits : SUBSET Actors]
NoDraft == [staged |-> FALSE, edits |-> {}]

TypeOK ==
    /\ committed \in [Layers -> SUBSET Actors]
    /\ draft \in [Layers -> Drafts]
    /\ claimed \in [Layers -> BOOLEAN]
    /\ tx \in [Txs -> [phase : Phases, at : Nat]]
    /\ \A t \in Txs : tx[t].at \in 1 .. Len(Order[t]) + 1
    /\ writer \in [Writers -> {"idle", "edited", "done"}]

Init ==
    /\ committed = [l \in Layers |-> {}]
    /\ draft = [l \in Layers |-> NoDraft]
    /\ claimed = [l \in Layers |-> FALSE]
    /\ tx = [t \in Txs |-> [phase |-> "claiming", at |-> 1]]
    /\ writer = [w \in Writers |-> "idle"]

-----------------------------------------------------------------------------
(* Draft: each runs under the layer's data lock. *)

Latest(l) == IF draft[l].staged THEN draft[l].edits ELSE committed[l]

EditDraft(l, a) ==
    /\ draft' = [draft EXCEPT ![l] = [staged |-> TRUE, edits |-> Latest(l) \cup {a}]]
    /\ UNCHANGED committed

\* apply does nothing without a draft.
Apply(l) ==
    /\ committed' = [committed EXCEPT ![l] = Latest(l)]
    /\ draft' = [draft EXCEPT ![l] = NoDraft]

Discard(l) ==
    /\ draft' = [draft EXCEPT ![l] = NoDraft]
    /\ UNCHANGED committed

-----------------------------------------------------------------------------
(* DraftTransaction *)

In(t, phase) == tx[t].phase = phase
Layer(t) == Order[t][tx[t].at]
Last(t) == tx[t].at = Len(Order[t])

\* Goes to the next layer, or to the first one of the phase that follows.
Goto(t, phase, at) == tx' = [tx EXCEPT ![t] = [phase |-> phase, at |-> at]]
Advance(t, next) ==
    IF Last(t) THEN Goto(t, next, 1) ELSE Goto(t, tx[t].phase, tx[t].at + 1)

\* begin takes the claims in order ...
Claim(t) ==
    /\ In(t, "claiming")
    /\ ~claimed[Layer(t)]
    /\ claimed' = [claimed EXCEPT ![Layer(t)] = TRUE]
    /\ Advance(t, "staging")
    /\ UNCHANGED <<data, writer>>

\* Mutant: begin waits for a taken layer.
WaitForClaim(t) ==
    /\ In(t, "claiming")
    /\ claimed[Layer(t)]
    /\ UNCHANGED vars

\* ... and gives up at the first one that is taken.
ClaimRefused(t) ==
    /\ In(t, "claiming")
    /\ claimed[Layer(t)]
    /\ Goto(t, IF tx[t].at = 1 THEN "busy" ELSE "unwinding", tx[t].at)
    /\ UNCHANGED <<data, claimed, writer>>

\* Mutant: a refused begin keeps its partial claim.
UnwindNothing(t) ==
    /\ In(t, "unwinding")
    /\ Goto(t, "busy", 1)
    /\ UNCHANGED <<data, claimed, writer>>

\* The partial claim is released before begin returns.
Unwind(t) ==
    /\ In(t, "unwinding")
    /\ LET held == tx[t].at - 1 IN
       /\ claimed' = [claimed EXCEPT ![Order[t][held]] = FALSE]
       /\ Goto(t, IF held = 1 THEN "busy" ELSE "unwinding", held)
    /\ UNCHANGED <<data, writer>>

\* The holder stages its edits one layer at a time, awaiting in between.
Stage(t) ==
    /\ In(t, "staging")
    /\ tx[t].at <= Len(Order[t])
    /\ EditDraft(Layer(t), t)
    /\ Goto(t, "staging", tx[t].at + 1)
    /\ UNCHANGED <<claimed, writer>>

\* Mutant: a transaction commits before every layer is staged.
CommitEarly(t) ==
    /\ In(t, "staging")
    /\ Goto(t, "applying", 1)
    /\ UNCHANGED <<data, claimed, writer>>

Commit(t) ==
    /\ In(t, "staging")
    /\ tx[t].at > Len(Order[t])
    /\ Goto(t, "applying", 1)
    /\ UNCHANGED <<data, claimed, writer>>

\* An error between any two edits drops the transaction.
Rollback(t) ==
    /\ In(t, "staging")
    /\ Goto(t, "discarding", 1)
    /\ UNCHANGED <<data, claimed, writer>>

ApplyLayer(t) ==
    /\ In(t, "applying")
    /\ Apply(Layer(t))
    /\ Advance(t, "releasing")
    /\ UNCHANGED <<claimed, writer>>

ReleaseCommitted(t) ==
    /\ In(t, "releasing")
    /\ claimed' = [claimed EXCEPT ![Layer(t)] = FALSE]
    /\ Advance(t, "committed")
    /\ UNCHANGED <<data, writer>>

\* Mutant: the drop releases the layer and leaves its draft staged.
KeepDraft(t) ==
    /\ In(t, "discarding")
    /\ Goto(t, "dropping", tx[t].at)
    /\ UNCHANGED <<data, claimed, writer>>

\* drop discards one layer and releases it before it turns to the next.
DiscardLayer(t) ==
    /\ In(t, "discarding")
    /\ Discard(Layer(t))
    /\ Goto(t, "dropping", tx[t].at)
    /\ UNCHANGED <<claimed, writer>>

ReleaseDropped(t) ==
    /\ In(t, "dropping")
    /\ claimed' = [claimed EXCEPT ![Layer(t)] = FALSE]
    /\ IF Last(t) THEN Goto(t, "rolledBack", 1) ELSE Goto(t, "discarding", tx[t].at + 1)
    /\ UNCHANGED <<data, writer>>

TxStep(t) ==
    \/ Claim(t) \/ ClaimRefused(t) \/ Unwind(t)
    \/ Stage(t) \/ Commit(t) \/ Rollback(t)
    \/ ApplyLayer(t) \/ ReleaseCommitted(t)
    \/ DiscardLayer(t) \/ ReleaseDropped(t)

-----------------------------------------------------------------------------
(* Writers that do not claim *)

WriterEdit(w) ==
    /\ writer[w] = "idle"
    /\ writer' = [writer EXCEPT ![w] = "edited"]
    /\ EditDraft(WriterLayer[w], w)
    /\ UNCHANGED <<claimed, tx>>

WriterApply(w) ==
    /\ writer[w] = "edited"
    /\ writer' = [writer EXCEPT ![w] = "done"]
    /\ Apply(WriterLayer[w])
    /\ UNCHANGED <<claimed, tx>>

-----------------------------------------------------------------------------
Next ==
    \/ \E t \in Txs : TxStep(t)
    \/ \E w \in Writers : WriterEdit(w) \/ WriterApply(w)

Spec == Init /\ [][Next]_vars

\* Every step is synchronous or an await that ends; a transaction may not stay
\* in the middle of one.
FairSpec == Spec /\ \A t \in Txs : WF_vars(TxStep(t))

-----------------------------------------------------------------------------
(* Properties *)

\* No transaction names a layer that a writer edits without a claim.
WritersApart == \A w \in Writers, t \in Txs : WriterLayer[w] \notin LayersOf[t]

Settled == {"busy", "committed", "rolledBack"}

\* The layers a transaction owns while it claims, stages, applies or drops.
Holds(t) ==
    {Order[t][i] : i \in
        {j \in DOMAIN Order[t] :
            \/ tx[t].phase \in {"claiming", "unwinding"} /\ j < tx[t].at
            \/ tx[t].phase \in {"staging", "applying"}
            \/ tx[t].phase \in {"releasing", "discarding", "dropping"} /\ j >= tx[t].at}}

\* begin and drop: a layer is claimed exactly while one transaction owns it, also
\* after a refused begin and in the middle of a drop.
ClaimsExact ==
    /\ \A l \in Layers : claimed[l] <=> \E t \in Txs : l \in Holds(t)
    /\ \A t, u \in Txs : t # u => Holds(t) \cap Holds(u) = {}

\* No transaction finds, under its claim, a draft that another one left.
NoForeignDraft ==
    \A t \in Txs : \A l \in Holds(t) :
        draft[l].staged => draft[l].edits \subseteq committed[l] \cup {t}

\* begin, drop and commit: a transaction has its layers for itself, claims and
\* content alike.
LayersAreOwned == ClaimsExact /\ NoForeignDraft

\* The transactions implement the all-or-nothing commit of LayeredCommit: an
\* applied transaction is on every layer, any other on none.
fate == [t \in Txs |->
    CASE tx[t].phase \in {"applying", "releasing"} -> "publishing"
      [] tx[t].phase = "committed" -> "committed"
      [] tx[t].phase \in {"busy", "unwinding", "discarding", "dropping", "rolledBack"} -> "aborted"
      [] OTHER -> "open"]
txEdits == [l \in Layers |-> committed[l] \cap Txs]
Abstract == INSTANCE LayeredCommit WITH content <- txEdits
Implements == Abstract!Spec

\* A transaction that settled is on all of its layers or on none, whatever the
\* transactions it met, as long as unclaimed writers keep to other layers.
AllOrNothing == Abstract!AllOrNothing

\* Transactions that name the same layers in different orders never wait for each
\* other: each one settles.
EveryTransactionSettles == \A t \in Txs : <>(tx[t].phase \in Settled)

=============================================================================
