-------------------------- MODULE DraftLayersProofs --------------------------
(***************************************************************************)
(* Theorems about DraftLayers, for every set of layers, transactions and   *)
(* writers and every order in which transactions name their layers; and    *)
(* about DataModify, for every set of modifiers and editors.               *)
(***************************************************************************)
EXTENDS DraftLayers, DataModify, TLAPS

\* The layer of a position is a layer, and positions name different ones.
LEMMA OrderFacts ==
    ASSUME NEW t \in Txs
    PROVE  /\ Len(Order[t]) \in Nat /\ Len(Order[t]) > 0
           /\ \A i \in 1 .. Len(Order[t]) : Order[t][i] \in Layers
           /\ \A i, j \in 1 .. Len(Order[t]) : Order[t][i] = Order[t][j] => i = j
<1>1. Order[t] \in Seq(Layers)
  BY DraftLayersAssumption
<1>2. DOMAIN Order[t] = 1 .. Len(Order[t])
  BY <1>1
<1>. QED BY <1>1, <1>2, DraftLayersAssumption

\* What the data operations do to a layer's value and draft.
LEMMA EditType ==
    ASSUME TypeOK, NEW l \in Layers, NEW a \in Actors, EditDraft(l, a)
    PROVE  draft' \in [Layers -> Drafts] /\ committed' \in [Layers -> SUBSET Actors]
<1>1. Latest(l) \in SUBSET Actors
  BY DEF TypeOK, Latest, Drafts
<1>. QED BY <1>1 DEF TypeOK, EditDraft, Drafts

LEMMA ApplyType ==
    ASSUME TypeOK, NEW l \in Layers, Apply(l)
    PROVE  draft' \in [Layers -> Drafts] /\ committed' \in [Layers -> SUBSET Actors]
<1>1. Latest(l) \in SUBSET Actors
  BY DEF TypeOK, Latest, Drafts
<1>. QED BY <1>1 DEF TypeOK, Apply, Drafts, NoDraft

LEMMA DiscardType ==
    ASSUME TypeOK, NEW l \in Layers, Discard(l)
    PROVE  draft' \in [Layers -> Drafts] /\ committed' \in [Layers -> SUBSET Actors]
BY DEF TypeOK, Discard, Drafts, NoDraft

\* A phase that touches a layer has one to touch.
Pointed(t) ==
    /\ ~In(t, "staging") => tx[t].at \in 1 .. Len(Order[t])
    /\ In(t, "unwinding") => tx[t].at > 1

TypeInv == TypeOK /\ \A t \in Txs : Pointed(t)

TxType ==
    /\ tx \in [Txs -> [phase : Phases, at : Nat]]
    /\ \A t \in Txs : tx[t].at \in 1 .. Len(Order[t]) + 1
    /\ \A t \in Txs : Pointed(t)

\* What Goto leaves, and that a legal move keeps the type.
LEMMA GotoFacts ==
    ASSUME TypeInv, NEW t \in Txs, NEW p, NEW i, Goto(t, p, i)
    PROVE  /\ tx'[t] = [phase |-> p, at |-> i]
           /\ tx'[t].phase = p /\ tx'[t].at = i
           /\ \A u \in Txs : u # t => tx'[u] = tx[u]
BY DEF TypeInv, TypeOK, Goto

LEMMA GotoType ==
    ASSUME TypeInv, NEW t \in Txs, NEW p \in Phases, NEW i \in 1 .. Len(Order[t]) + 1,
           Goto(t, p, i), p # "staging" => i <= Len(Order[t]), p = "unwinding" => i > 1
    PROVE  TxType'
<1>1. tx' \in [Txs -> [phase : Phases, at : Nat]]
  BY OrderFacts DEF TypeInv, TypeOK, Goto
<1>0. /\ tx'[t].phase = p /\ tx'[t].at = i
      /\ \A u \in Txs : u # t => tx'[u] = tx[u]
  BY GotoFacts
<1>2. \A u \in Txs : tx'[u].at \in 1 .. Len(Order[u]) + 1
  BY <1>0 DEF TypeInv, TypeOK
<1>3. ASSUME NEW u \in Txs PROVE Pointed(u)'
  <2>1. CASE u = t
    BY <1>0, <2>1, OrderFacts DEF Pointed, In
  <2>2. CASE u # t
    BY <1>0, <2>2 DEF TypeInv, Pointed, In
  <2>. QED BY <2>1, <2>2
<1>. QED BY <1>1, <1>2, <1>3 DEF TxType

LEMMA AdvanceType ==
    ASSUME TypeInv, NEW t \in Txs, tx[t].at <= Len(Order[t]),
           NEW next \in Phases \ {"unwinding"}, Advance(t, next),
           ~In(t, "unwinding")
    PROVE  TxType'
<1>1. tx[t].phase \in Phases /\ tx[t].at \in 1 .. Len(Order[t])
  BY OrderFacts DEF TypeInv, TypeOK
<1>2. CASE Last(t)
  BY <1>2, GotoType, OrderFacts DEF Advance
<1>3. CASE ~Last(t)
  <2>1. tx[t].at + 1 \in 1 .. Len(Order[t])
    BY <1>1, <1>3, OrderFacts DEF Last
  <2>. QED BY <1>1, <1>3, <2>1, GotoType, OrderFacts DEF Advance, In
<1>. QED BY <1>2, <1>3

\* The layer a transaction's next step touches.
LEMMA LayerType ==
    ASSUME TypeInv, NEW t \in Txs, tx[t].at <= Len(Order[t])
    PROVE  Layer(t) \in Layers /\ tx[t].at \in 1 .. Len(Order[t])
BY OrderFacts DEF TypeInv, TypeOK, Layer

LEMMA PointedAt ==
    ASSUME TypeInv, NEW t \in Txs, ~In(t, "staging")
    PROVE  tx[t].at <= Len(Order[t])
BY OrderFacts DEF TypeInv, Pointed

LEMMA TxPreservesType ==
    ASSUME TypeInv, NEW t \in Txs, TxStep(t)
    PROVE  TypeInv'
<1>. USE DEF Phases
<1>0. SUFFICES /\ TxType'
               /\ draft' \in [Layers -> Drafts] /\ committed' \in [Layers -> SUBSET Actors]
               /\ claimed' \in [Layers -> BOOLEAN]
               /\ UNCHANGED writer
  BY DEF TypeInv, TypeOK, TxType
<1>a. draft \in [Layers -> Drafts] /\ committed \in [Layers -> SUBSET Actors]
      /\ claimed \in [Layers -> BOOLEAN]
  BY DEF TypeInv, TypeOK
<1>1. CASE Claim(t)
  <2>1. TxType'
    BY <1>1, PointedAt, AdvanceType DEF Claim, In
  <2>. QED BY <1>1, <1>a, <2>1 DEF Claim, data
<1>2. CASE ClaimRefused(t)
  <2>1. TxType'
    BY <1>2, PointedAt, LayerType, GotoType, OrderFacts DEF ClaimRefused, In
  <2>. QED BY <1>2, <1>a, <2>1 DEF ClaimRefused, data
<1>3. CASE Unwind(t)
  <2>1. tx[t].at \in 1 .. Len(Order[t]) /\ tx[t].at > 1
    BY <1>3, PointedAt, LayerType DEF Unwind, In, TypeInv, Pointed
  <2>2. TxType'
    BY <1>3, <2>1, GotoType, OrderFacts DEF Unwind
  <2>. QED BY <1>3, <1>a, <2>2 DEF Unwind, data
<1>4. CASE Stage(t)
  <2>1. Layer(t) \in Layers /\ tx[t].at \in 1 .. Len(Order[t])
    BY <1>4, LayerType DEF Stage
  <2>2. TxType'
    BY <1>4, <2>1, GotoType, OrderFacts DEF Stage
  <2>. QED BY <1>4, <1>a, <2>1, <2>2, EditType DEF Stage, Actors, TypeInv
<1>5. CASE Commit(t)
  <2>1. TxType'
    BY <1>5, GotoType, OrderFacts DEF Commit
  <2>. QED BY <1>5, <1>a, <2>1 DEF Commit, data
<1>6. CASE Rollback(t)
  <2>1. TxType'
    BY <1>6, GotoType, OrderFacts DEF Rollback
  <2>. QED BY <1>6, <1>a, <2>1 DEF Rollback, data
<1>7. CASE ApplyLayer(t)
  <2>1. Layer(t) \in Layers /\ tx[t].at <= Len(Order[t])
    BY <1>7, PointedAt, LayerType DEF ApplyLayer, In
  <2>2. TxType'
    BY <1>7, <2>1, AdvanceType DEF ApplyLayer, In
  <2>. QED BY <1>7, <1>a, <2>1, <2>2, ApplyType DEF ApplyLayer, TypeInv
<1>8. CASE ReleaseCommitted(t)
  <2>1. TxType'
    BY <1>8, PointedAt, AdvanceType DEF ReleaseCommitted, In
  <2>. QED BY <1>8, <1>a, <2>1 DEF ReleaseCommitted, data
<1>9. CASE DiscardLayer(t)
  <2>1. Layer(t) \in Layers /\ tx[t].at \in 1 .. Len(Order[t])
    BY <1>9, PointedAt, LayerType DEF DiscardLayer, In
  <2>2. TxType'
    BY <1>9, <2>1, GotoType, OrderFacts DEF DiscardLayer
  <2>. QED BY <1>9, <1>a, <2>1, <2>2, DiscardType DEF DiscardLayer, TypeInv
<1>10. CASE ReleaseDropped(t)
  <2>1. tx[t].at \in 1 .. Len(Order[t])
    BY <1>10, PointedAt, LayerType DEF ReleaseDropped, In
  <2>2. ASSUME Last(t) PROVE TxType'
    BY <1>10, <2>2, GotoType, OrderFacts DEF ReleaseDropped
  <2>3. ASSUME ~Last(t) PROVE TxType'
    <3>1. tx[t].at + 1 \in 1 .. Len(Order[t])
      BY <2>1, <2>3, OrderFacts DEF Last
    <3>. QED BY <1>10, <2>3, <3>1, GotoType DEF ReleaseDropped
  <2>. QED BY <1>10, <1>a, <2>2, <2>3 DEF ReleaseDropped, data
<1>. QED BY <1>1, <1>2, <1>3, <1>4, <1>5, <1>6, <1>7, <1>8, <1>9, <1>10 DEF TxStep

LEMMA WriterPreservesType ==
    ASSUME TypeInv, NEW w \in Writers, WriterEdit(w) \/ WriterApply(w)
    PROVE  TypeInv'
<1>1. WriterLayer[w] \in Layers /\ w \in Actors
  BY DraftLayersAssumption DEF Actors
<1>2. draft' \in [Layers -> Drafts] /\ committed' \in [Layers -> SUBSET Actors]
  BY <1>1, EditType, ApplyType DEF WriterEdit, WriterApply, TypeInv
<1>3. writer' \in [Writers -> {"idle", "edited", "done"}]
  BY DEF WriterEdit, WriterApply, TypeInv, TypeOK
<1>4. UNCHANGED <<claimed, tx>>
  BY DEF WriterEdit, WriterApply
<1>. QED BY <1>2, <1>3, <1>4 DEF TypeInv, TypeOK, Pointed, In

LEMMA InitType == Init => TypeInv
<1>. SUFFICES ASSUME Init PROVE TypeInv
  OBVIOUS
<1>1. tx \in [Txs -> [phase : Phases, at : Nat]] /\ \A t \in Txs : tx[t].at = 1
  BY DEF Init, Phases
<1>2. \A t \in Txs : tx[t].at \in 1 .. Len(Order[t]) + 1 /\ Pointed(t)
  BY <1>1, OrderFacts DEF Init, Pointed, In
<1>3. draft \in [Layers -> Drafts]
  BY DEF Init, Drafts, NoDraft
<1>. QED BY <1>1, <1>2, <1>3 DEF Init, TypeInv, TypeOK

LEMMA NextPreservesType ==
    ASSUME TypeInv, [Next]_vars
    PROVE  TypeInv'
<1>1. CASE UNCHANGED vars
  BY <1>1 DEF vars, TypeInv, TypeOK, Pointed, In
<1>. QED BY <1>1, TxPreservesType, WriterPreservesType DEF Next

\* Every variable keeps its type.
THEOREM TypeCorrect == Spec => []TypeOK
<1>1. TypeInv => TypeOK
  BY DEF TypeInv
<1>2. TypeInv /\ [Next]_vars => TypeInv'
  BY NextPreservesType
<1>. QED BY InitType, <1>1, <1>2, PTL DEF Spec

-----------------------------------------------------------------------------
(* Claims.  Position by position, a step takes one claim, gives one back, or
   leaves the claims and the positions held as they are. *)

Positions(t) == 1 .. Len(Order[t])

Has(t, j) ==
    \/ tx[t].phase \in {"claiming", "unwinding"} /\ j < tx[t].at
    \/ tx[t].phase \in {"staging", "applying"}
    \/ tx[t].phase \in {"releasing", "discarding", "dropping"} /\ j >= tx[t].at

ClaimInv ==
    /\ \A t \in Txs : \A i \in Positions(t) : Has(t, i) => claimed[Order[t][i]]
    /\ \A l \in Layers : claimed[l] => \E t \in Txs : \E i \in Positions(t) : Has(t, i) /\ Order[t][i] = l
    /\ \A t, u \in Txs : t # u =>
          \A i \in Positions(t) : \A j \in Positions(u) :
              Has(t, i) /\ Has(u, j) => Order[t][i] # Order[u][j]

Takes(t, k) ==
    /\ ~claimed[Order[t][k]]
    /\ claimed' = [claimed EXCEPT ![Order[t][k]] = TRUE]
    /\ \A u \in Txs : \A j \in Positions(u) : Has(u, j)' <=> Has(u, j) \/ (u = t /\ j = k)

GivesBack(t, k) ==
    /\ Has(t, k)
    /\ claimed' = [claimed EXCEPT ![Order[t][k]] = FALSE]
    /\ \A u \in Txs : \A j \in Positions(u) : Has(u, j)' <=> Has(u, j) /\ ~(u = t /\ j = k)

Keeps ==
    /\ UNCHANGED claimed
    /\ \A u \in Txs : \A j \in Positions(u) : Has(u, j)' <=> Has(u, j)

LEMMA TakesKeepsInv ==
    ASSUME TypeInv, ClaimInv, NEW t \in Txs, NEW k \in Positions(t), Takes(t, k)
    PROVE  ClaimInv'
<1>1. claimed \in [Layers -> BOOLEAN] /\ Order[t][k] \in Layers
  BY OrderFacts DEF TypeInv, TypeOK, Positions
<1>2. \A i \in Positions(t) : i # k => Order[t][i] # Order[t][k]
  BY OrderFacts DEF Positions
<1>3. \A u \in Txs : \A i \in Positions(u) : Order[u][i] \in Layers
  BY OrderFacts DEF Positions
<1>. QED BY <1>1, <1>2, <1>3 DEF ClaimInv, Takes, Positions

LEMMA GivesBackKeepsInv ==
    ASSUME TypeInv, ClaimInv, NEW t \in Txs, NEW k \in Positions(t), GivesBack(t, k)
    PROVE  ClaimInv'
<1>1. claimed \in [Layers -> BOOLEAN] /\ Order[t][k] \in Layers
  BY OrderFacts DEF TypeInv, TypeOK, Positions
<1>2. \A i \in Positions(t) : i # k => Order[t][i] # Order[t][k]
  BY OrderFacts DEF Positions
<1>3. \A u \in Txs : \A i \in Positions(u) : Order[u][i] \in Layers
  BY OrderFacts DEF Positions
<1>4. (\A u \in Txs : \A i \in Positions(u) : Has(u, i) => claimed[Order[u][i]])'
  BY <1>1, <1>2, <1>3 DEF ClaimInv, GivesBack, Positions
<1>5. ASSUME NEW l \in Layers, claimed'[l]
      PROVE  \E u \in Txs : \E i \in Positions(u) : Has(u, i)' /\ Order[u][i] = l
  BY <1>1, <1>5 DEF ClaimInv, GivesBack
<1>6. ASSUME NEW u \in Txs, NEW v \in Txs, u # v, NEW i \in Positions(u), NEW j \in Positions(v),
             Has(u, i)', Has(v, j)'
      PROVE  Order[u][i] # Order[v][j]
  BY <1>6 DEF ClaimInv, GivesBack
<1>. QED BY <1>4, <1>5, <1>6 DEF ClaimInv, Positions

LEMMA KeepsKeepsInv ==
    ASSUME ClaimInv, Keeps
    PROVE  ClaimInv'
BY DEF ClaimInv, Keeps, Positions

\* Which of the three each step is.
LEMMA ClaimCases ==
    ASSUME TypeInv, NEW t \in Txs, TxStep(t)
    PROVE  Keeps \/ \E k \in Positions(t) : Takes(t, k) \/ GivesBack(t, k)
<1>. USE DEF Has, In, Positions
<1>0. tx[t].at \in Nat /\ Len(Order[t]) \in Nat
  BY OrderFacts DEF TypeInv, TypeOK
<1>a. ASSUME NEW p, NEW i, Goto(t, p, i)
      PROVE  /\ tx'[t].phase = p /\ tx'[t].at = i
             /\ \A u \in Txs : u # t => tx'[u] = tx[u]
  BY <1>a, GotoFacts
<1>1. CASE Claim(t)
  <2>1. tx[t].at \in Positions(t)
    BY <1>1, PointedAt, LayerType DEF Claim
  <2>2. Takes(t, tx[t].at)
    <3>1. ASSUME Last(t) PROVE \A u \in Txs : \A j \in Positions(u) :
                    Has(u, j)' <=> Has(u, j) \/ (u = t /\ j = tx[t].at)
      BY <1>0, <1>1, <1>a, <3>1 DEF Claim, Advance, Last
    <3>2. ASSUME ~Last(t) PROVE \A u \in Txs : \A j \in Positions(u) :
                    Has(u, j)' <=> Has(u, j) \/ (u = t /\ j = tx[t].at)
      BY <1>0, <1>1, <1>a, <3>2 DEF Claim, Advance, Last
    <3>. QED BY <1>1, <3>1, <3>2 DEF Takes, Claim, Layer
  <2>. QED BY <2>1, <2>2 DEF Takes
<1>2. CASE ClaimRefused(t)
  <2>1. tx[t].at \in Positions(t)
    BY <1>2, PointedAt, LayerType DEF ClaimRefused
  <2>. QED BY <1>0, <1>2, <1>a, <2>1 DEF Keeps, ClaimRefused
<1>3. CASE Unwind(t)
  <2>1. tx[t].at \in Positions(t) /\ tx[t].at > 1
    BY <1>3, PointedAt, LayerType DEF Unwind, TypeInv, Pointed
  <2>2. tx[t].at - 1 \in Positions(t)
    BY <2>1
  <2>3. GivesBack(t, tx[t].at - 1)
    BY <1>0, <1>3, <1>a, <2>1 DEF Unwind, GivesBack
  <2>. QED BY <2>2, <2>3 DEF GivesBack
<1>4. CASE Stage(t)
  BY <1>0, <1>4, <1>a DEF Stage, Keeps
<1>5. CASE Commit(t)
  BY <1>0, <1>5, <1>a DEF Commit, Keeps
<1>6. CASE Rollback(t)
  BY <1>0, <1>6, <1>a DEF Rollback, Keeps
<1>7. CASE ApplyLayer(t)
  BY <1>0, <1>7, <1>a DEF ApplyLayer, Keeps, Advance
<1>8. CASE ReleaseCommitted(t)
  <2>1. tx[t].at \in Positions(t)
    BY <1>8, PointedAt, LayerType DEF ReleaseCommitted
  <2>2. GivesBack(t, tx[t].at)
    BY <1>0, <1>8, <1>a, <2>1 DEF ReleaseCommitted, GivesBack, Advance, Last, Layer
  <2>. QED BY <2>1, <2>2 DEF GivesBack
<1>9. CASE DiscardLayer(t)
  BY <1>0, <1>9, <1>a DEF DiscardLayer, Keeps
<1>10. CASE ReleaseDropped(t)
  <2>1. tx[t].at \in Positions(t)
    BY <1>10, PointedAt, LayerType DEF ReleaseDropped
  <2>2. GivesBack(t, tx[t].at)
    BY <1>0, <1>10, <1>a, <2>1 DEF ReleaseDropped, GivesBack, Last, Layer
  <2>. QED BY <2>1, <2>2 DEF GivesBack
<1>. QED BY <1>1, <1>2, <1>3, <1>4, <1>5, <1>6, <1>7, <1>8, <1>9, <1>10 DEF TxStep

LEMMA NextKeepsClaims ==
    ASSUME TypeInv, ClaimInv, [Next]_vars
    PROVE  ClaimInv'
<1>1. CASE UNCHANGED <<claimed, tx>>
  BY <1>1 DEF ClaimInv, Has, Positions
<1>2. CASE \E t \in Txs : TxStep(t)
  BY <1>2, ClaimCases, TakesKeepsInv, GivesBackKeepsInv, KeepsKeepsInv
<1>. QED BY <1>1, <1>2 DEF Next, WriterEdit, WriterApply, vars

LEMMA InitClaims == Init => ClaimInv
BY OrderFacts DEF Init, ClaimInv, Has, Positions

LEMMA ClaimsFromInv ==
    ASSUME TypeInv, ClaimInv
    PROVE  ClaimsExact
<1>1. \A t \in Txs : Holds(t) = {Order[t][i] : i \in {j \in Positions(t) : Has(t, j)}}
  <2>1. \A t \in Txs : DOMAIN Order[t] = Positions(t)
    BY DraftLayersAssumption DEF Positions
  <2>. QED BY <2>1 DEF Holds, Has
<1>2. ASSUME NEW l \in Layers PROVE claimed[l] <=> \E t \in Txs : l \in Holds(t)
  BY <1>1 DEF ClaimInv, TypeInv, TypeOK
<1>3. ASSUME NEW t \in Txs, NEW u \in Txs, t # u PROVE Holds(t) \cap Holds(u) = {}
  BY <1>1, <1>3 DEF ClaimInv
<1>. QED BY <1>2, <1>3 DEF ClaimsExact

\* A layer is claimed exactly while one transaction owns it.
THEOREM ClaimsAreExact == Spec => []ClaimsExact
<1>1. TypeInv /\ ClaimInv /\ [Next]_vars => (TypeInv /\ ClaimInv)'
  BY NextPreservesType, NextKeepsClaims
<1>2. TypeInv /\ ClaimInv => ClaimsExact
  BY ClaimsFromInv
<1>. QED BY InitType, InitClaims, <1>1, <1>2, PTL DEF Spec

-----------------------------------------------------------------------------
(* Drafts, when unclaimed writers keep to layers that no transaction names.  On a
   layer that some transaction names, a staged draft belongs to the one transaction
   that holds it, and is what the layer has committed with that transaction's edit
   added. *)

\* Positions where t may have a draft, must have one, and has published it.
MayStage(t, j) ==
    \/ tx[t].phase = "staging" /\ j < tx[t].at
    \/ tx[t].phase \in {"applying", "discarding"} /\ j >= tx[t].at
    \/ tx[t].phase = "dropping" /\ j > tx[t].at

MustStage(t, j) ==
    \/ tx[t].phase = "staging" /\ j < tx[t].at
    \/ tx[t].phase = "applying" /\ j >= tx[t].at

Published(t, j) ==
    \/ tx[t].phase = "applying" /\ j < tx[t].at
    \/ tx[t].phase \in {"releasing", "committed"}

Decided(t) == tx[t].phase \in {"applying", "releasing", "committed"}

\* The layers some transaction names.
Named(l) == \E t \in Txs : \E j \in Positions(t) : Order[t][j] = l

\* No transaction reaches a layer it does not name.
OthersFree == \A l \in Layers : ~Named(l) => (draft[l].edits \cup committed[l]) \cap Txs = {}

DraftInv ==
    /\ \A l \in Layers : Named(l) /\ draft[l].staged =>
          \E t \in Txs : \E j \in Positions(t) : MayStage(t, j) /\ Order[t][j] = l
    /\ \A t \in Txs : \A j \in Positions(t) :
          MayStage(t, j) /\ draft[Order[t][j]].staged =>
              draft[Order[t][j]].edits = committed[Order[t][j]] \cup {t}
    /\ \A t \in Txs : \A j \in Positions(t) : MustStage(t, j) => draft[Order[t][j]].staged
    /\ \A t \in Txs : \A j \in Positions(t) : Published(t, j) => t \in committed[Order[t][j]]
    /\ \A t \in Txs : ~Decided(t) => \A l \in Layers : t \notin committed[l]
    /\ OthersFree

DraftsInv == TypeInv /\ ClaimInv /\ DraftInv

LEMMA MayStageHas ==
    ASSUME NEW t \in Txs, NEW j \in Positions(t), TypeInv, MayStage(t, j)
    PROVE  Has(t, j)
BY OrderFacts DEF MayStage, Has, TypeInv, TypeOK, Positions

\* A draft found on a held layer is the holder's own.
LEMMA HolderStaged ==
    ASSUME DraftsInv, NEW t \in Txs, NEW k \in Positions(t), Has(t, k),
           NEW u \in Txs, NEW j \in Positions(u), MayStage(u, j), Order[u][j] = Order[t][k]
    PROVE  u = t /\ j = k
<1>1. Has(u, j)
  BY MayStageHas DEF DraftsInv
<1>2. u = t
  BY <1>1 DEF DraftsInv, ClaimInv
<1>. QED BY <1>2, OrderFacts DEF Positions

LEMMA StagedByHolder ==
    ASSUME DraftsInv, NEW t \in Txs, NEW k \in Positions(t), Has(t, k), draft[Order[t][k]].staged
    PROVE  MayStage(t, k)
<1>1. Order[t][k] \in Layers
  BY OrderFacts DEF Positions
<1>2. PICK u \in Txs : \E j \in Positions(u) : MayStage(u, j) /\ Order[u][j] = Order[t][k]
  BY <1>1 DEF DraftsInv, DraftInv, Named
<1>. QED BY <1>2, HolderStaged

\* A step that leaves the data alone keeps the invariant when it adds a position
\* only where nothing is staged.
LEMMA QuietKeepsDrafts ==
    ASSUME DraftInv, UNCHANGED data,
           \A u \in Txs : \A j \in Positions(u) :
               /\ MayStage(u, j) => MayStage(u, j)'
               /\ MayStage(u, j)' => MayStage(u, j) \/ ~draft[Order[u][j]].staged
               /\ MustStage(u, j)' => MustStage(u, j)
               /\ Published(u, j)' => Published(u, j),
           \A u \in Txs : Decided(u) => Decided(u)'
    PROVE  DraftInv'
<1>1. draft' = draft /\ committed' = committed
  BY DEF data
<1>2. (\A l \in Layers : Named(l) /\ draft[l].staged =>
          \E t \in Txs : \E j \in Positions(t) : MayStage(t, j) /\ Order[t][j] = l)'
  BY <1>1 DEF DraftInv, Positions
<1>3. (\A t \in Txs : \A j \in Positions(t) :
          MayStage(t, j) /\ draft[Order[t][j]].staged =>
              draft[Order[t][j]].edits = committed[Order[t][j]] \cup {t})'
  BY <1>1 DEF DraftInv, Positions
<1>4. (\A t \in Txs : \A j \in Positions(t) : MustStage(t, j) => draft[Order[t][j]].staged)'
  BY <1>1 DEF DraftInv, Positions
<1>5. (\A t \in Txs : \A j \in Positions(t) : Published(t, j) => t \in committed[Order[t][j]])'
  BY <1>1 DEF DraftInv, Positions
<1>6. (\A t \in Txs : ~Decided(t) => \A l \in Layers : t \notin committed[l])'
  BY <1>1 DEF DraftInv
<1>7. OthersFree'
  BY <1>1 DEF DraftInv, OthersFree
<1>. QED BY <1>2, <1>3, <1>4, <1>5, <1>6, <1>7 DEF DraftInv

\* The same, for a step of t.
LEMMA QuietStepKeepsDrafts ==
    ASSUME DraftInv, UNCHANGED data, NEW t \in Txs,
           \A u \in Txs : u # t => tx'[u] = tx[u],
           \A j \in Positions(t) :
               /\ MayStage(t, j) => MayStage(t, j)'
               /\ MayStage(t, j)' => MayStage(t, j) \/ ~draft[Order[t][j]].staged
               /\ MustStage(t, j)' => MustStage(t, j)
               /\ Published(t, j)' => Published(t, j),
           Decided(t) => Decided(t)'
    PROVE  DraftInv'
<1>1. ASSUME NEW u \in Txs, u # t, NEW j \in Positions(u)
      PROVE  /\ MayStage(u, j) <=> MayStage(u, j)'
             /\ MustStage(u, j)' <=> MustStage(u, j)
             /\ Published(u, j)' <=> Published(u, j)
  BY <1>1 DEF MayStage, MustStage, Published
<1>2. ASSUME NEW u \in Txs, u # t PROVE Decided(u) <=> Decided(u)'
  BY <1>2 DEF Decided
<1>. QED BY <1>1, <1>2, QuietKeepsDrafts

LEMMA QuietActionsKeepDrafts ==
    ASSUME DraftsInv, NEW t \in Txs,
           \/ Claim(t) \/ ClaimRefused(t) \/ Unwind(t) \/ Commit(t) \/ Rollback(t)
           \/ ReleaseCommitted(t) \/ ReleaseDropped(t)
    PROVE  DraftInv'
<1>. USE DEF In, MayStage, MustStage, Published, Decided
<1>0. TypeInv /\ DraftInv /\ tx[t].at \in Nat /\ Len(Order[t]) \in Nat /\ Positions(t) = 1 .. Len(Order[t])
  BY OrderFacts DEF DraftsInv, TypeInv, TypeOK, Positions
<1>a. ASSUME NEW p, NEW i, Goto(t, p, i)
      PROVE  /\ tx'[t].phase = p /\ tx'[t].at = i
             /\ \A u \in Txs : u # t => tx'[u] = tx[u]
  BY <1>0, <1>a, GotoFacts
<1>1. CASE Claim(t)
  <2>1. \/ Goto(t, "staging", 1)
        \/ Goto(t, "claiming", tx[t].at + 1)
    BY <1>1 DEF Claim, Advance
  <2>. QED BY <1>0, <1>1, <1>a, <2>1, QuietStepKeepsDrafts DEF Claim
<1>2. CASE ClaimRefused(t)
  <2>1. Goto(t, "busy", tx[t].at) \/ Goto(t, "unwinding", tx[t].at)
    BY <1>2 DEF ClaimRefused
  <2>. QED BY <1>0, <1>2, <1>a, <2>1, QuietStepKeepsDrafts DEF ClaimRefused
<1>3. CASE Unwind(t)
  <2>1. Goto(t, "busy", tx[t].at - 1) \/ Goto(t, "unwinding", tx[t].at - 1)
    BY <1>3 DEF Unwind
  <2>. QED BY <1>0, <1>3, <1>a, <2>1, QuietStepKeepsDrafts DEF Unwind
<1>4. CASE Commit(t)
  BY <1>0, <1>4, <1>a, QuietStepKeepsDrafts DEF Commit
<1>5. CASE Rollback(t)
  <2>1. \A j \in Positions(t) : Has(t, j)
    BY <1>5 DEF Rollback, Has
  <2>2. \A j \in Positions(t) : MayStage(t, j) \/ ~draft[Order[t][j]].staged
    BY <2>1, StagedByHolder
  <2>. QED BY <1>0, <1>5, <1>a, <2>2, QuietStepKeepsDrafts DEF Rollback
<1>6. CASE ReleaseCommitted(t)
  <2>1. Goto(t, "committed", 1) \/ Goto(t, "releasing", tx[t].at + 1)
    BY <1>6 DEF ReleaseCommitted, Advance
  <2>. QED BY <1>0, <1>6, <1>a, <2>1, QuietStepKeepsDrafts DEF ReleaseCommitted
<1>7. CASE ReleaseDropped(t)
  <2>1. \/ Goto(t, "rolledBack", 1) /\ tx[t].at = Len(Order[t])
        \/ Goto(t, "discarding", tx[t].at + 1)
    BY <1>7 DEF ReleaseDropped, Last
  <2>. QED BY <1>0, <1>7, <1>a, <2>1, QuietStepKeepsDrafts DEF ReleaseDropped
<1>. QED BY <1>1, <1>2, <1>3, <1>4, <1>5, <1>6, <1>7

\* The layer a step of t touches, when t has claimed it.
LEMMA Touched ==
    ASSUME DraftsInv, NEW t \in Txs, tx[t].at <= Len(Order[t]), Has(t, tx[t].at)
    PROVE  /\ tx[t].at \in Positions(t) /\ Layer(t) = Order[t][tx[t].at] /\ Layer(t) \in Layers
           /\ \A u \in Txs : \A j \in Positions(u) :
                 MayStage(u, j) /\ Order[u][j] = Layer(t) => u = t /\ j = tx[t].at
           /\ draft[Layer(t)].staged => MayStage(t, tx[t].at)
<1>1. tx[t].at \in Positions(t) /\ Layer(t) = Order[t][tx[t].at] /\ Layer(t) \in Layers
  BY LayerType DEF DraftsInv, Layer, Positions
<1>2. PICK k \in Positions(t) : k = tx[t].at
  BY <1>1
<1>3. Has(t, k) /\ Layer(t) = Order[t][k]
  BY <1>1, <1>2
<1>4. \A u \in Txs : \A j \in Positions(u) :
          MayStage(u, j) /\ Order[u][j] = Layer(t) => u = t /\ j = k
  BY <1>3, HolderStaged
<1>5. draft[Layer(t)].staged => MayStage(t, k)
  BY <1>3, StagedByHolder
<1>. QED BY <1>1, <1>2, <1>4, <1>5

LEMMA StageKeepsDrafts ==
    ASSUME DraftsInv, NEW t \in Txs, Stage(t)
    PROVE  DraftInv'
<1>1. /\ TypeInv /\ DraftInv /\ tx[t].at \in Nat /\ tx[t].at <= Len(Order[t])
      /\ tx[t].phase = "staging"
  BY DEF DraftsInv, TypeInv, TypeOK, Stage, In
<1>2. Has(t, tx[t].at) /\ ~MayStage(t, tx[t].at)
  BY <1>1 DEF Has, MayStage
<1>3. PICK k \in Positions(t) : k = tx[t].at
  BY <1>1, <1>2, Touched
<1>4. PICK l \in Layers : l = Layer(t)
  BY <1>1, <1>2, Touched
<1>5. /\ l = Order[t][k] /\ ~draft[l].staged
      /\ \A u \in Txs : \A j \in Positions(u) : MayStage(u, j) => Order[u][j] # l
  BY <1>1, <1>2, <1>3, <1>4, Touched
<1>6. /\ draft' = [draft EXCEPT ![l] = [staged |-> TRUE, edits |-> committed[l] \cup {t}]]
      /\ committed' = committed
  BY <1>4, <1>5 DEF Stage, EditDraft, Latest
<1>7. \A x \in Layers : draft'[x] = IF x = l THEN [staged |-> TRUE, edits |-> committed[l] \cup {t}]
                                             ELSE draft[x]
  BY <1>1, <1>6 DEF TypeInv, TypeOK
<1>8. tx'[t].phase = "staging" /\ tx'[t].at = k + 1 /\ \A u \in Txs : u # t => tx'[u] = tx[u]
  BY <1>1, <1>3, GotoFacts DEF Stage
<1>9. ASSUME NEW u \in Txs, NEW j \in Positions(u)
      PROVE  /\ Order[u][j] \in Layers
             /\ MayStage(u, j)' <=> MayStage(u, j) \/ (u = t /\ j = k)
             /\ MustStage(u, j)' <=> MustStage(u, j) \/ (u = t /\ j = k)
             /\ Published(u, j)' <=> Published(u, j)
             /\ Decided(u)' <=> Decided(u)
             /\ MustStage(u, j) => MayStage(u, j)
  <2>1. Order[u][j] \in Layers
    BY OrderFacts DEF Positions
  <2>2. CASE u = t
    BY <1>1, <1>3, <1>8, <2>1, <2>2 DEF MayStage, MustStage, Published, Decided, Positions
  <2>3. CASE u # t
    BY <1>8, <2>1, <2>3 DEF MayStage, MustStage, Published, Decided
  <2>. QED BY <2>2, <2>3
<1>10. (\A x \in Layers : Named(x) /\ draft[x].staged =>
          \E u \in Txs : \E j \in Positions(u) : MayStage(u, j) /\ Order[u][j] = x)'
  BY <1>1, <1>5, <1>7, <1>9 DEF DraftInv, Positions
<1>11. (\A u \in Txs : \A j \in Positions(u) :
          MayStage(u, j) /\ draft[Order[u][j]].staged =>
              draft[Order[u][j]].edits = committed[Order[u][j]] \cup {u})'
  BY <1>1, <1>5, <1>6, <1>7, <1>9 DEF DraftInv, Positions
<1>12. (\A u \in Txs : \A j \in Positions(u) : MustStage(u, j) => draft[Order[u][j]].staged)'
  BY <1>1, <1>5, <1>7, <1>9 DEF DraftInv, Positions
<1>13. (\A u \in Txs : \A j \in Positions(u) : Published(u, j) => u \in committed[Order[u][j]])'
  BY <1>1, <1>6, <1>9 DEF DraftInv, Positions
<1>14. (\A u \in Txs : ~Decided(u) => \A x \in Layers : u \notin committed[x])'
  <2>1. \A u \in Txs : Decided(u)' <=> Decided(u)
    BY <1>1, <1>8 DEF Decided
  <2>. QED BY <1>1, <1>6, <2>1 DEF DraftInv
<1>15. OthersFree'
  <2>1. Named(l)
    BY <1>3, <1>5 DEF Named
  <2>. QED BY <1>1, <1>6, <1>7, <2>1 DEF DraftInv, OthersFree
<1>. QED BY <1>10, <1>11, <1>12, <1>13, <1>14, <1>15 DEF DraftInv

LEMMA ApplyKeepsDrafts ==
    ASSUME DraftsInv, NEW t \in Txs, ApplyLayer(t)
    PROVE  DraftInv' /\ committed' = [committed EXCEPT ![Layer(t)] = @ \cup {t}]
<1>1. /\ TypeInv /\ DraftInv /\ tx[t].at \in Nat /\ tx[t].at <= Len(Order[t])
      /\ tx[t].phase = "applying"
  BY PointedAt DEF DraftsInv, TypeInv, TypeOK, ApplyLayer, In
<1>2. Has(t, tx[t].at) /\ MayStage(t, tx[t].at) /\ MustStage(t, tx[t].at)
  BY <1>1 DEF Has, MayStage, MustStage
<1>3. PICK k \in Positions(t) : k = tx[t].at
  BY <1>1, <1>2, Touched
<1>4. PICK l \in Layers : l = Layer(t)
  BY <1>1, <1>2, Touched
<1>5. /\ l = Order[t][k] /\ MayStage(t, k) /\ MustStage(t, k)
      /\ \A u \in Txs : \A j \in Positions(u) : MayStage(u, j) /\ Order[u][j] = l => u = t /\ j = k
  BY <1>1, <1>2, <1>3, <1>4, Touched
<1>6. draft[l].staged /\ draft[l].edits = committed[l] \cup {t}
  BY <1>1, <1>5 DEF DraftInv
<1>7. /\ committed' = [committed EXCEPT ![l] = @ \cup {t}]
      /\ draft' = [draft EXCEPT ![l] = NoDraft]
  BY <1>1, <1>4, <1>6 DEF ApplyLayer, Apply, Latest
<1>8. /\ \A x \in Layers : x # l => draft'[x] = draft[x] /\ committed'[x] = committed[x]
      /\ ~draft'[l].staged /\ committed'[l] = committed[l] \cup {t}
  BY <1>1, <1>7 DEF TypeInv, TypeOK, NoDraft
<1>9. /\ \/ tx'[t].phase = "releasing" /\ k = Len(Order[t])
         \/ tx'[t].phase = "applying" /\ tx'[t].at = k + 1
      /\ \A u \in Txs : u # t => tx'[u] = tx[u]
  <2>1. CASE Last(t)
    BY <1>1, <1>3, <2>1, GotoFacts DEF ApplyLayer, Advance, Last
  <2>2. CASE ~Last(t)
    <3>1. Goto(t, "applying", tx[t].at + 1)
      BY <1>1, <2>2 DEF ApplyLayer, Advance
    <3>2. /\ tx'[t].phase = "applying" /\ tx'[t].at = tx[t].at + 1
          /\ \A u \in Txs : u # t => tx'[u] = tx[u]
      BY <1>1, <3>1 DEF Goto, TypeInv, TypeOK
    <3>. QED BY <1>3, <3>2
  <2>. QED BY <2>1, <2>2
<1>10. ASSUME NEW u \in Txs, NEW j \in Positions(u)
      PROVE  /\ Order[u][j] \in Layers
             /\ MayStage(u, j)' <=> MayStage(u, j) /\ ~(u = t /\ j = k)
             /\ MustStage(u, j)' <=> MustStage(u, j) /\ ~(u = t /\ j = k)
             /\ Published(u, j)' <=> Published(u, j) \/ (u = t /\ j = k)
             /\ MustStage(u, j) => MayStage(u, j)
  <2>1. Order[u][j] \in Layers
    BY OrderFacts DEF Positions
  <2>2. CASE u = t
    BY <1>1, <1>3, <1>9, <2>1, <2>2, OrderFacts DEF MayStage, MustStage, Published, Positions
  <2>3. CASE u # t
    BY <1>9, <2>1, <2>3 DEF MayStage, MustStage, Published
  <2>. QED BY <2>2, <2>3
<1>11. (\A x \in Layers : Named(x) /\ draft[x].staged =>
          \E u \in Txs : \E j \in Positions(u) : MayStage(u, j) /\ Order[u][j] = x)'
  BY <1>1, <1>5, <1>8, <1>10 DEF DraftInv, Positions
<1>12. (\A u \in Txs : \A j \in Positions(u) :
          MayStage(u, j) /\ draft[Order[u][j]].staged =>
              draft[Order[u][j]].edits = committed[Order[u][j]] \cup {u})'
  <2>1. ASSUME NEW u \in Txs, NEW j \in Positions(u), MayStage(u, j)', draft'[Order[u][j]].staged
        PROVE  draft'[Order[u][j]].edits = committed'[Order[u][j]] \cup {u}
    <3>1. MayStage(u, j) /\ Order[u][j] \in Layers /\ Order[u][j] # l
      BY <1>5, <1>10, <2>1
    <3>2. /\ draft'[Order[u][j]] = draft[Order[u][j]]
          /\ committed'[Order[u][j]] = committed[Order[u][j]]
      BY <1>8, <3>1
    <3>. QED BY <1>1, <2>1, <3>1, <3>2 DEF DraftInv
  <2>. QED BY <2>1 DEF Positions
<1>13. (\A u \in Txs : \A j \in Positions(u) : MustStage(u, j) => draft[Order[u][j]].staged)'
  BY <1>1, <1>5, <1>8, <1>10 DEF DraftInv, Positions
<1>14. (\A u \in Txs : \A j \in Positions(u) : Published(u, j) => u \in committed[Order[u][j]])'
  BY <1>1, <1>5, <1>8, <1>10 DEF DraftInv, Positions
<1>15. (\A u \in Txs : ~Decided(u) => \A x \in Layers : u \notin committed[x])'
  <2>1. /\ Decided(t)'
        /\ \A u \in Txs : u # t => (Decided(u)' <=> Decided(u))
    BY <1>9 DEF Decided
  <2>. QED BY <1>1, <1>8, <2>1 DEF DraftInv
<1>16. OthersFree'
  <2>1. Named(l)
    BY <1>3, <1>5 DEF Named
  <2>. QED BY <1>1, <1>8, <2>1 DEF DraftInv, OthersFree
<1>. QED BY <1>4, <1>7, <1>11, <1>12, <1>13, <1>14, <1>15, <1>16 DEF DraftInv

LEMMA DiscardKeepsDrafts ==
    ASSUME DraftsInv, NEW t \in Txs, DiscardLayer(t)
    PROVE  DraftInv'
<1>1. /\ TypeInv /\ DraftInv /\ tx[t].at \in Nat /\ tx[t].at <= Len(Order[t])
      /\ tx[t].phase = "discarding"
  BY PointedAt DEF DraftsInv, TypeInv, TypeOK, DiscardLayer, In
<1>2. Has(t, tx[t].at)
  BY <1>1 DEF Has
<1>3. PICK k \in Positions(t) : k = tx[t].at
  BY <1>1, <1>2, Touched
<1>4. PICK l \in Layers : l = Layer(t)
  BY <1>1, <1>2, Touched
<1>5. /\ l = Order[t][k]
      /\ \A u \in Txs : \A j \in Positions(u) : MayStage(u, j) /\ Order[u][j] = l => u = t /\ j = k
  BY <1>1, <1>2, <1>3, <1>4, Touched
<1>6. /\ \A x \in Layers : x # l => draft'[x] = draft[x]
      /\ ~draft'[l].staged /\ committed' = committed
  BY <1>1, <1>4 DEF DiscardLayer, Discard, TypeInv, TypeOK, NoDraft
<1>7. /\ tx'[t].phase = "dropping" /\ tx'[t].at = k
      /\ \A u \in Txs : u # t => tx'[u] = tx[u]
  BY <1>1, <1>3, GotoFacts DEF DiscardLayer
<1>8. ASSUME NEW u \in Txs, NEW j \in Positions(u)
      PROVE  /\ Order[u][j] \in Layers
             /\ MayStage(u, j)' <=> MayStage(u, j) /\ ~(u = t /\ j = k)
             /\ MustStage(u, j)' <=> MustStage(u, j)
             /\ Published(u, j)' <=> Published(u, j)
             /\ MustStage(u, j) => MayStage(u, j) /\ ~(u = t /\ j = k)
  <2>1. Order[u][j] \in Layers
    BY OrderFacts DEF Positions
  <2>2. CASE u = t
    BY <1>1, <1>3, <1>7, <2>1, <2>2 DEF MayStage, MustStage, Published, Positions
  <2>3. CASE u # t
    BY <1>7, <2>1, <2>3 DEF MayStage, MustStage, Published
  <2>. QED BY <2>2, <2>3
<1>9. (\A x \in Layers : Named(x) /\ draft[x].staged =>
          \E u \in Txs : \E j \in Positions(u) : MayStage(u, j) /\ Order[u][j] = x)'
  BY <1>1, <1>5, <1>6, <1>8 DEF DraftInv, Positions
<1>10. (\A u \in Txs : \A j \in Positions(u) :
          MayStage(u, j) /\ draft[Order[u][j]].staged =>
              draft[Order[u][j]].edits = committed[Order[u][j]] \cup {u})'
  <2>1. ASSUME NEW u \in Txs, NEW j \in Positions(u), MayStage(u, j)'
        PROVE  MayStage(u, j) /\ Order[u][j] \in Layers /\ Order[u][j] # l
    BY <1>5, <1>8, <2>1
  <2>2. ASSUME NEW u \in Txs, NEW j \in Positions(u), MayStage(u, j)', draft'[Order[u][j]].staged
        PROVE  draft'[Order[u][j]].edits = committed'[Order[u][j]] \cup {u}
    <3>1. draft'[Order[u][j]] = draft[Order[u][j]] /\ MayStage(u, j)
      BY <1>6, <2>1, <2>2
    <3>. QED BY <1>1, <1>6, <2>2, <3>1 DEF DraftInv
  <2>. QED BY <2>2 DEF Positions
<1>11. (\A u \in Txs : \A j \in Positions(u) : MustStage(u, j) => draft[Order[u][j]].staged)'
  BY <1>1, <1>5, <1>6, <1>8 DEF DraftInv, Positions
<1>12. (\A u \in Txs : \A j \in Positions(u) : Published(u, j) => u \in committed[Order[u][j]])'
  BY <1>1, <1>6, <1>8 DEF DraftInv, Positions
<1>13. (\A u \in Txs : ~Decided(u) => \A x \in Layers : u \notin committed[x])'
  <2>1. \A u \in Txs : Decided(u)' <=> Decided(u)
    BY <1>1, <1>7 DEF Decided
  <2>. QED BY <1>1, <1>6, <2>1 DEF DraftInv
<1>14. OthersFree'
  <2>1. Named(l)
    BY <1>3, <1>5 DEF Named
  <2>. QED BY <1>1, <1>6, <2>1 DEF DraftInv, OthersFree
<1>. QED BY <1>9, <1>10, <1>11, <1>12, <1>13, <1>14 DEF DraftInv

\* A writer that keeps to a layer no transaction names disturbs no transaction.
LEMMA WriterKeepsDrafts ==
    ASSUME DraftsInv, WritersApart, NEW w \in Writers, WriterEdit(w) \/ WriterApply(w)
    PROVE  DraftInv' /\ txEdits' = txEdits
<1>1. PICK l \in Layers : l = WriterLayer[w]
  BY DraftLayersAssumption
<1>2. \A t \in Txs : \A j \in Positions(t) : Order[t][j] \in Layers /\ Order[t][j] # l
  BY <1>1, OrderFacts, DraftLayersAssumption DEF WritersApart, LayersOf, Positions
<1>3. ~Named(l)
  BY <1>2 DEF Named
<1>4. Latest(l) \cap Txs = {} /\ committed[l] \cap Txs = {} /\ w \notin Txs
  BY <1>3, DraftLayersAssumption DEF DraftsInv, DraftInv, OthersFree, Latest
<1>5. /\ \A x \in Layers : x # l => draft'[x] = draft[x] /\ committed'[x] = committed[x]
      /\ (draft'[l].edits \cup committed'[l]) \cap Txs = {}
      /\ tx' = tx
  <2>1. CASE WriterEdit(w)
    BY <1>1, <1>4, <2>1 DEF WriterEdit, EditDraft, DraftsInv, TypeInv, TypeOK
  <2>2. CASE WriterApply(w)
    BY <1>1, <1>4, <2>2 DEF WriterApply, Apply, NoDraft, DraftsInv, TypeInv, TypeOK
  <2>. QED BY <2>1, <2>2
<1>6. txEdits' = txEdits
  BY <1>4, <1>5 DEF txEdits
<1>7. ASSUME NEW u \in Txs, NEW j \in Positions(u)
      PROVE  /\ Order[u][j] \in Layers /\ Order[u][j] # l
             /\ draft'[Order[u][j]] = draft[Order[u][j]]
             /\ committed'[Order[u][j]] = committed[Order[u][j]]
             /\ MayStage(u, j)' <=> MayStage(u, j)
             /\ MustStage(u, j)' <=> MustStage(u, j)
             /\ Published(u, j)' <=> Published(u, j)
  <2>1. tx' = tx
    BY <1>5
  <2>2. Order[u][j] \in Layers /\ Order[u][j] # l
    BY <1>2
  <2>3. /\ MayStage(u, j)' <=> MayStage(u, j)
        /\ MustStage(u, j)' <=> MustStage(u, j)
        /\ Published(u, j)' <=> Published(u, j)
    BY <2>1 DEF MayStage, MustStage, Published
  <2>. QED BY <1>5, <2>2, <2>3
<1>8. DraftInv
  BY DEF DraftsInv
<1>9. (\A x \in Layers : Named(x) /\ draft[x].staged =>
          \E u \in Txs : \E j \in Positions(u) : MayStage(u, j) /\ Order[u][j] = x)'
  BY <1>3, <1>5, <1>7, <1>8 DEF DraftInv, Positions
<1>10. (\A u \in Txs : \A j \in Positions(u) :
          MayStage(u, j) /\ draft[Order[u][j]].staged =>
              draft[Order[u][j]].edits = committed[Order[u][j]] \cup {u})'
  BY <1>7, <1>8 DEF DraftInv, Positions
<1>11. (\A u \in Txs : \A j \in Positions(u) : MustStage(u, j) => draft[Order[u][j]].staged)'
  BY <1>7, <1>8 DEF DraftInv, Positions
<1>12. (\A u \in Txs : \A j \in Positions(u) : Published(u, j) => u \in committed[Order[u][j]])'
  BY <1>7, <1>8 DEF DraftInv, Positions
<1>13. (\A u \in Txs : ~Decided(u) => \A x \in Layers : u \notin committed[x])'
  <2>1. \A u \in Txs : Decided(u)' <=> Decided(u)
    BY <1>5 DEF Decided
  <2>. QED BY <1>5, <1>8, <2>1 DEF DraftInv
<1>14. OthersFree'
  BY <1>5, <1>8 DEF DraftInv, OthersFree
<1>. QED BY <1>6, <1>9, <1>10, <1>11, <1>12, <1>13, <1>14 DEF DraftInv

LEMMA NextKeepsDrafts ==
    ASSUME DraftsInv, WritersApart, [Next]_vars
    PROVE  DraftsInv'
<1>1. TypeInv' /\ ClaimInv'
  BY NextPreservesType, NextKeepsClaims DEF DraftsInv
<1>2. CASE UNCHANGED vars
  <2>1. DraftInv'
    BY <1>2, QuietKeepsDrafts DEF DraftsInv, vars, data, MayStage, MustStage, Published, Decided
  <2>. QED BY <1>1, <2>1 DEF DraftsInv
<1>3. ASSUME NEW t \in Txs, TxStep(t) PROVE DraftInv'
  BY <1>3, QuietActionsKeepDrafts, StageKeepsDrafts, ApplyKeepsDrafts, DiscardKeepsDrafts DEF TxStep
<1>4. ASSUME NEW w \in Writers, WriterEdit(w) \/ WriterApply(w) PROVE DraftInv'
  BY <1>4, WriterKeepsDrafts
<1>. QED BY <1>1, <1>2, <1>3, <1>4 DEF DraftsInv, Next

LEMMA InitDrafts == Init => DraftsInv
<1>. SUFFICES ASSUME Init PROVE DraftInv
  BY InitType, InitClaims DEF DraftsInv
<1>1. \A t \in Txs : tx[t].phase = "claiming" /\ tx[t].at = 1
  BY DEF Init
<1>2. \A l \in Layers : ~draft[l].staged /\ committed[l] = {}
  BY DEF Init, NoDraft
<1>3. OthersFree
  BY DEF Init, NoDraft, OthersFree
<1>. QED BY <1>1, <1>2, <1>3, OrderFacts DEF DraftInv, MayStage, MustStage, Published, Decided, Positions

LEMMA NamedLayers == \A t \in Txs : LayersOf[t] \subseteq Layers
BY OrderFacts, DraftLayersAssumption DEF LayersOf

\* When unclaimed writers keep to other layers, no transaction finds, under its claim,
\* a draft that another one left.
THEOREM DraftsAreOwn == ASSUME WritersApart PROVE Spec => []NoForeignDraft
<1>1. DraftsInv /\ [Next]_vars => DraftsInv'
  BY NextKeepsDrafts
<1>2. DraftsInv => NoForeignDraft
  <2>. SUFFICES ASSUME DraftsInv, NEW t \in Txs, NEW l \in Holds(t), draft[l].staged
                PROVE  draft[l].edits \subseteq committed[l] \cup {t}
    BY DEF NoForeignDraft
  <2>1. PICK k \in Positions(t) : Has(t, k) /\ l = Order[t][k]
    BY DraftLayersAssumption DEF Holds, Has, Positions
  <2>2. MayStage(t, k)
    BY <2>1, StagedByHolder
  <2>. QED BY <2>1, <2>2 DEF DraftsInv, DraftInv
<1>. QED BY InitDrafts, <1>1, <1>2, PTL DEF Spec

\* When unclaimed writers keep to other layers, a settled transaction is on all of its
\* layers or on none.
THEOREM SettledOnAllOrNone == ASSUME WritersApart PROVE Spec => []AllOrNothing
<1>1. DraftsInv /\ [Next]_vars => DraftsInv'
  BY NextKeepsDrafts
<1>2. DraftsInv => AllOrNothing
  <2>. SUFFICES ASSUME DraftsInv, NEW t \in Txs
                PROVE  /\ fate[t] = "committed" => \A l \in LayersOf[t] : t \in committed[l]
                       /\ fate[t] \in {"open", "aborted"} => \A l \in Layers : t \notin committed[l]
    BY NamedLayers DEF AllOrNothing, Abstract!AllOrNothing, txEdits
  <2>1. CASE Decided(t)
    <3>1. fate[t] = IF tx[t].phase = "committed" THEN "committed" ELSE "publishing"
      BY <2>1 DEF fate, Decided
    <3>2. tx[t].phase = "committed" => \A j \in Positions(t) : t \in committed[Order[t][j]]
      BY DEF DraftsInv, DraftInv, Published
    <3>3. LayersOf[t] = {Order[t][j] : j \in Positions(t)}
      BY DraftLayersAssumption DEF LayersOf, Positions
    <3>. QED BY <3>1, <3>2, <3>3
  <2>2. CASE ~Decided(t)
    <3>1. fate[t] # "committed"
      BY <2>2 DEF fate, Decided
    <3>. QED BY <2>2, <3>1 DEF DraftsInv, DraftInv
  <2>. QED BY <2>1, <2>2
<1>. QED BY InitDrafts, <1>1, <1>2, PTL DEF Spec

-----------------------------------------------------------------------------
(* Refinement of LayeredCommit *)

\* A step of t changes the fate of t only.
LEMMA FateStep ==
    ASSUME NEW t \in Txs, \A u \in Txs : u # t => tx'[u] = tx[u]
    PROVE  /\ fate' = [fate EXCEPT ![t] = fate'[t]]
           /\ fate'[t] = fate[t] => fate' = fate
<1>1. \A u \in Txs : u # t => fate'[u] = fate[u]
  BY DEF fate
<1>2. DOMAIN fate = Txs /\ DOMAIN fate' = Txs /\ fate = [u \in Txs |-> fate[u]] /\ fate' = [u \in Txs |-> fate'[u]]
  BY DEF fate
<1>. QED BY <1>1, <1>2

\* The fate of each phase.
LEMMA FateOf ==
    ASSUME NEW t \in Txs
    PROVE  /\ tx[t].phase \in {"claiming", "staging"} => fate[t] = "open"
           /\ tx[t].phase \in {"applying", "releasing"} => fate[t] = "publishing"
           /\ tx[t].phase = "committed" => fate[t] = "committed"
           /\ tx[t].phase \in {"busy", "unwinding", "discarding", "dropping", "rolledBack"}
                => fate[t] = "aborted"
BY DEF fate

LEMMA FateOfNext ==
    ASSUME NEW t \in Txs
    PROVE  /\ tx'[t].phase \in {"claiming", "staging"} => fate'[t] = "open"
           /\ tx'[t].phase \in {"applying", "releasing"} => fate'[t] = "publishing"
           /\ tx'[t].phase = "committed" => fate'[t] = "committed"
           /\ tx'[t].phase \in {"busy", "unwinding", "discarding", "dropping", "rolledBack"}
                => fate'[t] = "aborted"
BY DEF fate

LEMMA StepImplements ==
    ASSUME DraftsInv, NEW t \in Txs, TxStep(t)
    PROVE  Abstract!Next \/ UNCHANGED Abstract!vars
<1>. USE DEF In
<1>0. TypeInv /\ tx[t].at <= Len(Order[t]) + 1 /\ tx[t].phase \in Phases
  BY OrderFacts DEF DraftsInv, TypeInv, TypeOK
<1>a. ASSUME NEW p, NEW i, Goto(t, p, i)
      PROVE  tx'[t].phase = p /\ (\A u \in Txs : u # t => tx'[u] = tx[u])
  BY <1>0, <1>a, GotoFacts
<1>b. ASSUME fate'[t] = fate[t], committed' = committed, \A u \in Txs : u # t => tx'[u] = tx[u]
      PROVE  UNCHANGED Abstract!vars
  BY <1>b, FateStep DEF Abstract!vars, txEdits
<1>1. CASE Claim(t)
  <2>1. tx'[t].phase \in {"claiming", "staging"} /\ (\A u \in Txs : u # t => tx'[u] = tx[u])
    BY <1>1, <1>a DEF Claim, Advance
  <2>. QED BY <1>1, <1>b, <2>1, FateOf, FateOfNext DEF Claim, data
<1>2. CASE ClaimRefused(t)
  <2>1. tx'[t].phase \in {"busy", "unwinding"} /\ (\A u \in Txs : u # t => tx'[u] = tx[u])
    BY <1>2, <1>a DEF ClaimRefused
  <2>2. Abstract!Abort(t)
    BY <1>2, <2>1, FateOf, FateOfNext, FateStep DEF ClaimRefused, data, txEdits, Abstract!Abort, Abstract!Settle
  <2>. QED BY <2>2 DEF Abstract!Next
<1>3. CASE Unwind(t)
  <2>1. tx'[t].phase \in {"busy", "unwinding"} /\ (\A u \in Txs : u # t => tx'[u] = tx[u])
    BY <1>3, <1>a DEF Unwind
  <2>. QED BY <1>3, <1>b, <2>1, FateOf, FateOfNext DEF Unwind, data
<1>4. CASE Stage(t)
  <2>1. tx'[t].phase = "staging" /\ (\A u \in Txs : u # t => tx'[u] = tx[u])
    BY <1>4, <1>a DEF Stage
  <2>. QED BY <1>4, <1>b, <2>1, FateOf, FateOfNext DEF Stage, EditDraft
<1>5. CASE Commit(t)
  <2>1. tx'[t].phase = "applying" /\ (\A u \in Txs : u # t => tx'[u] = tx[u])
    BY <1>5, <1>a DEF Commit
  <2>2. Abstract!Decide(t)
    BY <1>5, <2>1, FateOf, FateOfNext, FateStep DEF Commit, data, txEdits, Abstract!Decide, Abstract!Settle
  <2>. QED BY <2>2 DEF Abstract!Next
<1>6. CASE Rollback(t)
  <2>1. tx'[t].phase = "discarding" /\ (\A u \in Txs : u # t => tx'[u] = tx[u])
    BY <1>6, <1>a DEF Rollback
  <2>2. Abstract!Abort(t)
    BY <1>6, <2>1, FateOf, FateOfNext, FateStep DEF Rollback, data, txEdits, Abstract!Abort, Abstract!Settle
  <2>. QED BY <2>2 DEF Abstract!Next
<1>7. CASE ApplyLayer(t)
  <2>1. tx'[t].phase \in {"applying", "releasing"} /\ (\A u \in Txs : u # t => tx'[u] = tx[u])
    BY <1>7, <1>a DEF ApplyLayer, Advance
  <2>2. txEdits' = [txEdits EXCEPT ![Layer(t)] = @ \cup {t}]
    <3>1. committed' = [committed EXCEPT ![Layer(t)] = @ \cup {t}]
      BY <1>7, ApplyKeepsDrafts
    <3>. QED BY <1>0, <3>1 DEF txEdits, TypeInv, TypeOK
  <2>3. tx[t].at \in Positions(t) /\ Layer(t) \in Layers
    BY <1>0, <1>7, LayerType, PointedAt DEF ApplyLayer, Positions
  <2>4. Layer(t) \in LayersOf[t]
    BY <2>3, DraftLayersAssumption DEF LayersOf, Layer, Positions
  <2>5. Abstract!Publish(t, Layer(t))
    BY <1>7, <2>1, <2>2, <2>4, FateOf, FateOfNext, FateStep DEF ApplyLayer, Abstract!Publish
  <2>. QED BY <2>3, <2>5 DEF Abstract!Next
<1>8. CASE ReleaseCommitted(t)
  <2>1. tx'[t].phase \in {"committed", "releasing"} /\ (\A u \in Txs : u # t => tx'[u] = tx[u])
    BY <1>8, <1>a DEF ReleaseCommitted, Advance
  <2>2. \A l \in LayersOf[t] : t \in txEdits[l]
    <3>1. \A j \in Positions(t) : t \in committed[Order[t][j]]
      BY <1>8 DEF ReleaseCommitted, DraftsInv, DraftInv, Published
    <3>. QED BY <3>1, NamedLayers, DraftLayersAssumption DEF LayersOf, Positions, txEdits
  <2>3. CASE tx'[t].phase = "committed"
    <3>1. Abstract!Finish(t)
      BY <1>8, <2>1, <2>2, <2>3, FateOf, FateOfNext, FateStep
         DEF ReleaseCommitted, data, txEdits, Abstract!Finish, Abstract!Settle
    <3>. QED BY <3>1 DEF Abstract!Next
  <2>4. CASE tx'[t].phase = "releasing"
    BY <1>8, <1>b, <2>1, <2>4, FateOf, FateOfNext DEF ReleaseCommitted, data
  <2>. QED BY <2>1, <2>3, <2>4
<1>9. CASE DiscardLayer(t)
  <2>1. tx'[t].phase = "dropping" /\ (\A u \in Txs : u # t => tx'[u] = tx[u])
    BY <1>9, <1>a DEF DiscardLayer
  <2>. QED BY <1>9, <1>b, <2>1, FateOf, FateOfNext DEF DiscardLayer, Discard
<1>10. CASE ReleaseDropped(t)
  <2>1. tx'[t].phase \in {"rolledBack", "discarding"} /\ (\A u \in Txs : u # t => tx'[u] = tx[u])
    BY <1>10, <1>a DEF ReleaseDropped
  <2>. QED BY <1>10, <1>b, <2>1, FateOf, FateOfNext DEF ReleaseDropped, data
<1>. QED BY <1>1, <1>2, <1>3, <1>4, <1>5, <1>6, <1>7, <1>8, <1>9, <1>10 DEF TxStep

\* When unclaimed writers keep to other layers, draft transactions implement
\* LayeredCommit.
THEOREM DraftsImplementLayeredCommit == ASSUME WritersApart PROVE Spec => Implements
<1>1. Init => Abstract!Init
  <2>1. Init => fate = [t \in Txs |-> "open"]
    BY DEF Init, fate
  <2>. QED BY <2>1 DEF Init, Abstract!Init, txEdits
<1>2. DraftsInv /\ [Next]_vars => DraftsInv'
  BY NextKeepsDrafts
<1>3. DraftsInv /\ [Next]_vars => [Abstract!Next]_(Abstract!vars)
  <2>1. UNCHANGED vars => UNCHANGED Abstract!vars
    BY DEF vars, Abstract!vars, fate, txEdits
  <2>2. ASSUME DraftsInv, NEW w \in Writers, WriterEdit(w) \/ WriterApply(w)
        PROVE  UNCHANGED Abstract!vars
    <3>1. tx' = tx
      BY <2>2 DEF WriterEdit, WriterApply
    <3>. QED BY <2>2, <3>1, WriterKeepsDrafts DEF Abstract!vars, fate
  <2>. QED BY <2>1, <2>2, StepImplements DEF Next
<1>. QED BY InitDrafts, <1>1, <1>2, <1>3, PTL DEF Spec, Implements, Abstract!Spec

(* A transaction has its layers for itself, for any layers and orders of naming
   them, as long as unclaimed writers keep to other layers. *)
THEOREM LayersAlwaysOwned == ASSUME WritersApart PROVE Spec => []LayersAreOwned
BY ClaimsAreExact, DraftsAreOwn, PTL DEF LayersAreOwned

-----------------------------------------------------------------------------
(* Draft::with_data_modify: DataModify *)

States == [step : Steps, base : Values, result : {"none", "ok", "failed"}]

\* A modifier that releases the permit has its answer.
Answered ==
    \A m \in Modifiers : modifier[m].step \in {"releasing", "notifying"} => modifier[m].result # "none"

ModifyTypeInv == ModifyTypeOK /\ Answered

\* Under the permit, the copy is older than the committed value or equal to it.
Copied ==
    \A m \in Modifiers : modifier[m].step \in {"editing", "publishing"} =>
        /\ modifier[m].base.arc <= committedValue.arc
        /\ modifier[m].base.arc = committedValue.arc => modifier[m].base.edits = committedValue.edits

Asleep(m) == modifier[m].step \in {"parking", "parked"}
Awake(m) == modifier[m].step \in Inside \cup {"notifying", "slow"}

\* A wake-up is kept only while nobody is parked; without one, whoever is about to
\* park has somebody to wake it.
WakeUps ==
    /\ stored => \A m \in Modifiers : modifier[m].step # "parked"
    /\ ~stored /\ (\E m \in Modifiers : Asleep(m)) => \E m \in Modifiers : Awake(m)

\* What each kind of step does to the modifiers.
LEMMA MoveFacts ==
    ASSUME ModifyTypeOK, NEW m \in Modifiers, NEW step, Move(m, step)
    PROVE  /\ modifier'[m] = [modifier[m] EXCEPT !.step = step]
           /\ modifier'[m].step = step
           /\ modifier'[m].base = modifier[m].base /\ modifier'[m].result = modifier[m].result
           /\ \A n \in Modifiers : n # m => modifier'[n] = modifier[n]
           /\ step \in Steps => modifier' \in [Modifiers -> States]
<1>1. modifier \in [Modifiers -> States]
  BY DEF ModifyTypeOK, States
<1>2. modifier' = [modifier EXCEPT ![m] = [modifier[m] EXCEPT !.step = step]]
  BY DEF Move
<1>3. modifier[m] \in States
  BY <1>1
<1>4. /\ [modifier[m] EXCEPT !.step = step].step = step
      /\ [modifier[m] EXCEPT !.step = step].base = modifier[m].base
      /\ [modifier[m] EXCEPT !.step = step].result = modifier[m].result
      /\ step \in Steps => [modifier[m] EXCEPT !.step = step] \in States
  BY <1>3 DEF States
<1>. QED BY <1>1, <1>2, <1>4

\* The steps that only the permit flag and the steps of the modifiers take part in.
LEMMA AcquireFacts ==
    ASSUME ModifyTypeOK, NEW m \in Modifiers, NEW else \in {"slow", "parking"}, TryAcquire(m, else)
    PROVE  /\ modifier' \in [Modifiers -> States]
           /\ modifier'[m].step = IF modifying THEN else ELSE "reading"
           /\ modifier'[m].result = modifier[m].result
           /\ \A n \in Modifiers : n # m => modifier'[n] = modifier[n]
           /\ modifying' = TRUE /\ UNCHANGED <<committedValue, stagedDraft, stored, editor>>
<1>1. CASE modifying
  <2>1. Move(m, else)
    BY <1>1 DEF TryAcquire
  <2>. QED BY <1>1, <2>1, MoveFacts DEF TryAcquire, Steps
<1>2. CASE ~modifying
  <2>1. Move(m, "reading")
    BY <1>2 DEF TryAcquire
  <2>. QED BY <1>2, <2>1, MoveFacts DEF TryAcquire, Steps, Inside
<1>. QED BY <1>1, <1>2

\* The wake-up moves the sleeper, and the modifier that sends it leaves.
LEMMA NotifyFacts ==
    ASSUME ModifyTypeInv, NEW m \in Modifiers, NotifyOne(m)
    PROVE  /\ modifier' \in [Modifiers -> States]
           /\ modifier'[m].step \in {"ok", "failed"} /\ modifier'[m].result = modifier[m].result
           /\ \A n \in Modifiers : modifier'[n].base = modifier[n].base
           /\ \/ /\ Parked = {} /\ stored' = TRUE
                 /\ \A n \in Modifiers : n # m => modifier'[n] = modifier[n]
              \/ /\ stored' = stored
                 /\ \E p \in Parked :
                       /\ modifier'[p].step = "slow" /\ modifier'[p].result = modifier[p].result
                       /\ \A n \in Modifiers : n # m /\ n # p => modifier'[n] = modifier[n]
           /\ UNCHANGED <<committedValue, stagedDraft, modifying, editor>>
<1>. DEFINE left == [modifier EXCEPT ![m].step = modifier[m].result]
<1>1. modifier \in [Modifiers -> States] /\ modifier[m].result \in {"ok", "failed"}
  BY DEF ModifyTypeInv, ModifyTypeOK, States, Answered, NotifyOne, At
<1>2. /\ left \in [Modifiers -> States]
      /\ left[m].step \in {"ok", "failed"} /\ left[m].result = modifier[m].result
      /\ left[m].base = modifier[m].base
      /\ \A n \in Modifiers : n # m => left[n] = modifier[n]
  BY <1>1 DEF States, Steps
<1>3. CASE Parked = {}
  BY <1>2, <1>3 DEF NotifyOne
<1>4. CASE Parked # {}
  <2>1. PICK p \in Parked : modifier' = [left EXCEPT ![p].step = "slow"]
    BY <1>4 DEF NotifyOne
  <2>2. p \in Modifiers /\ p # m
    BY DEF Parked, NotifyOne, At
  <2>3. /\ modifier' \in [Modifiers -> States]
        /\ modifier'[p].step = "slow" /\ modifier'[p].result = left[p].result
        /\ modifier'[p].base = left[p].base
        /\ \A n \in Modifiers : n # p => modifier'[n] = left[n]
    BY <1>2, <2>1, <2>2 DEF States, Steps
  <2>. HIDE DEF left
  <2>. QED BY <1>2, <1>4, <2>2, <2>3 DEF NotifyOne, States
<1>. QED BY <1>3, <1>4

LEMMA ReadFacts ==
    ASSUME ModifyTypeOK, NEW m \in Modifiers, Read(m)
    PROVE  /\ modifier' \in [Modifiers -> States]
           /\ modifier'[m].step = "editing" /\ modifier'[m].base = committedValue
           /\ modifier'[m].result = modifier[m].result
           /\ \A n \in Modifiers : n # m => modifier'[n] = modifier[n]
BY DEF Read, ModifyTypeOK, States, Steps, Inside

LEMMA EditFailsFacts ==
    ASSUME ModifyTypeOK, NEW m \in Modifiers, EditFails(m)
    PROVE  /\ modifier' \in [Modifiers -> States]
           /\ modifier'[m].step = "releasing" /\ modifier'[m].result = "failed"
           /\ \A n \in Modifiers : n # m => modifier'[n] = modifier[n]
BY DEF EditFails, ModifyTypeOK, States, Steps, Inside

LEMMA PublishFacts ==
    ASSUME ModifyTypeOK, NEW m \in Modifiers, Publish(m)
    PROVE  /\ modifier' \in [Modifiers -> States]
           /\ modifier'[m].step = "releasing"
           /\ modifier'[m].result = IF committedValue.arc = modifier[m].base.arc THEN "ok" ELSE "failed"
           /\ \A n \in Modifiers : n # m => modifier'[n] = modifier[n]
<1>1. modifier \in [Modifiers -> States]
  BY DEF ModifyTypeOK, States
<1>2. PICK r \in {"ok", "failed"} :
          /\ r = IF committedValue.arc = modifier[m].base.arc THEN "ok" ELSE "failed"
          /\ modifier' = [modifier EXCEPT ![m].step = "releasing", ![m].result = r]
  BY DEF Publish
<1>3. /\ modifier'[m] = [modifier[m] EXCEPT !.step = "releasing", !.result = r]
      /\ \A n \in Modifiers : n # m => modifier'[n] = modifier[n]
  BY <1>1, <1>2
<1>4. [modifier[m] EXCEPT !.step = "releasing", !.result = r] \in States
  BY <1>1, <1>2 DEF States, Steps, Inside
<1>5. modifier' \in [Modifiers -> States]
  BY <1>1, <1>2, <1>4
<1>. QED BY <1>1, <1>2, <1>3, <1>5 DEF States

\* A replacement is a value with an Arc of its own.
LEMMA ReplaceFacts ==
    ASSUME ModifyTypeOK, NEW edits \in SUBSET Authors, Replace(edits)
    PROVE  committedValue' \in Values /\ committedValue'.arc = committedValue.arc + 1 /\ committedValue'.edits = edits
BY DEF ModifyTypeOK, Replace, Values

LEMMA ModifyNextType ==
    ASSUME ModifyTypeInv, [ModifyNext]_modifyVars
    PROVE  ModifyTypeInv'
<1>0. ModifyTypeOK /\ Answered /\ modifier \in [Modifiers -> States]
  BY DEF ModifyTypeInv, ModifyTypeOK, States
<1>1. ASSUME NEW m \in Modifiers, FastTry(m) \/ SlowTry(m) PROVE ModifyTypeInv'
  <2>1. PICK else \in {"slow", "parking"} : TryAcquire(m, else)
    BY <1>1 DEF FastTry, SlowTry
  <2>2. /\ modifier' \in [Modifiers -> States] /\ modifier'[m].step \in {"slow", "parking", "reading"}
        /\ \A n \in Modifiers : n # m => modifier'[n] = modifier[n]
        /\ modifying' = TRUE /\ UNCHANGED <<committedValue, stagedDraft, stored, editor>>
    BY <1>0, <2>1, AcquireFacts
  <2>. QED BY <1>0, <2>2 DEF ModifyTypeInv, ModifyTypeOK, Answered, States
<1>2. ASSUME NEW m \in Modifiers, Park(m) PROVE ModifyTypeInv'
  <2>1. Move(m, "slow") \/ Move(m, "parked")
    BY <1>2 DEF Park
  <2>2. /\ modifier' \in [Modifiers -> States] /\ modifier'[m].step \in {"slow", "parked"}
        /\ \A n \in Modifiers : n # m => modifier'[n] = modifier[n]
    BY <1>0, <2>1, MoveFacts DEF Steps
  <2>3. stored' \in BOOLEAN /\ UNCHANGED <<committedValue, stagedDraft, modifying, editor>>
    BY <1>2 DEF Park
  <2>. QED BY <1>0, <2>2, <2>3 DEF ModifyTypeInv, ModifyTypeOK, Answered, States
<1>3. ASSUME NEW m \in Modifiers, Read(m) PROVE ModifyTypeInv'
  BY <1>0, <1>3, ReadFacts DEF Read, ModifyTypeInv, ModifyTypeOK, Answered, States
<1>4. ASSUME NEW m \in Modifiers, EditFails(m) PROVE ModifyTypeInv'
  BY <1>0, <1>4, EditFailsFacts DEF EditFails, ModifyTypeInv, ModifyTypeOK, Answered, States
<1>5. ASSUME NEW m \in Modifiers, EditEnds(m) PROVE ModifyTypeInv'
  <2>1. /\ modifier' \in [Modifiers -> States] /\ modifier'[m].step = "publishing"
        /\ \A n \in Modifiers : n # m => modifier'[n] = modifier[n]
    BY <1>0, <1>5, MoveFacts DEF EditEnds, Steps, Inside
  <2>. QED BY <1>0, <1>5, <2>1 DEF EditEnds, ModifyTypeInv, ModifyTypeOK, Answered, States
<1>6. ASSUME NEW m \in Modifiers, Publish(m) PROVE ModifyTypeInv'
  <2>1. committedValue' \in Values
    <3>1. modifier[m].base.edits \cup {m} \in SUBSET Authors
      BY <1>0 DEF States, Values, Authors
    <3>. QED BY <1>0, <1>6, <3>1, ReplaceFacts DEF Publish, ModifyTypeOK
  <2>2. /\ modifier' \in [Modifiers -> States]
        /\ modifier'[m].result # "none"
        /\ \A n \in Modifiers : n # m => modifier'[n] = modifier[n]
    BY <1>0, <1>6, PublishFacts
  <2>. QED BY <1>0, <1>6, <2>1, <2>2 DEF Publish, ModifyTypeInv, ModifyTypeOK, Answered, States
<1>7. ASSUME NEW m \in Modifiers, ClearFlag(m) PROVE ModifyTypeInv'
  <2>1. modifier[m].result # "none"
    BY <1>0, <1>7 DEF ClearFlag, Answered, At
  <2>. QED BY <1>0, <1>7, <2>1, MoveFacts DEF ClearFlag, ModifyTypeInv, ModifyTypeOK, Answered, States, Steps
<1>8. ASSUME NEW m \in Modifiers, NotifyOne(m) PROVE ModifyTypeInv'
  <2>1. /\ modifier' \in [Modifiers -> States] /\ stored' \in BOOLEAN
        /\ \A n \in Modifiers : modifier'[n].step \in {"ok", "failed", "slow"} \/ modifier'[n] = modifier[n]
        /\ UNCHANGED <<committedValue, stagedDraft, modifying, editor>>
    BY <1>0, <1>8, NotifyFacts DEF ModifyTypeInv, ModifyTypeOK
  <2>. QED BY <1>0, <2>1 DEF ModifyTypeInv, ModifyTypeOK, Answered, States
<1>9. ASSUME NEW w \in Editors, EditorEdits(w) PROVE ModifyTypeInv'
  <2>1. stagedDraft' \in SUBSET (SUBSET Authors)
    BY <1>0, <1>9 DEF EditorEdits, ModifyTypeOK, Values, Authors
  <2>2. editor' \in [Editors -> {"idle", "edited", "done"}]
    BY <1>0, <1>9 DEF EditorEdits, ModifyTypeOK
  <2>. QED BY <1>0, <1>9, <2>1, <2>2 DEF EditorEdits, ModifyTypeInv, ModifyTypeOK, Answered
<1>10. ASSUME NEW w \in Editors, EditorApplies(w) PROVE ModifyTypeInv'
  <2>1. committedValue' \in Values
    <3>1. UNION stagedDraft \in SUBSET Authors
      BY <1>0 DEF ModifyTypeOK
    <3>. QED BY <1>0, <1>10, <3>1, ReplaceFacts DEF EditorApplies, ModifyTypeOK
  <2>2. editor' \in [Editors -> {"idle", "edited", "done"}]
    BY <1>0, <1>10 DEF EditorApplies, ModifyTypeOK
  <2>. QED BY <1>0, <1>10, <2>1, <2>2 DEF EditorApplies, ModifyTypeInv, ModifyTypeOK, Answered
<1>11. CASE UNCHANGED modifyVars
  BY <1>0, <1>11 DEF modifyVars, ModifyTypeInv, ModifyTypeOK, Answered
<1>. QED BY <1>1, <1>2, <1>3, <1>4, <1>5, <1>6, <1>7, <1>8, <1>9, <1>10, <1>11 DEF ModifyNext, ModifierStep

LEMMA ModifyInitType == ModifyInit => ModifyTypeInv
<1>. SUFFICES ASSUME ModifyInit PROVE ModifyTypeInv
  OBVIOUS
<1>1. NoValue \in Values /\ "fast" \in Steps
  BY DEF NoValue, Values, Steps
<1>2. modifier \in [Modifiers -> States] /\ \A m \in Modifiers : modifier[m].step = "fast"
  BY <1>1 DEF ModifyInit, States
<1>. QED BY <1>1, <1>2 DEF ModifyInit, ModifyTypeInv, ModifyTypeOK, Answered, States

\* Every variable keeps its type.
THEOREM ModifyTypesCorrect == ModifySpec => []ModifyTypeOK
<1>1. ModifyTypeInv => ModifyTypeOK
  BY DEF ModifyTypeInv
<1>2. ModifyTypeInv /\ [ModifyNext]_modifyVars => ModifyTypeInv'
  BY ModifyNextType
<1>. QED BY ModifyInitType, <1>1, <1>2, PTL DEF ModifySpec

-----------------------------------------------------------------------------
(* The invariant is about which modifiers are inside, which sleep and which are
   awake, and about their copies; a step of m changes these for m, and a wake-up
   for one sleeper. *)

ModifyInv == ModifyTypeInv /\ PermitExact /\ StaleOnlyByEditor /\ Copied /\ WakeUps

LEMMA AcquireKeeps ==
    ASSUME ModifyInv, NEW m \in Modifiers, FastTry(m) \/ SlowTry(m)
    PROVE  PermitExact' /\ StaleOnlyByEditor' /\ Copied' /\ WakeUps'
<1>1. PICK else \in {"slow", "parking"} : TryAcquire(m, else)
  BY DEF FastTry, SlowTry
<1>2. /\ modifier'[m].step = IF modifying THEN else ELSE "reading"
      /\ \A n \in Modifiers : n # m => modifier'[n] = modifier[n]
      /\ modifying' = TRUE /\ committedValue' = committedValue /\ stored' = stored /\ editor' = editor
      /\ modifier[m].step \in {"fast", "slow"}
  BY <1>1, AcquireFacts DEF ModifyInv, ModifyTypeInv, FastTry, SlowTry, At
<1>3. PermitExact'
  BY <1>2 DEF ModifyInv, PermitExact, Inside
<1>4. StaleOnlyByEditor' /\ Copied'
  BY <1>2 DEF ModifyInv, StaleOnlyByEditor, Copied
<1>5. WakeUps'
  <2>1. \E n \in Modifiers : Awake(n)'
    BY <1>2, <1>3 DEF PermitExact, Awake
  <2>. QED BY <1>2, <2>1 DEF ModifyInv, WakeUps
<1>. QED BY <1>3, <1>4, <1>5

LEMMA ParkKeeps ==
    ASSUME ModifyInv, NEW m \in Modifiers, Park(m)
    PROVE  PermitExact' /\ StaleOnlyByEditor' /\ Copied' /\ WakeUps'
<1>1. /\ modifier[m].step = "parking"
      /\ modifier'[m].step = IF stored THEN "slow" ELSE "parked"
      /\ \A n \in Modifiers : n # m => modifier'[n] = modifier[n]
      /\ modifying' = modifying /\ committedValue' = committedValue /\ stored' = FALSE /\ editor' = editor
  <2>1. CASE stored
    BY <2>1, MoveFacts DEF Park, At, ModifyInv, ModifyTypeInv
  <2>2. CASE ~stored
    BY <2>2, MoveFacts DEF Park, At, ModifyInv, ModifyTypeInv
  <2>. QED BY <2>1, <2>2
<1>3. PermitExact'
  BY <1>1 DEF ModifyInv, PermitExact, Inside
<1>4. StaleOnlyByEditor' /\ Copied'
  BY <1>1 DEF ModifyInv, StaleOnlyByEditor, Copied
<1>5. WakeUps'
  <2>1. CASE stored
    <3>1. Awake(m)'
      BY <1>1, <2>1 DEF Awake
    <3>. QED BY <1>1, <3>1 DEF WakeUps
  <2>2. CASE ~stored
    <3>1. PICK n \in Modifiers : Awake(n)
      BY <1>1, <2>2 DEF ModifyInv, WakeUps, Asleep
    <3>2. Awake(n)'
      BY <1>1, <3>1 DEF Awake, Inside
    <3>. QED BY <1>1, <3>2 DEF WakeUps
  <2>. QED BY <2>1, <2>2
<1>. QED BY <1>3, <1>4, <1>5

\* Under the permit nobody replaces the value but the modifier itself.
LEMMA InsideKeeps ==
    ASSUME ModifyInv, NEW m \in Modifiers, Read(m) \/ EditFails(m) \/ EditEnds(m) \/ Publish(m)
    PROVE  PermitExact' /\ StaleOnlyByEditor' /\ Copied' /\ WakeUps'
<1>0. ModifyTypeInv /\ ModifyTypeOK
  BY DEF ModifyInv, ModifyTypeInv
<1>1. /\ modifier[m].step \in Inside /\ modifier'[m].step \in Inside
      /\ modifier[m].step \in {"reading", "editing", "publishing"}
      /\ \A n \in Modifiers : n # m => modifier'[n] = modifier[n]
      /\ modifying' = modifying /\ stored' = stored /\ editor' = editor
  BY <1>0, ReadFacts, EditFailsFacts, MoveFacts, PublishFacts
     DEF Read, EditFails, EditEnds, Publish, At, Inside
<1>2. \A n \in Modifiers : n # m => modifier[n].step \notin Inside /\ modifier'[n].step \notin Inside
  BY <1>1 DEF ModifyInv, PermitExact
<1>3. PermitExact'
  BY <1>1, <1>2 DEF ModifyInv, PermitExact
<1>4. StaleOnlyByEditor' /\ Copied'
  <2>1. CASE Read(m)
    <3>1. modifier'[m].base = committedValue /\ committedValue' = committedValue /\ committedValue.arc \in Nat
      BY <1>0, <2>1, ReadFacts DEF Read, ModifyTypeOK, Values
    <3>. QED BY <1>1, <1>2, <3>1 DEF StaleOnlyByEditor, Copied, Inside
  <2>2. CASE EditEnds(m)
    <3>1. modifier'[m].base = modifier[m].base /\ committedValue' = committedValue /\ modifier[m].step = "editing"
      BY <1>0, <2>2, MoveFacts DEF EditEnds, At
    <3>. QED BY <1>1, <1>2, <3>1 DEF ModifyInv, StaleOnlyByEditor, Copied, Inside
  <2>3. CASE EditFails(m) \/ Publish(m)
    <3>1. modifier'[m].step = "releasing"
      BY <1>0, <2>3, EditFailsFacts, PublishFacts
    <3>. QED BY <1>1, <1>2, <3>1 DEF StaleOnlyByEditor, Copied, Inside
  <2>. QED BY <2>1, <2>2, <2>3
<1>5. WakeUps'
  <2>1. Awake(m)'
    BY <1>1 DEF Awake
  <2>. QED BY <1>1, <2>1 DEF ModifyInv, WakeUps, Inside
<1>. QED BY <1>3, <1>4, <1>5

LEMMA ReleaseKeeps ==
    ASSUME ModifyInv, NEW m \in Modifiers, ClearFlag(m)
    PROVE  PermitExact' /\ StaleOnlyByEditor' /\ Copied' /\ WakeUps'
<1>1. /\ modifier[m].step = "releasing" /\ modifier'[m].step = "notifying"
      /\ \A n \in Modifiers : n # m => modifier'[n] = modifier[n]
      /\ modifying' = FALSE /\ stored' = stored /\ editor' = editor /\ committedValue' = committedValue
  BY MoveFacts DEF ModifyInv, ModifyTypeInv, ClearFlag, At
<1>2. \A n \in Modifiers : n # m => modifier[n].step \notin Inside /\ modifier'[n].step \notin Inside
  BY <1>1 DEF ModifyInv, PermitExact, Inside
<1>3. PermitExact' /\ StaleOnlyByEditor' /\ Copied'
  BY <1>1, <1>2 DEF ModifyInv, PermitExact, StaleOnlyByEditor, Copied, Inside
<1>4. WakeUps'
  <2>1. Awake(m)'
    BY <1>1 DEF Awake
  <2>. QED BY <1>1, <2>1 DEF ModifyInv, WakeUps
<1>. QED BY <1>3, <1>4

LEMMA NotifyKeeps ==
    ASSUME ModifyInv, NEW m \in Modifiers, NotifyOne(m)
    PROVE  PermitExact' /\ StaleOnlyByEditor' /\ Copied' /\ WakeUps'
<1>1. /\ modifier[m].step = "notifying" /\ modifier'[m].step \in {"ok", "failed"}
      /\ modifying' = modifying /\ committedValue' = committedValue /\ editor' = editor
  BY NotifyFacts DEF ModifyInv, NotifyOne, At
<1>2. CASE Parked = {} /\ stored' = TRUE /\ \A n \in Modifiers : n # m => modifier'[n] = modifier[n]
  <2>1. PermitExact' /\ StaleOnlyByEditor' /\ Copied'
    BY <1>1, <1>2 DEF ModifyInv, PermitExact, StaleOnlyByEditor, Copied, Inside
  <2>2. \A n \in Modifiers : modifier'[n].step # "parked"
    BY <1>1, <1>2 DEF Parked, At
  <2>. QED BY <1>2, <2>1, <2>2 DEF WakeUps
<1>3. ASSUME NEW p \in Parked, modifier'[p].step = "slow", stored' = stored,
             \A n \in Modifiers : n # m /\ n # p => modifier'[n] = modifier[n]
      PROVE  PermitExact' /\ StaleOnlyByEditor' /\ Copied' /\ WakeUps'
  <2>0. p \in Modifiers /\ modifier[p].step = "parked"
    BY DEF Parked, At
  <2>1. PermitExact' /\ StaleOnlyByEditor' /\ Copied'
    BY <1>1, <1>3, <2>0 DEF ModifyInv, PermitExact, StaleOnlyByEditor, Copied, Inside
  <2>2. Awake(p)'
    BY <1>3 DEF Awake
  <2>3. ~stored
    BY <2>0 DEF ModifyInv, WakeUps
  <2>. QED BY <1>3, <2>0, <2>1, <2>2, <2>3 DEF WakeUps
<1>. QED BY <1>2, <1>3, NotifyFacts DEF ModifyInv

LEMMA EditorsKeep ==
    ASSUME ModifyInv, NEW w \in Editors, EditorEdits(w) \/ EditorApplies(w)
    PROVE  PermitExact' /\ StaleOnlyByEditor' /\ Copied' /\ WakeUps'
<1>0. ModifyTypeOK
  BY DEF ModifyInv, ModifyTypeInv
<1>1. UNCHANGED <<modifying, stored, modifier>>
  BY DEF EditorEdits, EditorApplies
<1>2. \/ committedValue' = committedValue
      \/ committedValue'.arc = committedValue.arc + 1
  <2>1. UNION stagedDraft \in SUBSET Authors
    BY <1>0 DEF ModifyTypeOK
  <2>. QED BY <1>0, <2>1, ReplaceFacts DEF EditorEdits, EditorApplies
<1>3. PermitExact' /\ WakeUps'
  BY <1>1 DEF ModifyInv, PermitExact, WakeUps, Asleep, Awake
<1>4. \A v \in Editors : editor[v] = "done" => editor'[v] = "done"
  BY <1>0 DEF EditorEdits, EditorApplies, ModifyTypeOK
<1>5. CASE EditorEdits(w)
  <2>1. committedValue' = committedValue
    BY <1>5 DEF EditorEdits
  <2>. QED BY <1>1, <1>3, <1>4, <2>1 DEF ModifyInv, StaleOnlyByEditor, Copied
<1>6. CASE EditorApplies(w)
  <2>1. editor'[w] = "done"
    BY <1>0, <1>6 DEF EditorApplies, ModifyTypeOK
  <2>2. StaleOnlyByEditor'
    BY <2>1 DEF StaleOnlyByEditor
  <2>3. Copied'
    <3>1. \A m \in Modifiers : modifier[m].base.arc \in Nat /\ committedValue.arc \in Nat
      BY <1>0 DEF ModifyTypeOK, Values
    <3>2. CASE committedValue' = committedValue
      BY <1>1, <3>2 DEF ModifyInv, Copied
    <3>3. CASE committedValue'.arc = committedValue.arc + 1
      BY <1>1, <3>1, <3>3 DEF ModifyInv, Copied
    <3>. QED BY <1>2, <3>2, <3>3
  <2>. QED BY <1>3, <2>2, <2>3
<1>. QED BY <1>5, <1>6

LEMMA Inductive ==
    ASSUME ModifyInv, [ModifyNext]_modifyVars
    PROVE  ModifyInv'
<1>1. ModifyTypeInv'
  BY ModifyNextType DEF ModifyInv
<1>2. CASE UNCHANGED modifyVars
  BY <1>1, <1>2 DEF ModifyInv, modifyVars, PermitExact, StaleOnlyByEditor, Copied, WakeUps, Asleep, Awake
<1>3. CASE ModifyNext
  BY <1>1, <1>3, AcquireKeeps, ParkKeeps, InsideKeeps, ReleaseKeeps, NotifyKeeps, EditorsKeep
     DEF ModifyInv, ModifyNext, ModifierStep
<1>. QED BY <1>2, <1>3

LEMMA ModifyInitInv == ModifyInit => ModifyInv
<1>. SUFFICES ASSUME ModifyInit PROVE ModifyInv
  OBVIOUS
<1>1. ModifyTypeInv
  BY ModifyInitType
<1>2. \A m \in Modifiers : modifier[m].step = "fast"
  BY DEF ModifyInit
<1>3. ~modifying /\ ~stored
  BY DEF ModifyInit
<1>. QED BY <1>1, <1>2, <1>3 DEF ModifyInv, PermitExact, StaleOnlyByEditor, Copied, WakeUps, Asleep, Inside

\* The permit is held by one modifier at a time, and its flag says so.
THEOREM PermitHeldOnce == ModifySpec => []PermitExact
<1>1. ModifyInv => PermitExact
  BY DEF ModifyInv
<1>2. ModifyInv /\ [ModifyNext]_modifyVars => ModifyInv'
  BY Inductive
<1>. QED BY ModifyInitInv, <1>1, <1>2, PTL DEF ModifySpec

\* Modifiers never make each other fail.
THEOREM ModifiersDoNotConflict == ModifySpec => []StaleOnlyByEditor
<1>1. ModifyInv => StaleOnlyByEditor
  BY DEF ModifyInv
<1>2. ModifyInv /\ [ModifyNext]_modifyVars => ModifyInv'
  BY Inductive
<1>. QED BY ModifyInitInv, <1>1, <1>2, PTL DEF ModifySpec

\* No wake-up is lost.
THEOREM NoLostWakeUp == ModifySpec => []SleepersHaveAWaker
<1>1. ModifyInv => SleepersHaveAWaker
  BY DEF ModifyInv, WakeUps, SleepersHaveAWaker, Asleep, Awake, Parked, At
<1>2. ModifyInv /\ [ModifyNext]_modifyVars => ModifyInv'
  BY Inductive
<1>. QED BY ModifyInitInv, <1>1, <1>2, PTL DEF ModifySpec

\* A modifier that returns Ok keeps what others committed while it ran.
THEOREM ModifiesAreNotLost == ModifySpec => ModifyKeepsOthers
<1>1. ModifyInv /\ [ModifyNext]_modifyVars => ModifyInv'
  BY Inductive
<1>2. ASSUME ModifyInv, [ModifyNext]_modifyVars, NEW m \in Modifiers,
             modifier[m].result # "ok", modifier'[m].result = "ok"
      PROVE  committedValue'.edits = committedValue.edits \cup {m}
  <2>0. ModifyTypeInv /\ ModifyTypeOK
    BY <1>2 DEF ModifyInv, ModifyTypeInv
  <2>1. modifier' # modifier
    BY <1>2
  <2>2. PICK n \in Modifiers : ModifierStep(n)
    BY <1>2, <2>1 DEF ModifyNext, modifyVars, EditorEdits, EditorApplies
  <2>3. CASE Publish(n)
    <3>1. n = m /\ committedValue.arc = modifier[m].base.arc
      BY <1>2, <2>0, <2>3, PublishFacts
    <3>2. modifier[m].base.edits = committedValue.edits
      BY <1>2, <2>3, <3>1 DEF Publish, At, ModifyInv, Copied
    <3>3. Replace(committedValue.edits \cup {m}) /\ committedValue.edits \cup {m} \in SUBSET Authors
      BY <2>0, <2>3, <3>1, <3>2 DEF Publish, ModifyTypeOK, Values, Authors
    <3>. QED BY <2>0, <3>3, ReplaceFacts
  <2>4. CASE NotifyOne(n)
    BY <1>2, <2>0, <2>4, NotifyFacts
  <2>5. CASE FastTry(n) \/ SlowTry(n)
    <3>1. PICK else \in {"slow", "parking"} : TryAcquire(n, else)
      BY <2>5 DEF FastTry, SlowTry
    <3>. QED BY <1>2, <2>0, <3>1, AcquireFacts
  <2>6. CASE Park(n)
    <3>1. Move(n, "slow") \/ Move(n, "parked")
      BY <2>6 DEF Park
    <3>. QED BY <1>2, <2>0, <3>1, MoveFacts
  <2>7. CASE Read(n) \/ EditFails(n)
    BY <1>2, <2>0, <2>7, ReadFacts, EditFailsFacts
  <2>8. CASE EditEnds(n) \/ ClearFlag(n)
    BY <1>2, <2>0, <2>8, MoveFacts DEF EditEnds, ClearFlag
  <2>. QED BY <2>2, <2>3, <2>4, <2>5, <2>6, <2>7, <2>8 DEF ModifierStep
<1>3. ModifyInv /\ [ModifyNext]_modifyVars =>
        [\A m \in Modifiers : modifier[m].result # "ok" /\ modifier'[m].result = "ok" =>
            committedValue'.edits = committedValue.edits \cup {m}]_modifyVars
  BY <1>2
<1>. QED BY ModifyInitInv, <1>1, <1>3, PTL DEF ModifySpec, ModifyKeepsOthers

=============================================================================
