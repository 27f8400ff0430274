---------------------------- MODULE LayeredCommit ----------------------------
(***************************************************************************)
(* What a transaction over configuration layers promises: it publishes its *)
(* edit on every layer it names, one after the other, or on none.          *)
(***************************************************************************)
CONSTANTS Layers, Txs,
          LayersOf   \* the layers each transaction names

VARIABLES content,   \* the edits each layer holds committed
          fate       \* what became of each transaction

vars == <<content, fate>>

Init ==
    /\ content = [l \in Layers |-> {}]
    /\ fate = [t \in Txs |-> "open"]

Settle(t, from, to) ==
    /\ fate[t] = from
    /\ fate' = [fate EXCEPT ![t] = to]

Decide(t) == Settle(t, "open", "publishing") /\ UNCHANGED content
Abort(t)  == Settle(t, "open", "aborted") /\ UNCHANGED content

Publish(t, l) ==
    /\ fate[t] = "publishing"
    /\ l \in LayersOf[t]
    /\ content' = [content EXCEPT ![l] = @ \cup {t}]
    /\ UNCHANGED fate

Finish(t) ==
    /\ \A l \in LayersOf[t] : t \in content[l]
    /\ Settle(t, "publishing", "committed")
    /\ UNCHANGED content

Next == \E t \in Txs : Decide(t) \/ Abort(t) \/ Finish(t) \/ \E l \in Layers : Publish(t, l)

Spec == Init /\ [][Next]_vars

\* A settled transaction is on all of its layers or on none: what is left after
\* an apply, a failed claim or a rollback.
AllOrNothing ==
    \A t \in Txs :
        /\ fate[t] = "committed" => \A l \in LayersOf[t] : t \in content[l]
        /\ fate[t] \in {"open", "aborted"} => \A l \in Layers : t \notin content[l]

=============================================================================
