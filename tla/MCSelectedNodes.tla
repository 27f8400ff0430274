-------------------------- MODULE MCSelectedNodes ---------------------------
(* Two profiles for TLC: home has a group of its own nodes and one that a provider loads, work
   has the first of them as a group that takes no selection. *)
EXTENDS SelectedNodes

CONSTANTS home, work, static, remote, x, y, user

TwoProfiles == {home, work}
TwoGroups == {static, remote}
TwoNodes == {x, y}
OneUser == {user}

MCOffers == [p \in TwoProfiles |-> [g \in TwoGroups |->
    IF p = home THEN {x, y} ELSE IF g = static THEN {y} ELSE {}]]
MCManual == [p \in TwoProfiles |-> IF p = home THEN TwoGroups ELSE {}]
MCProviders == {remote}
MCRecorded == {[p \in TwoProfiles |-> [g \in TwoGroups |-> IF p = work /\ g = remote THEN None ELSE x]]}
MCDelivered == {{y}, {x, y}}
MCChoices == {<<static, y>>}

=============================================================================
