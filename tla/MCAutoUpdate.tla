---------------------------- MODULE MCAutoUpdate ----------------------------
(* Instances of AutoUpdate for TLC: every two commands of a user, before,
   during and after init. *)
EXTENDS AutoUpdate

CONSTANTS work, first, second

OneProfile == {work}
TwoCallers == {first, second}
TwoKeys == {1, 2}
TwoIntervals == {1, 2}

Often == [allow |-> TRUE, interval |-> 1]
Seldom == [allow |-> TRUE, interval |-> 2]
Unset == [allow |-> TRUE, interval |-> None]
Off == [allow |-> FALSE, interval |-> 1]

AllChoices == {Often, Seldom, Unset, Off}

=============================================================================
