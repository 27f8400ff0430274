---------------------------- MODULE MCRunState ----------------------------
(* Instances of RunState for TLC. *)
EXTENDS RunState, TLC

CONSTANTS w1, w2, timeout

MCReasons == {timeout}
TwoWaiters == {w1, w2}

=============================================================================
