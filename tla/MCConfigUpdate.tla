--------------------------- MODULE MCConfigUpdate ---------------------------
(* Instances of ConfigUpdate for TLC: two profiles and a few commands. *)
EXTENDS ConfigUpdate, TLC

CONSTANTS c1, c2, c3, home, work

TwoProfiles == {home, work}
TwoCallers == {c1, c2}
ThreeCallers == {c1, c2, c3}
AllRequests == Commands
Symmetry == Permutations(ThreeCallers) \cup Permutations(TwoProfiles)

=============================================================================
