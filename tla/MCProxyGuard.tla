----------------------------- MODULE MCProxyGuard -----------------------------
(* Instance of ProxyGuard for TLC: two proxies a user may want. *)
EXTENDS ProxyGuard, TLC

CONSTANTS mixed, pac

TwoTargets == {mixed, pac}
Settings == {[proxy |-> "off", guard |-> TRUE],
             [proxy |-> mixed, guard |-> TRUE],
             [proxy |-> pac, guard |-> TRUE]}


=============================================================================
