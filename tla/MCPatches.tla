---------------------------- MODULE MCPatches -----------------------------
(* Two texts of a profile for TLC: a plain one, and one whose items and merge write what the
   application owns, name nodes nobody defines and bring a DNS policy of the provider. *)
EXTENDS Patches, TLC

Plain ==
    [config |-> [fields |-> "mode" :> "rule" @@ "bind-address" :> "*",
                 groups |-> << [name |-> "G", selects |-> TRUE, use |-> {}, members |-> {"a", "DIRECT"}] >>,
                 proxies |-> {"a"}, providers |-> {}, tunnels |-> {"a"}],
     proxyItems |-> [add |-> {}, delete |-> {}],
     groupItems |-> [prepend |-> << >>, append |-> << >>, delete |-> {}],
     item |-> [merge |-> << >>, script |-> [writes |-> << >>, drops |-> {}]]]

Hostile ==
    [config |-> [fields |-> "mode" :> "script" @@ "socks-port" :> 1 @@ "bind-address" :> "loopback"
                              @@ "dns.nameserver-policy" :> "provider",
                 groups |-> << [name |-> "G", selects |-> TRUE, use |-> {"p"}, members |-> {"a"}],
                               [name |-> "H", selects |-> FALSE, use |-> {"gone"}, members |-> {"G", "a"}] >>,
                 proxies |-> {"a"}, providers |-> {"p"}, tunnels |-> {"a", "H"}],
     proxyItems |-> [add |-> {"b"}, delete |-> {"a"}],
     groupItems |-> [prepend |-> << [name |-> "N", selects |-> TRUE, use |-> {}, members |-> {"lost", "b"}] >>,
                     append |-> << >>, delete |-> {}],
     item |-> [merge |-> "mixed-port" :> 4 @@ "tun.enable" :> TRUE @@ "dns.enhanced-mode" :> "redir-host",
               script |-> [writes |-> "socks-port" :> 2 @@ "allow-lan" :> FALSE, drops |-> {"external-controller"}]]]

CONSTANTS plain, hostile

MCProfiles == {plain, hostile}
MCText == plain :> Plain @@ hostile :> Hostile
MCGlobal == [merge |-> "external-controller" :> "elsewhere", script |-> [writes |-> << >>, drops |-> {"mode"}]]
MCPage == "dns.enable" :> TRUE @@ "dns.nameserver-policy" :> "page"

MCClash == "mixed-port" :> 2 @@ "socks-port" :> 3 @@ "external-controller" :> "here" @@ "mode" :> "rule"
             @@ "allow-lan" :> FALSE
MCVerge == [mixed |-> 2, socks |-> FALSE, tun |-> FALSE, dns |-> FALSE, confirmed |-> Absent, controller |-> TRUE,
            sysproxy |-> FALSE]

MCClashes ==
    {"mixed-port" :> port @@ "allow-lan" :> lan @@ "mode" :> m @@ MCClash :
        port \in 2 .. 4, lan \in BOOLEAN, m \in {"rule", "global"}}

MCPatchSet == {[layer |-> "verge", set |-> [socks |-> TRUE]],
               [layer |-> "verge", set |-> [tun |-> TRUE]],
               [layer |-> "verge", set |-> [sysproxy |-> TRUE]],
               [layer |-> "clash", set |-> "allow-lan" :> TRUE]}
MCPorts == {[port |-> 4, socks |-> FALSE], [port |-> 3, socks |-> TRUE]}
MCModes == {"global"}
===========================================================================
