-------------------------------- MODULE Enhance --------------------------------
(***************************************************************************)
(* How the configuration of the core is made (src-tauri/src/enhance and    *)
(* Config::generate_with_profiles): the current profile, changed by its    *)
(* own items, then overlaid with the settings of the application, then     *)
(* with the merges and scripts of the user, whose writes to what the       *)
(* application owns are taken back.                                        *)
(*                                                                         *)
(* A configuration is a record: the fields that are looked at one by one,  *)
(* as a function from the paths it has to their values, and the proxies,   *)
(* the groups in their order, the providers and the targets of tunnels.    *)
(* What a script computes is the writes and the removals it comes to.      *)
(* Rules, the order of keys and what a node is made of are left out.       *)
(***************************************************************************)
EXTENDS Naturals, Sequences, Functions

CONSTANTS
    Absent,  \* a missing value
    Builtin  \* the policies the core has without being told of them

\* CONTROL_PLANE_KEYS; the ones left out are treated like "mode".
ControlKeys == {"mixed-port", "socks-port", "external-controller", "mode", "allow-lan"}

Get(fields, path)      == IF path \in DOMAIN fields THEN fields[path] ELSE Absent
Only(fields, paths)    == Restrict(fields, DOMAIN fields \cap paths)
Without(fields, paths) == Restrict(fields, DOMAIN fields \ paths)
Single(path, value)    == [p \in {path} |-> value]

\* The fields of both; where both have one, the first counts.
Over(first, second) ==
    [p \in DOMAIN first \cup DOMAIN second |-> IF p \in DOMAIN first THEN first[p] ELSE second[p]]

Overlay(config, fields) == [config EXCEPT !.fields = Over(fields, @)]

-----------------------------------------------------------------------------
(* The items of the profile: what they put before, put after and delete *)

NamesOf(groups) == {groups[i].name : i \in DOMAIN groups}

UseSeqGroups(items, config) ==
    LET Kept(g) == g.name \notin items.delete IN
    [config EXCEPT !.groups = items.prepend \o SelectSeq(@, Kept) \o items.append]

(* A deleted proxy leaves the groups too, and the added ones join the first
   group that lets the user select. *)
UseSeqProxies(items, config) ==
    LET groups == config.groups
        First(i) == groups[i].selects /\ \A j \in 1 .. i - 1 : ~groups[j].selects IN
    [config EXCEPT
        !.proxies = (@ \ items.delete) \cup items.add,
        !.groups = [i \in DOMAIN groups |->
            [groups[i] EXCEPT !.members =
                (@ \ items.delete) \cup (IF First(i) THEN items.add ELSE {})]]]

ProcessSeqItems(profile) ==
    UseSeqGroups(profile.groupItems, UseSeqProxies(profile.proxyItems, profile.config))

-----------------------------------------------------------------------------
(* The settings of the application *)

(* The clash settings overwrite the profile's; a listener that is switched off
   goes, whoever asked for it, and so does the controller's address. *)
MergeDefaultConfig(config, clash, verge) ==
    LET off  == IF verge.socks THEN {} ELSE {"socks-port"}
        kept == Without(clash, off)
    IN Overlay([config EXCEPT !.fields = Without(@, off)],
               IF verge.controller THEN kept ELSE [kept EXCEPT !["external-controller"] = ""])

ApplyBuiltinScripts(config) ==
    IF Get(config.fields, "mode") = "script" THEN Overlay(config, Single("mode", "rule")) ELSE config

(* TUN needs a DNS that answers; one that is not in fake-ip mode is the user's. *)
UseTun(config, enable) ==
    LET ipv6   == Get(config.fields, "ipv6") = TRUE
        fakeIp == Get(config.fields, "dns.enhanced-mode") \in {Absent, "fake-ip"}
        asked  == Over(Single("dns.enable", TRUE), Single("dns.ipv6", ipv6))
        fake   == Single("dns.enhanced-mode", "fake-ip")
        ranges == IF ipv6 THEN Over(fake, Single("dns.range6", "default")) ELSE fake
        dns    == IF enable /\ fakeIp
                    THEN [config EXCEPT !.fields = Over(asked, Over(@, ranges))]
                    ELSE config
    IN Overlay(dns, Single("tun.enable", enable))

\* The DNS page: the fields it sets replace the profile's.
ApplyDnsSettings(config, page, enabled) ==
    LET merged == Overlay(config, page)
        range6 == /\ Get(merged.fields, "dns.ipv6") = TRUE
                  /\ Get(merged.fields, "dns.enhanced-mode") \in {Absent, "fake-ip"}
                  /\ Get(merged.fields, "dns.range6") = Absent
    IN IF ~enabled THEN config
       ELSE IF range6 THEN Overlay(merged, Single("dns.range6", "default")) ELSE merged

-----------------------------------------------------------------------------
(* AuthoritativeFields: captured before the merges and scripts *)

GuiTunKeys(clash) == {"tun.enable"} \cup ({"tun.stack"} \cap DOMAIN clash)

Capture(config, clash, page, enabled) ==
    LET dns == IF enabled THEN DOMAIN page ELSE {}
    IN Only(config.fields, ControlKeys \cup GuiTunKeys(clash) \cup dns)

\* Mutant: what the application owns wins, and what it left out stays as written.
EnforceSetOnly(config, owned) == Overlay(config, owned)

\* A control key the application left out is removed.
Enforce(config, owned) == Overlay([config EXCEPT !.fields = Without(@, ControlKeys)], owned)

\* The owned paths an override moved off the application's value.
Overridden(owned, config) ==
    {path \in DOMAIN owned \cup ControlKeys : Get(config.fields, path) # Get(owned, path)}

-----------------------------------------------------------------------------
(* The merges and scripts of the user *)

UseMerge(merge, config) == Overlay(config, merge)

\* A script that fails leaves what it was given.
UseScript(script, config, fails) ==
    IF fails THEN config
    ELSE Overlay([config EXCEPT !.fields = Without(@, script.drops)], script.writes)

ProcessGlobalItems(item, config, fails)  == UseScript(item.script, UseMerge(item.merge, config), fails)
ProcessProfileItems(item, config, fails) == UseScript(item.script, UseMerge(item.merge, config), fails)

-----------------------------------------------------------------------------
(* What is put right at the end *)

EnsureLanBindAddress(config) ==
    IF Get(config.fields, "allow-lan") = TRUE /\ Get(config.fields, "bind-address") = "loopback"
      THEN Overlay(config, Single("bind-address", "*")) ELSE config

\* Mutant: the groups keep whatever they name.
KeepProxyGroups(config) == config

(* A group loses the providers nobody defines and the members nobody defines,
   unless a provider of its own may still bring them. *)
CleanupProxyGroups(config) ==
    LET allowed == config.proxies \cup NamesOf(config.groups) \cup config.providers \cup Builtin
        Clean(g) == LET use == g.use \cap config.providers IN
            [name |-> g.name, selects |-> g.selects, use |-> use,
             members |-> IF use = {} THEN g.members \cap allowed ELSE g.members]
    IN [config EXCEPT !.groups = [i \in DOMAIN @ |-> Clean(@[i])]]

\* A tunnel through a proxy nobody defines goes without one.
SanitizeTunnelsProxy(config) ==
    [config EXCEPT !.tunnels = @ \cap (config.proxies \cup NamesOf(config.groups) \cup {"DIRECT", "REJECT"})]

-----------------------------------------------------------------------------
(* Config::generate_with_profiles *)

\* The DNS the provider of the profile asks for, which the page would replace.
DnsOverrideSource(profile) == Get(profile.config.fields, "dns.nameserver-policy")

DnsOverrideState(profile, verge) ==
    LET source == DnsOverrideSource(profile)
    IN [source |-> source, requested |-> verge.dns, confirmation |-> verge.confirmed,
        enabled |-> verge.dns /\ source \in {Absent, verge.confirmed}]

AppConfig(profile, clash, verge, page, dns) ==
    LET own == ApplyBuiltinScripts(MergeDefaultConfig(ProcessSeqItems(profile), clash, verge))
    IN ApplyDnsSettings(UseTun(own, verge.tun), page, dns)

\* enhance: the configuration, and the paths the user wrote in vain.
Enhanced(profile, global, clash, verge, page, dns, fails) ==
    LET app     == AppConfig(profile, clash, verge, page, dns)
        owned   == Capture(app, clash, page, dns)
        written == ProcessProfileItems(profile.item, ProcessGlobalItems(global, app, fails), fails)
    IN [config    |-> CleanupProxyGroups(EnsureLanBindAddress(Enforce(written, owned))),
        discarded |-> Overridden(owned, written)]

(* The port borrowed for the session, 0 for none, goes in last: nothing else
   but the core may learn it. *)
Generated(profile, global, clash, verge, page, fallback, fails) ==
    LET dns  == DnsOverrideState(profile, verge)
        done == Enhanced(profile, global, clash, verge, page, dns.enabled, fails)
        safe == SanitizeTunnelsProxy(done.config)
    IN [config |-> IF fallback = 0 THEN safe ELSE Overlay(safe, Single("mixed-port", fallback)),
        dns |-> dns, discarded |-> done.discarded]
================================================================================
