---------------------------- MODULE RuntimeBundle ----------------------------
(* What a configuration asks of the runtime directory the Service runs a core
   in (core/runtime_bundle.rs): which files are copied there, which the core
   downloads there, and under which names.  A configuration is the sequence of
   its providers and of its file-based ssh keys, proxy providers first.

   A destination is <<name>>, or <<origin, source, n>> for the n-th name made
   out of the digest of an origin and a source.  A path is a destination, or
   another spelling of one: `Place` is where that leads below the home directory. *)
EXTENDS Integers, Sequences, FiniteSets, SequencesExt

CONSTANTS
    None,        \* no url, or no destination
    Place,       \* other spelling -> destination, None when it is outside
    Traverses,   \* paths that contain a `..`
    Files,       \* destinations with a file the user put there
    Geo          \* GEO_ASSETS, as destinations

ASSUME PlaceAssumption == Traverses \subseteq DOMAIN Place /\ None \notin Files

Leads(path) == IF path \in DOMAIN Place THEN Place[path] ELSE path

IsRemote(p) == p.kind = "http"
Available(p) == Leads(p.path) \in Files
Downloads(p) == IsRemote(p) /\ p.url # None

\* provider_destination: lexical, so it refuses a `..` that stays below the root.
ProviderDestination(p) == IF p.path \in Traverses THEN None ELSE Leads(p.path)

\* Where a provider keeps its file: a local one where its path really leads.
Destination(p) == IF ~IsRemote(p) /\ Available(p) THEN Leads(p.path) ELSE ProviderDestination(p)

IsProvider(p) == p.kind \in {"http", "file"}
Owners(config, d) == {i \in DOMAIN config : IsProvider(config[i]) /\ Destination(config[i]) = d}
Urls(config, d) == {config[i].url : i \in Owners(config, d)}

\* allocate_provider_destination
Allocate(origin, source, reserved) ==
    LET free == {n \in 0 .. Cardinality(reserved) : <<origin, source, n>> \notin reserved}
    IN <<origin, source, CHOOSE n \in free : \A k \in free : n <= k>>

\* Only the databases are in the way of a name that is made up.
ReservedForGeo(config) == Geo

Reserved(config) ==
    Geo \cup ({Destination(config[i]) : i \in {j \in DOMAIN config : IsProvider(config[j])}} \ {None})

\* Only downloads, from several sources.
Conflicting(config, d) ==
    /\ \A i \in Owners(config, d) : Downloads(config[i])
    /\ Cardinality(Urls(config, d)) >= 2

\* resolve_provider_path_conflicts: every source of a conflict moves.
ResolveProviderPathConflicts(config) ==
    [i \in DOMAIN config |->
        LET p == config[i]
            d == Destination(p) IN
        IF IsProvider(p) /\ d # None /\ Conflicting(config, d)
        THEN [p EXCEPT !.path = Allocate(d, p.url, Reserved(config))]
        ELSE p]

-----------------------------------------------------------------------------
Remote(p) == [name |-> p.name, destination |-> ProviderDestination(p), url |-> p.url]
Refused(parts) == [parts EXCEPT !.refused = TRUE]
Copied(parts, source, destination) ==
    [parts EXCEPT !.assets = @ \cup {[source |-> source, destination |-> destination]},
                  !.destinations = @ \cup {destination}]

\* collect_provider_assets, one provider.
CollectRemote(parts, p) ==
    LET d == ProviderDestination(p)
        declared == {r \in parts.remote : r.destination = d} IN
    IF \/ d = None
       \/ \E r \in declared : r.url # p.url
       \/ declared = {} /\ d \in parts.destinations
    THEN Refused(parts)
    ELSE IF declared # {} THEN parts
    ELSE [parts EXCEPT !.remote = @ \cup {Remote(p)}, !.destinations = @ \cup {d}]

CollectLocal(parts, p) ==
    IF ~Available(p) \/ Leads(p.path) \in parts.destinations THEN parts
    ELSE Copied(parts, p.path, Leads(p.path))

\* collect_ssh_private_keys, one key.
CollectKey(parts, p) ==
    IF ~Available(p) THEN parts
    ELSE Copied(parts, p.path, Allocate(<<"ssh-private-key">>, Leads(p.path), parts.destinations))

\* collect_runtime_parts: providers, then keys, then the databases nothing shadows.
CollectRuntimeParts(config) ==
    LET none == [refused |-> FALSE, destinations |-> {}, assets |-> {}, remote |-> {}]
        Collect(parts, p) ==
            IF parts.refused THEN parts
            ELSE CASE Downloads(p) -> CollectRemote(parts, p)
                   [] p.kind = "file" -> CollectLocal(parts, p)
                   [] p.kind = "key" -> CollectKey(parts, p)
                   [] OTHER -> parts
        parts == FoldLeft(Collect, none, config)
    IN IF parts.refused THEN parts
       ELSE [parts EXCEPT !.assets = @ \cup
                {[source |-> g, destination |-> g] : g \in (Geo \cap Files) \ parts.destinations}]

-----------------------------------------------------------------------------
(* Two sources never meet in one file: what is copied and what is downloaded
   lie apart, and a configuration is refused for nothing but a download over a
   file the user put there or onto a path that leaves the directory.  A source
   that is moved out of a conflict meets no other where it goes, and moving is
   done once. *)
OneSourceIn(config) ==
    LET resolved == ResolveProviderPathConflicts(config)
        parts == CollectRuntimeParts(resolved)
        Clash(p) ==
            \/ ProviderDestination(p) = None
            \/ \E i \in Owners(resolved, ProviderDestination(p)) : ~Downloads(resolved[i])
    IN /\ ResolveProviderPathConflicts(resolved) = resolved
       /\ \A i \in DOMAIN config : resolved[i].path # config[i].path =>
            \A j \in Owners(resolved, Destination(resolved[i])) : resolved[j].url = resolved[i].url
       /\ parts.refused => \E i \in DOMAIN resolved : Downloads(resolved[i]) /\ Clash(resolved[i])
       /\ ~parts.refused =>
            /\ \A r, s \in parts.remote : r.destination = s.destination => r = s
            /\ \A r \in parts.remote, a \in parts.assets : r.destination # a.destination
            /\ \A a, b \in parts.assets : a.destination = b.destination => a = b
            /\ \A i \in DOMAIN resolved : Downloads(resolved[i]) =>
                 \E r \in parts.remote :
                    r.url = resolved[i].url /\ r.destination = ProviderDestination(resolved[i])

=============================================================================
