--------------------------- MODULE MCProviderSync ---------------------------
(* Instances of ProviderSync for TLC.  The app starts with one provider; of the
   other profiles one has two sources for its file, the user's own file where
   the second would move, and a key; the other downloads over a file of the user,
   which cannot be collected. *)
EXTENDS ProviderSync, TLC

CONSTANTS t1, t2

TwoTasks == {t1, t2}
List == <<"list">>
Dotted == <<"./list">>
Key == <<"key">>
Outside == <<"../list">>
Http(name, url, path) == [kind |-> "http", name |-> name, url |-> url, path |-> path]
Local(kind, name, path) == [kind |-> kind, name |-> name, url |-> None, path |-> path]

MCPlace == (Dotted :> List @@ Outside :> None)
MCTraverses == {Outside}
MCFiles == {Key, <<List, "two", 0>>, <<"Country.mmdb">>}
MCGeo == {<<"Country.mmdb">>}

Shared == <<Http("p", "one", List), Http("q", "two", Dotted), Local("file", "r", <<List, "two", 0>>),
            Local("key", "k", Key)>>
Uncollected == <<Local("file", "k", Key), Http("p", "one", Key)>>
MCConfigs == {Shared, Uncollected}
Single == <<Http("p", "one", List)>>

=============================================================================
