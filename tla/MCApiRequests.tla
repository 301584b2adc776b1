---------------------------- MODULE MCApiRequests ----------------------------
(* ApiRequests for TLC: a small file system with links, and what may be asked. *)
EXTENDS ApiRequests, TLC

CONSTANTS s1, s2, h1, h2

Abs(parts) == [abs |-> TRUE, parts |-> parts]

\* /mnt is a link to /data and a root, with another root in it; /data/out leads to /etc, /data/in to /data/a,
\* /data/root to /mnt, /data/self to itself, /data/a/out to /etc.
MCNames == {"mnt", "data", "etc", "a", "b", "c", "d", "f", "x", "gone", "in", "new", "out",
            "root", "self"}
MCDirectories == {<<"data">>, <<"data", "a">>, <<"data", "b">>, <<"data", "a", "c">>,
                  <<"etc">>, <<"etc", "d">>}
Files == {<<"data", "a", "f">>, <<"etc", "x">>}
Links == {<<"mnt">>, <<"data", "a", "out">>, <<"data", "out">>, <<"data", "in">>,
          <<"data", "self">>, <<"data", "root">>}
MCTree == MCDirectories \cup Files \cup Links
MCRoots == {Abs(<<"mnt">>), Abs(<<"mnt", "a", "c">>), Abs(<<"gone">>), Abs(<<>>)}

\* The base paths: h2's data is within what h1's may be.
Reported ==
    {NoPath, [abs |-> FALSE, parts |-> <<"a">>], Abs(<<>>), Abs(<<"mnt">>), Abs(<<"data", "a">>),
     Abs(<<"mnt", "a">>), Abs(<<"mnt", "in">>), Abs(<<"mnt", "out">>), Abs(<<"mnt", "out", "x">>),
     Abs(<<"mnt", "self">>), Abs(<<"mnt", "root">>), Abs(<<"mnt", "new">>),
     Abs(<<"mnt", "a", "f", "x">>), Abs(<<"mnt", "..", "etc">>), Abs(<<"mnt", "a", "out">>)}
Bases(p) == h1 :> p @@ h2 :> Abs(<<"mnt", "a", "c">>)

Browsed ==
    {NoPath, Abs(<<"mnt">>), Abs(<<"data">>), Abs(<<"data", "a">>), Abs(<<"data", "out">>),
     Abs(<<"data", "new">>), Abs(<<"data", "a", "f">>), Abs(<<"data", "..", "etc">>)}

\* Where the paths that come up lead, and what is passed on the way.
MCTarget ==
    <<>> :> <<>> @@ <<"gone">> :> <<"gone">> @@ <<"mnt">> :> <<"data">>
    @@ <<"mnt", "root">> :> <<"data">> @@ <<"mnt", "self">> :> <<"data", "self">>
    @@ <<"mnt", "a">> :> <<"data", "a">> @@ <<"mnt", "in">> :> <<"data", "a">>
    @@ <<"mnt", "a", "c">> :> <<"data", "a", "c">> @@ <<"mnt", "new">> :> <<"data", "new">>
    @@ <<"mnt", "a", "f", "x">> :> <<"data", "a", "f", "x">>
    @@ <<"mnt", "out">> :> <<"etc">> @@ <<"mnt", "out", "x">> :> <<"etc", "x">>
    @@ <<"mnt", "a", "out">> :> <<"etc">> @@ <<"data", "out">> :> <<"etc">>
    @@ <<"data">> :> <<"data">> @@ <<"data", "a">> :> <<"data", "a">>
    @@ <<"data", "a", "c">> :> <<"data", "a", "c">> @@ <<"data", "a", "f">> :> <<"data", "a", "f">>
    @@ <<"data", "a", "f", "x">> :> <<"data", "a", "f", "x">>
    @@ <<"data", "new">> :> <<"data", "new">> @@ <<"data", "self">> :> <<"data", "self">>
    @@ <<"etc">> :> <<"etc">> @@ <<"etc", "x">> :> <<"etc", "x">>
Lead == {<<"mnt">>, <<"data">>}
Passed(path) == {SubSeq(path, 1, n) : n \in 1..Len(path)}
MCVisited ==
    <<>> :> {} @@ <<"gone">> :> {<<"gone">>} @@ <<"mnt">> :> Lead
    @@ <<"mnt", "root">> :> Lead \cup {<<"data", "root">>}
    @@ <<"mnt", "self">> :> Lead \cup {<<"data", "self">>}
    @@ <<"mnt", "a">> :> Lead \cup {<<"data", "a">>}
    @@ <<"mnt", "in">> :> Lead \cup {<<"data", "in">>, <<"data", "a">>}
    @@ <<"mnt", "a", "c">> :> Lead \cup {<<"data", "a">>, <<"data", "a", "c">>}
    @@ <<"mnt", "new">> :> Lead \cup {<<"data", "new">>}
    @@ <<"mnt", "a", "f", "x">> :> Lead \cup {<<"data", "a">>, <<"data", "a", "f">>}
    @@ <<"mnt", "out">> :> Lead \cup {<<"data", "out">>, <<"etc">>}
    @@ <<"mnt", "out", "x">> :> Lead \cup {<<"data", "out">>, <<"etc">>, <<"etc", "x">>}
    @@ <<"mnt", "a", "out">> :> Lead \cup {<<"data", "a">>, <<"data", "a", "out">>, <<"etc">>}
    @@ <<"data">> :> Passed(<<"data">>) @@ <<"data", "a">> :> Passed(<<"data", "a">>)
    @@ <<"data", "a", "c">> :> Passed(<<"data", "a", "c">>)
    @@ <<"data", "a", "f">> :> Passed(<<"data", "a", "f">>)
    @@ <<"data", "a", "f", "x">> :> Passed(<<"data", "a", "f">>)
    @@ <<"data", "new">> :> Passed(<<"data", "new">>)
    @@ <<"data", "self">> :> Passed(<<"data", "self">>)
    @@ <<"data", "out">> :> {<<"data">>, <<"data", "out">>, <<"etc">>}
    @@ <<"etc">> :> Passed(<<"etc">>) @@ <<"etc", "x">> :> Passed(<<"etc", "x">>)
MCImpassable ==
    {<<"mnt", "self">>, <<"data", "self">>, <<"mnt", "a", "f", "x">>, <<"data", "a", "f", "x">>}

Named(name) == [name |-> name, star |-> FALSE]
MCDefaultDeny == {[name |-> <<"execute">>, star |-> TRUE]}

Plain == [hosts |-> {}, auth |-> "none", passthrough |-> TRUE, proxy |-> TRUE, allow |-> {},
          deny |-> {}, deleteWithData |-> TRUE, mock |-> FALSE, browse |-> TRUE]
MCConfigs ==
    {Plain,
     [Plain EXCEPT !.hosts = {"ours"}, !.auth = "basic", !.deny = {Named(<<"d.name">>)},
                   !.allow = {Named(<<"execute", "raw">>), Named(<<"d.name">>), Named(<<"d.up">>)}],
     [Plain EXCEPT !.passthrough = FALSE, !.proxy = FALSE, !.deleteWithData = FALSE,
                   !.browse = FALSE],
     [Plain EXCEPT !.mock = TRUE]}

\* A request with nothing the matter with it, and what may be the matter.
Good(route, hash) ==
    [route |-> route, hash |-> hash, host |-> "ours", origin |-> "same", referer |-> "absent",
     known |-> TRUE, form |-> "good", name |-> <<"d.up">>, path |-> NoPath]
Odd(q) ==
    {[q EXCEPT !.host = "theirs"], [q EXCEPT !.known = FALSE], [q EXCEPT !.origin = "other"],
     [q EXCEPT !.origin = "absent", !.referer = "other"], [q EXCEPT !.origin = "absent"],
     [q EXCEPT !.form = "malformed"], [q EXCEPT !.form = "dollar"]}
Goods == {Good(route, h1) : route \in Routes}
          \cup {[Good("browse", h1) EXCEPT !.path = p] : p \in Browsed}
Guarded == UNION {Odd(Good(route, h1)) : route \in Routes}
           \cup {[Good("rpc", h1) EXCEPT !.name = n] :
                     n \in {<<"d.name">>, <<"execute">>, <<"execute", "raw">>, <<"load">>}}
Rival == {Good("erase", h1), Good("eraseData", h1), Good("eraseData", h2), Good("add", h1)}

MCSlots == {s1, s2}
MCHashes == {h1, h2}

World(c, p, q, r) == [cfg |-> c, base |-> Bases(p), req |-> s1 :> q @@ s2 :> r]
MCWorlds ==
    {World(c, Abs(<<"mnt", "a">>), q, Good("eraseData", h2)) : c \in MCConfigs, q \in Goods}
    \cup {World(c, Abs(<<"mnt", "a">>), q, Good("erase", h2)) : c \in MCConfigs, q \in Guarded}
    \cup {World(Plain, p, Good("eraseData", h1), r) : p \in Reported, r \in Rival}
=============================================================================
