------------------------------ MODULE MCParts ------------------------------
EXTENDS Policy, Nodes, Netlink, Topology, Install, Process, Loader, Watch, Logger, UidTable, TLC

\* The parts do not share state: one of them moves in each behaviour.
VARIABLE part

App(user, pkg) == [bare |-> FALSE, user |-> user, pkg |-> pkg]
Bare(pkg) == [bare |-> TRUE, user |-> 0, pkg |-> pkg]
Prefix(a, n) == [addr |-> a, len |-> n]
Line(pkg, uid) == [pkg |-> pkg, uid |-> uid]
Toml(apps_mode, apps, cidr_mode, cidrs) ==
    [apps |-> [mode |-> apps_mode, list |-> apps], cidr |-> [mode |-> cidr_mode, list |-> cidrs]]

MCFixed == {Prefix(0, 2), Prefix(7, 3)}
MCDocuments ==
    {Toml("whitelist", <<Bare("a")>>, "blacklist", <<Prefix(4, 1)>>),
     Toml("blacklist", <<App(1, "a")>>, "absent", <<>>),
     Toml("whitelist", <<App(1, "sys"), Bare("b")>>, "whitelist", <<Prefix(0, 3), Prefix(5, 3), Prefix(4, 1)>>),
     Toml("whitelist", <<FileRef>>, "whitelist", <<FileRef, Prefix(4, 1)>>),
     Toml("blacklist", <<Bare("a"), App(0, "a")>>, "blacklist", <<Prefix(5, 2)>>)}
MCListFiles == {[apps |-> <<>>, cidr |-> <<Prefix(0, 2)>>], [apps |-> <<Bare("b"), App(0, "sys")>>, cidr |-> <<>>],
                [apps |-> <<Bare("b")>>, cidr |-> <<FileRef>>]}
MCPackages == {<<Line("sys", 1), Line("a", 3), Line("b", 4)>>,
               <<Line("sys", 0), Line("a", 11), Line("b", 3)>>,
               <<Line("a", 3), Line("a", 5), Line("b", 6)>>}
At(a, privacy) == [addr |-> a, usable |-> TRUE, privacy |-> privacy]
MCDumps == {{}, {At(5, TRUE), At(6, TRUE)}, {At(4, TRUE), At(5, TRUE), At(6, TRUE)},
            {At(4, FALSE), At(4, TRUE), At(5, TRUE), At(6, TRUE)},
            {[addr |-> 4, usable |-> FALSE, privacy |-> TRUE], At(5, FALSE), At(6, FALSE), At(3, FALSE)}}

Uri(scheme, tag, transport, security) ==
    [scheme |-> scheme, host |-> TRUE, port |-> 1, user |-> TRUE, pass |-> TRUE, transport |-> transport,
     security |-> security, unsupported |-> FALSE, rates |-> TRUE, tag |-> tag, secret |-> FALSE]
Group(tag, kind, members) == [tag |-> tag, kind |-> kind, members |-> members]
Outbound(kind, tag) == [kind |-> kind, tag |-> tag]
Template(outbounds, inbounds) == [outbounds |-> outbounds, inbounds |-> inbounds]
MCTemplates ==
    {Template(<<Group(<<"PROXY">>, "selector", <<>>), Group(<<"hk">>, "urltest", <<>>), Group(Direct, "direct", <<>>)>>, {}),
     Template(<<Group(<<"jp">>, "selector", <<>>), Group(<<"x">>, "selector", <<Direct>>), Group(<<"B">>, "vless", <<>>)>>, {}),
     Template(<<Group(<<"x">>, "selector", <<Direct>>)>>, {<<"own">>}), Template(<<>>, Nil),
     Template(<<Group(<<"in4">>, "selector", <<Direct>>)>>, {})}
MCSources ==
    {<<[id |-> 1], [id |-> 2], [id |-> 1], [uri |-> Uri("trojan", <<"Traffic">>, "tcp", "")]>>,
     <<[uri |-> Uri("vless", <<"A">>, "httpupgrade", "reality")], [id |-> 1], [id |-> 2]>>,
     <<[uri |-> [Uri("vmess", <<"A">>, "h2", "tls") EXCEPT !.port = MaxU16 + 1]]>>,
     <<[uri |-> Uri("vless", <<"A">>, "", "xtls")], [uri |-> Uri("vmess", <<>>, "h2", "tls")]>>,
     <<[id |-> 2], [uri |-> [Uri("tuic", <<"in4">>, "", "") EXCEPT !.port = Nil]], [id |-> 1]>>}
File(rules, emoji, length) ==
    [timeout |-> Nil, retries |-> Nil, size_mib |-> Nil, retain |-> Nil, max_tag_length |-> length,
     exclude |-> {"Traffic"}, rename |-> rules, strip_emoji |-> emoji,
     groups |-> (<<"hk">> :> {"HK"}) @@ (<<"jp">> :> {"JP"})]
Rule(match, replace) == [match |-> match, replace |-> replace]
MCAdvanced ==
    {File(<<>>, TRUE, Nil), File(<<Rule("Traffic", <<"HK">>), Rule("JP", <<>>)>>, TRUE, 4), File(<<>>, FALSE, 0),
     [File(<<Rule("A", <<"in4">>)>>, FALSE, 2) EXCEPT !.size_mib = 5], [File(<<>>, TRUE, 3) EXCEPT !.timeout = 0],
     File(<<Rule("A", <<"in4">>)>>, FALSE, 2), [File(<<>>, TRUE, 3) EXCEPT !.groups = <<"AUTO">> :> {"A"}]}
MCReplies ==
    {<<Outbound("vmess", <<Emoji, "HK", Blank, Blank, "1">>), Outbound("direct", <<"A">>)>>,
     <<Outbound("trojan", <<"Traffic">>), Outbound("vless", <<Blank, "JP">>)>>,
     <<Uri("hysteria2", <<"A">>, "", ""), Outbound("ss", <<Emoji>>), Uri("vless", <<>>, "ws", "tls")>>,
     <<Uri("trojan", <<"B">>, "grpc", "reality"), Uri("http", <<"1", "2", "3", "4", "5">>, "", "tls")>>,
     <<[Uri("hysteria", <<"B">>, "", "") EXCEPT !.rates = FALSE]>>,
     <<[Uri("vless", <<"A">>, "", "") EXCEPT !.unsupported = TRUE]>>,
     <<Outbound("ss", <<"B">>), Nil>>, <<[Uri("ss", <<"A">>, "", "") EXCEPT !.pass = FALSE]>>}

Item(n, family, uid) == [id |-> n, family |-> family, uid |-> uid, live |-> n # 3]
MCItems == {Item(1, 1, 5), Item(2, 1, 6), Item(3, 2, 5), Item(4, 2, 0), Item(5, 2, 5)}

\* What a manager may find: nothing, a former data plane, half of one, and things of others.
Pair(alias) == [NewPair(1) EXCEPT !.alias = alias]
Leftover == [Net0 EXCEPT !.pair = [Pair({"host", "peer"}) EXCEPT !.up = {"host", "peer"}, !.gen = TRUE, !.clsact = "exact"],
                         !.ids = 2, !.rule = [f \in Fam |-> Own], !.route = [f \in Fam |-> Own],
                         !.filter = [s \in Slot |-> "own"]]
MCNets == {Net0, Leftover, [Leftover EXCEPT !.pair = Nil], [Leftover EXCEPT !.filter[1] = "odd"],
           [Leftover EXCEPT !.rule[6] = {}, !.pair.clsact = "odd"],
           [Net0 EXCEPT !.pair = Pair({"host"}), !.ids = 2], [Net0 EXCEPT !.rule[4] = {"foreign"}]}

Keys(v) == [k \in Key |-> v]
Old(url, v, stray) == [url |-> url, keys |-> Keys(v), stray |-> stray]
Main(old, list, remotes, mode) == [subscription |-> old, list |-> list, sources |-> remotes, mode |-> mode]
MCDefaultMain == Main(Nil, Nil, <<>>, "blacklist")
MCDefaultAdvanced == Keys(3)
MCMains == {Main(Old("u", 1, FALSE), Nil, Nil, Nil), Main(Nil, Nil, <<"u">>, "whitelist"),
            Main(Nil, Nil, <<>>, Nil), Main(Nil, Nil, Nil, Nil)}
MCFiles ==
    [main : MCMains \cup {Nil, Main(Old(Nil, 0, FALSE), <<"u", "v">>, Nil, "blacklist"),
                          Main(Old("u", Nil, FALSE), <<"v">>, <<"v", "u">>, "whitelist"),
                          Main(Old("u", 1, TRUE), Nil, Nil, Nil), Main(Old("u", 1, FALSE), Nil, <<"v">>, Nil)},
     advanced : {Nil, Keys(1), Keys(2)}, template : {Nil, "template"}, url : {Nil, "u"},
     raw : {"response", "garbage"}, cache : {Nil, "other"}, oldlog : {Nil, "log"}]
MCStarts ==
    {f \in MCFiles : /\ f.main = Nil => f.url = Nil /\ f.advanced # Keys(2)
                     /\ f.template = Nil => f.main \in MCMains \cup {Nil} /\ f.oldlog = Nil
                     /\ f.raw = "garbage" => f.url = "u" /\ f.template # Nil /\ f.cache = Nil
                     /\ f.cache # Nil => f.advanced = Nil /\ f.template # Nil
                     /\ f.oldlog # Nil => f.advanced = Nil}

MCRunFiles == {{}, {<<1, "whole">>, <<2, "partial">>}, {<<1, "partial">>}, {<<1, "foreign">>}}

Release(major, minor, android, rest) == [major |-> major, minor |-> minor, android |-> android, rest |-> rest]
MCReleases == {Release(5, 15, Nil, "q"), Release(5, 15, 13, "a"), Release(6, 1, 13, "a"), Release(4, 9, Nil, "q")}
Ko(minor, build, magic) == [line |-> GkiLine(13, 5, minor), build |-> build, magic |-> magic]
PlainKo == Ko(15, Nil, Release(5, 15, 13, "a"))
LaterKo == Ko(15, 2, Release(5, 15, 13, "b"))
FirstKo == Ko(15, 1, Nil)
WrongKo == Ko(15, Nil, Release(6, 6, Nil, "c"))
LongerKo == Ko(150, Nil, Release(5, 150, 13, "a"))
MCKmodDirs == {<<>>, <<LongerKo>>, <<LaterKo, PlainKo>>, <<PlainKo, LaterKo>>, <<LongerKo, LaterKo, FirstKo>>,
               <<FirstKo, LaterKo>>, <<LaterKo, LongerKo>>, <<WrongKo, FirstKo>>}
OlderLkm == [Absent EXCEPT !.resident = TRUE, !.ready = TRUE]
MCLkms == {Absent, OlderLkm, [OlderLkm EXCEPT !.ready = FALSE, !.answers = TRUE],
           [OlderLkm EXCEPT !.answers = TRUE, !.holder = "other"]}

MCLogPolicies == {[max_bytes |-> 2, retain |-> 2], [max_bytes |-> 1, retain |-> 3], [max_bytes |-> 2, retain |-> 0]}
MCRequests == {<<3, 1>>, <<2, 0, 2>>, <<3, 1, 2>>, <<9, 4, 1>>, <<1, 2, 3, 4>>}

Some(S) == CHOOSE x \in S : TRUE

AllParts ==
    {"policy", "nodes", "netlink", "topology", "install", "process", "loader", "watch", "logger", "uids"}

Init ==
    /\ changes = 0 /\ part \in AllParts
    /\ IF part = "policy"
       THEN \E d \in Documents, l \in ListFiles, p \in PackageLists, a \in AddressDumps : PolicyStart(d, l, p, a)
       ELSE PolicyStart(Some(Documents), Some(ListFiles), Some(PackageLists), {})
    /\ IF part = "nodes"
       THEN \E t \in Templates, s \in SourceLists, f \in AdvancedFiles : NodesStart(t, s, f)
       ELSE NodesStart(Some(Templates), <<>>, Some(AdvancedFiles))
    /\ IF part = "netlink"
       THEN \E u \in {"watch", "probe", "destroy"}, t \in SUBSET Items : NetlinkStart(u, t)
       ELSE NetlinkStart("watch", {})
    /\ IF part = "topology" THEN \E n \in MCNets : TopologyStart(n) ELSE TopologyStart(Net0)
    /\ IF part = "process" THEN \E old \in MCRunFiles : ProcessStart(old) ELSE ProcessStart({})
    /\ IF part = "loader"
       THEN \E r \in Releases, d \in KmodDirs, k \in MCLkms : LoaderStart(r, d, k)
       ELSE LoaderStart(Some(Releases), <<>>, Absent)
    /\ IF part = "watch" THEN \E switch \in {"absent", "present", "unreadable"} : WatchStart(switch) ELSE WatchStart("absent")
    /\ IF part = "logger" THEN \E p \in LogPolicies : LoggerStart(p) ELSE LoggerStart(Some(LogPolicies))
    /\ UidStart
    /\ IF part = "install"
       THEN \E f \in MCStarts, flag \in BOOLEAN, d \in {"ok", "drift", "alien"}, h \in {"none", "daemon"} :
              /\ d # "ok" => h = "none" /\ f.main = Nil
              /\ InstallStart(f, d, h, flag)
       ELSE InstallStart([f \in Files |-> Nil], "ok", "none", FALSE)

Next ==
    /\ UNCHANGED part
    /\ \/ part = "policy" /\ PolicyNext
       \/ part = "nodes" /\ NodesNext
       \/ part = "netlink" /\ NetlinkNext
       \/ part = "topology" /\ TopologyNext
       \/ part = "install" /\ InstallNext
       \/ part = "process" /\ ProcessNext /\ UNCHANGED changes
       \/ part = "loader" /\ LoaderNext /\ UNCHANGED changes
       \/ part = "watch" /\ WatchNext /\ UNCHANGED changes
       \/ part = "logger" /\ LoggerNext /\ UNCHANGED changes
       \/ part = "uids" /\ UidNext /\ UNCHANGED changes
    /\ (IF part = "policy" THEN TRUE ELSE UNCHANGED policyvars)
    /\ (IF part = "nodes" THEN TRUE ELSE UNCHANGED nodevars)
    /\ (IF part = "netlink" THEN TRUE ELSE UNCHANGED netvars)
    /\ (IF part = "topology" THEN TRUE ELSE UNCHANGED topovars)
    /\ (IF part = "install" THEN TRUE ELSE UNCHANGED instvars)
    /\ (IF part = "process" THEN TRUE ELSE UNCHANGED procvars)
    /\ (IF part = "loader" THEN TRUE ELSE UNCHANGED loadvars)
    /\ (IF part = "watch" THEN TRUE ELSE UNCHANGED watchvars)
    /\ (IF part = "logger" THEN TRUE ELSE UNCHANGED logvars)
    /\ (IF part = "uids" THEN TRUE ELSE UNCHANGED uidvars)

Spec == Init /\ [][Next]_<<policyvars, nodevars, netvars, topovars, instvars, procvars, loadvars, watchvars, logvars,
        uidvars, changes, part>>
=============================================================================
