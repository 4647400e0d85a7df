------------------------------- MODULE Nodes -------------------------------
(***************************************************************************)
(* From node sources to the engine's configuration: parsing of sources     *)
(* and responses and the seven refinement steps (flux-core/subscription.rs),*)
(* nodes.sources and advanced.toml (config.rs), filling of the template's  *)
(* groups and the injected inbounds (engine_config.rs).                    *)
(*                                                                         *)
(* A tag is a sequence of symbols: words, Emoji, Blank and Dot.  What a    *)
(* regular expression does is a set of symbols that it finds.  A URI is    *)
(* the record of what parse_uri looks at.  The conversion of multipliers   *)
(* ("2 倍" to "2x"), percent and base64 decoding are left out: they change *)
(* which tag a node has, and here every tag is possible.                   *)
(***************************************************************************)
EXTENDS Values

CONSTANTS
    Emoji, Blank, Dot,  \* symbols with a meaning of their own
    Templates,      \* template.json: its outbounds, a sequence of [tag, kind, members],
                    \* and the tags of its inbounds, Nil when they are no array
    SourceLists,    \* values of nodes.sources
    AdvancedFiles,  \* advanced.toml
    Replies,        \* a provider's answer: a sequence of outbounds, URIs and Nil
    Provider,       \* remote sources
    MaxU, MaxU32, MaxU16,   \* the largest u64, u32 and u16
    MiB             \* bytes of a MiB

VARIABLES
    template, sources, advanced,    \* the user's files
    available,  \* the response of each provider, or Nil
    generated   \* Nil, or the configuration handed to the engine's check

nodevars == <<template, sources, advanced, available, generated>>

Symbol == STRING \cup {Emoji, Blank, Dot}

\* A node as its source writes it: an outbound, or a URI.
IsUri(node) == "scheme" \in DOMAIN node
WellFormed(node) ==
    /\ node.tag \in Seq(Symbol)
    /\ IF IsUri(node) THEN node.scheme \in STRING ELSE node.kind \in STRING /\ "line" \notin DOMAIN node

ASSUME NodesAssumption ==
    /\ {MaxU, MaxU32, MaxU16, MiB} \subseteq Nat /\ MiB > 0
    /\ {"shadowsocks", "VMess"} \subseteq STRING
    /\ Emoji \notin STRING /\ Blank \notin STRING /\ Dot \notin {Emoji, Blank}
    /\ Nil \notin {"http", "ws", "grpc", "quic", "httpupgrade"} \cup [reality : BOOLEAN]
    /\ \A reply \in Replies : /\ reply \in Seq({reply[i] : i \in DOMAIN reply})
                              /\ \A i \in DOMAIN reply : reply[i] = Nil \/ WellFormed(reply[i])
    /\ \A list \in SourceLists :
          /\ list \in Seq({list[i] : i \in DOMAIN list})
          /\ \A i \in DOMAIN list : IF "id" \in DOMAIN list[i] THEN list[i].id \in Provider
                                   ELSE IsUri(list[i].uri) /\ WellFormed(list[i].uri)
    /\ \A f \in AdvancedFiles : /\ f.max_tag_length \in Nat \cup {Nil}
                                /\ f.rename \in Seq([match : Symbol, replace : Seq(Symbol)])
    /\ \A t \in Templates : \A i \in DOMAIN t.outbounds : DOMAIN t.outbounds[i] = {"tag", "kind", "members"}

ReservedTags == {<<"in4">>, <<"in6">>}
AllNodes == {<<"PROXY">>, <<"GLOBAL">>, <<"AUTO">>}
Direct == <<"DIRECT">>

----------------------------------------------------------------------------
\* One URI: [scheme, host, port, user, pass, transport, security, unsupported, rates, tag, secret].
\* user, pass, secret: whether the URI has a user name, a password, a credential in its query;
\* security: the parameter of that name, of vmess its tls; unsupported: a query parameter that the
\* outbound cannot express; rates: up and down, where it names them, are numbers.  hy2 is hysteria2.

Schemes == {"vmess", "ss", "vless", "trojan", "hysteria", "hysteria2", "tuic", "socks", "http"}

\* endpoint, required_json_port: vmess names its port, which is not 0, the others have a default.
endpoint(u) ==
    LET default == CASE u.scheme = "vmess" -> Nil [] u.scheme = "http" -> 80
                     [] u.scheme = "socks" -> 1080 [] OTHER -> 443
        port == IF u.port = Nil THEN default ELSE u.port
    IN  IF u.host /\ port \in (IF u.scheme = "vmess" THEN 1 ELSE 0)..MaxU16 THEN port ELSE Nil

\* The credential each protocol insists on: where it may be, and where it may not.
Credential(u) ==
    CASE u.scheme \in {"vless", "vmess"} -> u.user
      [] u.scheme = "ss" -> u.user /\ u.pass
      [] u.scheme = "trojan" -> u.user \/ u.pass
      [] u.scheme \in {"hysteria", "hysteria2"} -> u.secret \/ u.user \/ u.pass
      [] u.scheme = "tuic" -> u.user /\ (u.pass \/ u.secret)
      [] OTHER -> TRUE

\* The transports that are none.
Plain == {"", "tcp", "none"}

\* apply_transport and vmess_transport: Nil when the outbound has none, "refused" when
\* the name is not known.  Only these three protocols look at it.
apply_transport(u) ==
    CASE u.scheme \notin {"vless", "vmess", "trojan"} \/ u.transport \in Plain -> Nil
      [] u.scheme \in {"vless", "vmess", "trojan"} /\ u.transport \in {"http", "h2"} -> "http"
      [] u.scheme \in {"vless", "vmess", "trojan"}
            /\ u.transport \in {"ws", "grpc", "quic"} -> u.transport
      [] u.scheme \in {"vless", "trojan"} /\ u.transport = "httpupgrade" -> u.transport
      [] OTHER -> "refused"

\* Mutant of apply_tls: only the security parameter turns TLS on.
apply_tls_Asked(u) ==
    IF u.security \in {"tls", "reality"} THEN [reality |-> u.security = "reality"] ELSE Nil

\* apply_tls: on by default for the protocols that have no other mode.
apply_tls(u) ==
    CASE u.scheme \in {"trojan", "hysteria", "hysteria2", "tuic"} ->
            [reality |-> u.security = "reality"]
      [] u.scheme = "vless" /\ u.security \in {"tls", "reality"} ->
            [reality |-> u.security = "reality"]
      [] u.scheme = "vmess" /\ u.security = "tls" -> [reality |-> FALSE]
      [] OTHER -> Nil

\* base_outbound: the type, and the tag of a URI without a fragment.
Kind(u) == IF u.scheme = "ss" THEN "shadowsocks" ELSE u.scheme
uri_tag(u) == IF u.tag # <<>> THEN u.tag ELSE IF u.scheme = "vmess" THEN <<"VMess">> ELSE <<Kind(u)>>

\* parse_uri: the outbound or Nil.
parse_uri(u) ==
    IF \/ u.scheme \notin Schemes \/ endpoint(u) = Nil \/ ~Credential(u)
       \/ apply_transport(u) = "refused"
       \/ u.scheme \in {"vless", "hysteria2"} /\ u.unsupported
       \/ u.scheme \in {"hysteria", "hysteria2"} /\ ~u.rates
    THEN Nil
    ELSE [kind |-> Kind(u), tag |-> uri_tag(u), port |-> endpoint(u), tls |-> apply_tls(u),
          transport |-> apply_transport(u), line |-> u]

\* parse_subscription: a sing-box document gives its outbounds, a list of URIs what
\* parse_uri makes of each.  Nil stands for an entry or a body that is neither.
parse_subscription(reply) ==
    [i \in DOMAIN reply |->
        IF reply[i] = Nil THEN Nil
        ELSE IF IsUri(reply[i]) THEN parse_uri(reply[i]) ELSE reply[i]]

----------------------------------------------------------------------------
\* Refinement.

Finds(symbols, tag) == Entries(tag) \cap symbols # {}
Keep(tag, dropped) == Only(tag, Entries(tag) \ {dropped})

\* replace_all of one rule, then of all rules in their order.
Replace(tag, rule) == Concat([i \in DOMAIN tag |->
                        IF tag[i] = rule.match THEN rule.replace ELSE <<tag[i]>>])
rename(tag, rules) ==
    LET f[n \in 0..Len(rules)] == IF n = 0 THEN tag ELSE Replace(f[n - 1], rules[n]) IN f[Len(rules)]

\* split_whitespace and join: no blank at either end, one between two words.
normalise_tag(tag) ==
    LET words == {i \in DOMAIN tag : tag[i] # Blank}
        stays(i) == \/ tag[i] # Blank
                    \/ /\ \E j \in words : j < i
                       /\ \E j \in words : j > i
                       /\ tag[i - 1] # Blank
    IN Concat([i \in DOMAIN tag |-> IF stays(i) THEN <<tag[i]>> ELSE <<>>])

truncate_tag(tag, max) ==
    CASE Len(tag) <= max -> tag
      [] Len(tag) > max /\ max <= 3 -> [i \in 1..max |-> Dot]
      [] OTHER -> SubSeq(tag, 1, max - 3) \o <<Dot, Dot, Dot>>

\* Mutant of cleaned: the fallback of an empty tag is forgotten.
cleaned_MayBeEmpty(node, p) ==
    LET renamed == rename(node.tag, p.rename)
        plain == normalise_tag(IF p.strip_emoji THEN Keep(renamed, Emoji) ELSE renamed)
    IN truncate_tag(plain, p.max_tag_length)

\* Steps 3 to 6: rename, strip, normalise (never empty), truncate.
cleaned(node, p) ==
    LET renamed == rename(node.tag, p.rename)
        plain == normalise_tag(IF p.strip_emoji THEN Keep(renamed, Emoji) ELSE renamed)
    IN truncate_tag(IF plain = <<>> THEN <<node.kind>> ELSE plain, p.max_tag_length)

Infrastructure == {"direct", "block", "dns", "selector", "urltest"}

\* Mutant of Selectable: the exclusion looks at the renamed tag.
Selectable_Renamed(node, p) ==
    node.kind \notin Infrastructure /\ ~Finds(p.exclude, rename(node.tag, p.rename))

\* Steps 1 and 2: no infrastructure; the exclusion sees the provider's own tag.
Selectable(node, p) == node.kind \notin Infrastructure /\ ~Finds(p.exclude, node.tag)

\* NodePolicy::groups: step 7, on the final tag.
groups(tag, p) == {g \in DOMAIN p.groups : Finds(p.groups[g], tag)}

\* RefinedNode; outbound is the node as its source wrote it.
RefinedNode(outbound, tag, remote, p) ==
    [outbound |-> outbound, tag |-> tag, remote |-> remote, groups |-> groups(tag, p)]

\* NodePolicy::refine: Nil when an entry is malformed or nothing is left.
refine(outbounds, p) ==
    LET chosen == Only(outbounds, {node \in Entries(outbounds) : Selectable(node, p)}) IN
    IF chosen = <<>> THEN Nil
    ELSE [i \in DOMAIN chosen |-> RefinedNode(chosen[i], cleaned(chosen[i], p), TRUE, p)]

\* NodePolicy::remote; one entry that cannot be read refuses the response.
remote(reply, p) ==
    IF Nil \in Entries(parse_subscription(reply)) THEN Nil ELSE refine(parse_subscription(reply), p)

\* NodePolicy::manual: grouped, and otherwise left as it was written.
manual(u, p) == IF parse_uri(u) = Nil THEN Nil ELSE RefinedNode(parse_uri(u), parse_uri(u).tag, FALSE, p)

----------------------------------------------------------------------------
\* advanced.toml: [timeout, retries, size_mib, retain, max_tag_length, ...], a key that
\* is absent being Nil.

Default(value, default) == IF value = Nil THEN default ELSE value

\* parse_advanced and parse_refinement: the defaults, and what is refused.
parse_advanced(f) ==
    IF \/ f.timeout = 0 \/ Default(f.retries, 2) > MaxU32 \/ f.max_tag_length = 0
       \/ (DOMAIN f.groups) \cap (AllNodes \cup {<<>>}) # {}
       \/ Default(f.size_mib, 4) \notin 1..(MaxU \div MiB) \/ Default(f.retain, 1) > MaxU32
    THEN Nil
    ELSE [timeout |-> Default(f.timeout, 10), retries |-> Default(f.retries, 2),
          max_bytes |-> Default(f.size_mib, 4) * MiB, retain |-> Default(f.retain, 1),
          policy |-> [exclude |-> f.exclude, rename |-> f.rename, strip_emoji |-> f.strip_emoji,
                      max_tag_length |-> Default(f.max_tag_length, 32), groups |-> f.groups]]

----------------------------------------------------------------------------
\* Assembly and generation.

\* parse_nodes: a source is [id] or [uri]; a remote that is named again counts once, a
\* node that cannot be read refuses the file.
Remote(source) == "id" \in DOMAIN source
parse_nodes(list, p) ==
    LET first(i) == ~Remote(list[i]) \/ \A j \in 1..(i - 1) : ~Remote(list[j]) \/ list[j].id # list[i].id
    IN IF \E i \in DOMAIN list : ~Remote(list[i]) /\ manual(list[i].uri, p) = Nil THEN Nil
       ELSE Concat([i \in DOMAIN list |-> IF first(i) THEN <<list[i]>> ELSE <<>>])

\* Mutant of batch: the first missing response makes the sources after it missing.
batch_Suppresses(list, i, p, response) ==
    IF ~Remote(list[i]) THEN <<manual(list[i].uri, p)>>
    ELSE IF \E j \in 1..i : Remote(list[j]) /\ response[list[j].id] = Nil THEN <<>>
    ELSE remote(response[list[i].id], p)

\* What source i contributes: a missing response nothing.
batch(list, i, p, response) ==
    IF ~Remote(list[i]) THEN <<manual(list[i].uri, p)>>
    ELSE IF response[list[i].id] = Nil THEN <<>>
    ELSE remote(response[list[i].id], p)

\* Mutant of Unambiguous: only neighbours are compared.
Unambiguous_Neighbours(nodes) == \A i \in 1..(Len(nodes) - 1) : nodes[i].tag # nodes[i + 1].tag

Unambiguous(nodes) == \A i, j \in DOMAIN nodes : nodes[i].tag = nodes[j].tag => i = j

\* assemble_nodes, in source order: Nil when a response is refused or a tag occurs twice.
assemble_nodes(list, p, response) ==
    LET batches == [i \in DOMAIN list |-> batch(list, i, p, response)] IN
    IF Nil \in Entries(batches) THEN Nil
    ELSE IF Unambiguous(Concat(batches)) THEN Concat(batches) ELSE Nil

IsGroup(o) == o.kind \in {"selector", "urltest"}
Fillable(g) == IsGroup(g) /\ g.members = <<>>

\* Mutant of Members: a group nobody belongs to stays empty.
Members_Empty(g, nodes) ==
    LET chosen == Only(nodes, {n \in Entries(nodes) : g.tag \in AllNodes \/ g.tag \in n.groups})
    IN [i \in DOMAIN chosen |-> chosen[i].tag]

\* An empty group gets every node, or those grouped under its tag, or DIRECT.
Members(g, nodes) ==
    LET chosen == Only(nodes, {n \in Entries(nodes) : g.tag \in AllNodes \/ g.tag \in n.groups})
    IN IF chosen = <<>> THEN <<Direct>> ELSE [i \in DOMAIN chosen |-> chosen[i].tag]

\* generate_from_template: Nil when there is a group to fill and no node at all.
generate_from_template(t, nodes) ==
    IF nodes = <<>> /\ \E i \in DOMAIN t.outbounds : Fillable(t.outbounds[i]) THEN Nil
    ELSE [outbounds |-> [i \in DOMAIN t.outbounds |->
                            IF Fillable(t.outbounds[i])
                            THEN [t.outbounds[i] EXCEPT !.members = Members(t.outbounds[i], nodes)]
                            ELSE t.outbounds[i]],
          nodes |-> nodes, inbounds |-> t.inbounds]

\* The types that unreferenced_node_tags passes over.
Unproxied == {"selector", "urltest", "direct", "block", "dns", ""}

\* unreferenced_node_tags: what the status warns about, the template's own proxies included.
unreferenced_node_tags(config) ==
    LET named == {[tag |-> o.tag, kind |-> o.kind] : o \in Entries(config.outbounds)}
                 \cup {[tag |-> node.tag, kind |-> node.outbound.kind] : node \in Entries(config.nodes)}
    IN  {o.tag : o \in {o \in named : o.kind \notin Unproxied}}
        \ UNION {Entries(g.members) : g \in {o \in Entries(config.outbounds) : IsGroup(o)}}

\* first_reserved_tag: anywhere in the configuration.
first_reserved_tag(config) ==
    ({config.outbounds[i].tag : i \in DOMAIN config.outbounds}
       \cup {config.nodes[i].tag : i \in DOMAIN config.nodes}) \cap ReservedTags

\* Mutant of build_effective: an inbound of the template is merged with Flux's own.
build_effective_Merged(config) ==
    IF config.inbounds = Nil \/ first_reserved_tag(config) # {} THEN Nil
    ELSE [config EXCEPT !.inbounds = config.inbounds \cup ReservedTags]

\* build_effective: Flux's own inbounds and no others, whose tags nobody else may use.
build_effective(config) ==
    IF config.inbounds # {} \/ first_reserved_tag(config) # {} THEN Nil
    ELSE [config EXCEPT !.inbounds = ReservedTags]

\* read_engine_config and build_effective, from the files and the responses.
Candidate_config ==
    LET p == parse_advanced(advanced)
        list == IF p = Nil THEN Nil ELSE parse_nodes(sources, p.policy)
        nodes == IF list = Nil THEN Nil ELSE assemble_nodes(list, p.policy, available)
        config == IF nodes = Nil THEN Nil ELSE generate_from_template(template, nodes)
    IN IF config = Nil THEN Nil ELSE build_effective(config)

----------------------------------------------------------------------------
\* Behaviour.

NodesStart(t, s, f) ==
    /\ template = t /\ sources = s /\ advanced = f
    /\ available = [id \in Provider |-> Nil] /\ generated = Nil

\* The user edits a file, or a provider answers.
EditNodes ==
    /\ Change /\ generated' = Nil
    /\ \/ template' \in Templates \ {template} /\ UNCHANGED <<sources, advanced, available>>
       \/ sources' \in SourceLists \ {sources} /\ UNCHANGED <<template, advanced, available>>
       \/ advanced' \in AdvancedFiles \ {advanced} /\ UNCHANGED <<template, sources, available>>

Respond ==
    /\ Change /\ generated' = Nil
    /\ \E id \in Provider, reply \in Replies : available' = [available EXCEPT ![id] = reply]
    /\ UNCHANGED <<template, sources, advanced>>

\* A candidate is generated; a refused one leaves nothing.
Generate ==
    /\ Candidate_config # generated
    /\ generated' = Candidate_config
    /\ UNCHANGED <<template, sources, advanced, available, changes>>

NodesNext == EditNodes \/ Respond \/ Generate

----------------------------------------------------------------------------
\* Properties.

\* generate_from_template: an accepted configuration has no empty group, and a group
\* that was filled selects nodes that exist, or DIRECT; where there is an all-node group the
\* warning about unreferenced tags is never about a node.
GroupsFilled ==
    generated # Nil =>
        LET tags == {generated.nodes[j].tag : j \in DOMAIN generated.nodes} IN
        \A i \in DOMAIN template.outbounds : Fillable(template.outbounds[i]) =>
            /\ generated.outbounds[i].members # <<>>
            /\ Entries(generated.outbounds[i].members) \subseteq {Direct} \cup tags
            /\ template.outbounds[i].tag \in AllNodes => tags \cap unreferenced_node_tags(generated) = {}

\* refine: what the provider's own tag excludes is never selectable, however the rename
\* rules spell it; exclusion has no say in what the user wrote by hand.
ExcludedNeverOffered ==
    generated # Nil =>
        /\ \A i \in DOMAIN generated.nodes : generated.nodes[i].remote =>
              ~Finds(advanced.exclude, generated.nodes[i].outbound.tag)
        /\ \A k \in DOMAIN sources : ~Remote(sources[k]) =>
              \E i \in DOMAIN generated.nodes :
                 ~generated.nodes[i].remote /\ generated.nodes[i].tag = parse_uri(sources[k].uri).tag

\* assemble_nodes, build_effective: a tag names one node, across sources and after
\* renaming and truncation, and traffic enters by Flux's inbounds alone, which nothing shadows.
TagsUnambiguous ==
    generated # Nil =>
        /\ \A i, j \in DOMAIN generated.nodes : generated.nodes[i].tag = generated.nodes[j].tag => i = j
        /\ {generated.nodes[i].tag : i \in DOMAIN generated.nodes} \cap generated.inbounds = {}
        /\ generated.inbounds = ReservedTags /\ template.inbounds = {}

\* assemble_nodes: a provider that has not answered takes nothing from the others.
OthersContribute ==
    generated # Nil =>
        \A k \in DOMAIN sources : Remote(sources[k]) =>
            LET reply == available[sources[k].id] IN
            reply # Nil => \E i \in DOMAIN generated.nodes, e \in Entries(parse_subscription(reply)) :
                              generated.nodes[i].remote /\ generated.nodes[i].outbound = e

\* refine, parse_refinement: a provider's tag is clean, of the configured length and
\* never empty, whatever the rules leave of it.
ProviderTagsClean ==
    generated # Nil =>
        \A i \in DOMAIN generated.nodes : generated.nodes[i].remote =>
            LET tag == generated.nodes[i].tag IN
            /\ Len(tag) \in 1..Default(advanced.max_tag_length, 32)
            /\ advanced.strip_emoji => Emoji \notin Entries(tag)
            /\ tag[1] # Blank

\* parse_uri: an accepted node has the transport its URI names and TLS where its protocol has no
\* other mode, where vless says tls or reality, and where vmess says tls.  It is not more than that:
\* SecurityPreserved is what the specification of the conversion asks for.
NeverDowngraded ==
    generated # Nil =>
        \A i \in DOMAIN generated.nodes :
            LET node == generated.nodes[i].outbound
                u == node.line
            IN  "line" \in DOMAIN node =>
                    /\ u.scheme \in {"trojan", "tuic", "hysteria", "hysteria2"} => node.tls # Nil
                    /\ u.scheme \in {"vless", "vmess"} /\ u.security = "tls" => node.tls # Nil
                    /\ u.scheme \in {"vless", "trojan", "tuic", "hysteria", "hysteria2"} /\ u.security = "reality"
                         => node.tls # Nil /\ node.tls.reality
                    /\ u.scheme \in {"vless", "vmess", "trojan"} /\ u.transport \notin Plain
                         => node.transport = IF u.transport = "h2" THEN "http" ELSE u.transport

\* "A URI conversion MUST preserve protocol semantics ... never silently converted into ordinary TCP
\* or unencrypted VLESS" (docs/spec/blueprint.md, on the conversion of URIs): a node whose URI names a
\* security has TLS.
SecurityPreserved ==
    generated # Nil =>
        \A i \in DOMAIN generated.nodes :
            LET node == generated.nodes[i].outbound IN
            "line" \in DOMAIN node /\ node.line.security \notin {"", "none"} => node.tls # Nil

\* read_engine_config: the engine is offered what the sources and the user wrote, and no more:
\* through decoding, refinement, assembly and the groups of the template.
PoolIsSound ==
    /\ GroupsFilled /\ ExcludedNeverOffered /\ TagsUnambiguous
    /\ OthersContribute /\ ProviderTagsClean /\ NeverDowngraded
=============================================================================
