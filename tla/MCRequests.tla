----------------------------- MODULE MCRequests -----------------------------
(***************************************************************************)
(* Model-checking instance of Requests, in batches: small datasets under   *)
(* every selector, two members of a view, dotted names, patterns of four   *)
(* characters, two sources with every kind of endpoint, trees of up to     *)
(* three declarations, four instances that read from each other, three     *)
(* credentials.                                                            *)
(***************************************************************************)
EXTENDS Requests

(* Reads of sources and views. *)

Num(n) == [num |-> n, text |-> 10 - n]
Word(t) == [num |-> NaN, text |-> t]
Var(n) == <<"os">> :> Num(n)

Query == [host |-> None, patterns |-> None, group |-> None, filter |-> {}, limit |-> None, offset |-> 0,
          fields |-> None, exclude |-> <<>>, groups |-> "all", refresh |-> FALSE]

Group(hosts, children) == [hosts |-> hosts, children |-> children, vars |-> None]

Datasets ==
    {[hostvars |-> [h \in known |-> Var(h)],
      groups |-> [a |-> Group(a, IF cycle THEN {"c"} ELSE {}), b |-> Group({3}, {"a"}), c |-> Group({}, {"b"})]] :
        known \in {{}, {2}, {1, 2}, {1, 2, 3}}, a \in SUBSET (1..3), cycle \in BOOLEAN}

Selectors ==
    {[Query EXCEPT !.host = h, !.patterns = p, !.group = g, !.filter = f] :
        h \in {None, {1, 2}}, p \in {None, {2, 3}}, g \in {None, {"a"}, {"a", "b"}},
        f \in {{}, {[key |-> <<"os">>, op |-> ">=", value |-> Num(2)]},
              {[key |-> <<"os">>, op |-> ">", value |-> EmptyText]}}}

SourceQueries ==
    Selectors
    \cup {[s EXCEPT !.limit = l, !.offset = o, !.groups = "matching", !.refresh = (l = 0)] :
             s \in {x \in Selectors : x.filter = {}}, l \in 0..2, o \in {0, 1}}
    \cup {[s EXCEPT !.groups = m] : s \in Selectors, m \in {"matching", "none"}}

SourceRequests ==
    {[what |-> "source", dataset |-> d, refreshable |-> TRUE, q |-> q] : d \in Datasets, q \in SourceQueries}
    \cup {[what |-> "source", dataset |-> None, refreshable |-> q.patterns # None, q |-> q] : q \in SourceQueries}

\* The members' data tells whose it is; the inventory knows all three hosts.
Inventory == [hostvars |-> [h \in 1..2 |-> Var(0)], groups |-> [a |-> Group({1, 2}, {}), b |-> Group({2, 3}, {})]]
Data(i, hosts) == [hostvars |-> [h \in hosts |-> Var(i)],
                   groups |-> [a |-> [hosts |-> hosts, children |-> {}, vars |-> Var(i)]]]

Owns(groups, hosts, advertised) == [groups |-> groups, hosts |-> hosts, advertised |-> advertised]
Declared == {Owns({"a"}, {}, FALSE), Owns({"b"}, {1}, FALSE), Owns({}, {}, FALSE),
             Owns({}, {}, TRUE), Owns({}, {3}, TRUE)}
ClaimOf(source) == SourceClaim(source)
Claimed == {None, ClaimOf([explicit |-> None, gathers |-> [groups |-> {}, hosts |-> {}]]),
            ClaimOf([explicit |-> [groups |-> {"b"}, hosts |-> {}], gathers |-> None])}

Member(i) ==
    {[entry |-> e, inventory |-> inv, declared |-> o, claim |-> c,
      age |-> i, fresh |-> (i = 1), ttl |-> 2, hostTtls |-> 3 :> 1, groupTtls |-> "a" :> 2 @@ "z" :> 1,
      refreshable |-> (i = 1)] :
        e \in {None, Data(i, {1}), Data(i, {1, 2, 3})}, inv \in {None, Inventory}, o \in Declared, c \in Claimed}

ViewQueries ==
    {[Query EXCEPT !.host = h, !.group = g, !.filter = f, !.refresh = (f # {})] :
        h \in {None, {1, 3}}, g \in {None, {"a"}},
        f \in {{}, {[key |-> <<"os">>, op |-> "<", value |-> Num(2)]}}}
    \cup {[Query EXCEPT !.filter = {[key |-> <<"os">>, op |-> "<", value |-> Num(2)]}]}

ViewRequests ==
    {[what |-> "view", members |-> <<m, n>>, ttl |-> IF q.group = None THEN None ELSE 1, q |-> q] :
        m \in {x \in Member(1) : x.declared.advertised \/ x.claim = None},
        n \in {x \in Member(2) : x.declared.advertised \/ x.claim = None}, q \in ViewQueries}

OfEverything(d) ==
    [CHOOSE m \in Member(1) : m.declared = Owns({}, {}, FALSE) EXCEPT !.entry = d, !.inventory = d]

StatusRequests ==
    {[what |-> "status", of |-> r, members |-> <<m, n>>, ttl |-> t, q |-> [Query EXCEPT !.host = h, !.group = g]] :
        r \in {"source", "view"}, m \in {x \in Member(1) : x.inventory # None}, n \in {x \in Member(2) : x.claim = None},
        t \in {None, 3}, h \in {None, {1, 3}}, g \in {None, {"a"}}}
    \cup {[what |-> "status", of |-> r, members |-> <<OfEverything(d)>>, ttl |-> None, q |-> [Query EXCEPT !.group = g]] :
        r \in {"source", "view"}, d \in Datasets, g \in {None, {"a"}, {"a", "b"}}}
GroupRequests ==
    {[what |-> "groups", of |-> r, members |-> <<m, n>>, group |-> g] :
        r \in {"source", "view"}, m \in {x \in Member(1) : x.inventory # None}, n \in {x \in Member(2) : x.claim = None},
        g \in {"a", "z"}}
    \cup {[what |-> "groups", of |-> r, members |-> <<OfEverything(d)>>, group |-> "b"] :
        r \in {"source", "view"}, d \in Datasets}

Names == {<<"a">>, <<"b">>, <<"a", "b">>, <<"a", "c">>, <<"a", "b", "c">>}
Values == {Num(1), ObjectOf([b |-> Num(2), c |-> Num(3)]), ObjectOf([b |-> ObjectOf([c |-> Num(4), d |-> Num(5)])])}
\* The values are those of Values, what is left of them and what is in them.
Some(key, values) == {<<>>} \cup [{key} -> values]
Objects(b, bs, c, cs) == {ObjectOf(Over(f, g)) : f \in Some(b, bs), g \in Some(c, cs)}
Inner == Objects("c", {Num(3), Num(4)}, "d", {Num(5)})
SmallValues == {Num(n) : n \in 1..7} \cup Inner \cup Objects("b", {Num(2)} \cup Inner, "c", {Num(3)})

VarSets == {<<"a">> :> v @@ <<"b">> :> Num(6) : v \in Values}
           \cup {<<"a">> :> v @@ <<"a", "b">> :> Num(7) : v \in Values}
NameLists == {<<>>} \cup {<<x>> : x \in Names} \cup {<<x, y>> : x \in Names, y \in Names}

VarRequests ==
    {[what |-> "vars", vars |-> v, paths |-> Names, q |-> [Query EXCEPT !.fields = f, !.exclude = e]] :
        v \in VarSets, f \in {None} \cup NameLists, e \in NameLists}

Strings(alphabet, n) == UNION {[1..k -> alphabet] : k \in 0..n}
NameRequests ==
    {[what |-> "name", pattern |-> p, text |-> t] :
        p \in Strings({"a", "b", "*", "?"}, 4), t \in Strings({"a", "b"}, 4)}

ScopeRequests ==
    {[what |-> "scope", members |-> <<m, n>>, inventory |-> Inventory] :
        m \in {x \in Member(1) : x.inventory # None /\ x.entry = None},
        n \in {x \in Member(2) : x.inventory # None /\ x.entry = None}}


-----------------------------------------------------------------------------
(* Endpoints, the search, enrichers, static inventories. *)

Os(n) == <<"os">> :> Num(n)
Both2(n) == Os(n) @@ <<"site">> :> ObjectOf([id |-> Num(n), zone |-> Num(3)])
GroupOf(hosts, vars) == [hosts |-> hosts, children |-> {}, vars |-> vars]

Contents(n) ==
    {[hostvars |-> [h \in hosts |-> IF h = n THEN Both2(n) ELSE Os(n)],
      groups |-> "web" :> GroupOf(members, vars) @@ "later" :> GroupOf({}, Both2(n))] :
        hosts \in {{1}, {1, 2}, {2, 3}}, members \in {{}, {1}, {2, 3}}, vars \in {None, Both2(n)}}

Few(n) == {d \in Contents(n) : d.groups["web"].vars # None /\ (n = 1) = ({1, 2} \subseteq DOMAIN d.hostvars)}

Caches == [{1} -> Contents(1)] \cup {1 :> d @@ 2 :> e : d \in Few(1), e \in Few(2) \cup {None}}

Says(field, values) == {[NoParams EXCEPT ![field] = v] : v \in values}
OsIs(op, v) == {[key |-> <<"os">>, op |-> op, value |-> v]}

Params ==
    {NoParams, [NoParams EXCEPT !.renamed = TRUE]}
    \cup Says("patterns", {{1, 2}}) \cup Says("group", {{"web"}, {}})
    \cup Says("filter", {OsIs("=", Num(1)), OsIs(">", EmptyText)})
    \cup Says("fields", {<< <<"os">> >>, << <<"site", "id">> >>})
    \cup Says("exclude", {<< <<"os">> >>, << <<"site", "id">> >>})
Configs == {NoParams} \cup Says("filter", {OsIs("=", Num(1))}) \cup Says("exclude", {<< <<"os">> >>})

Endpoint(sources, limit, output, config) ==
    [sources |-> sources, limit |-> limit, output |-> output, config |-> config]

EndpointsOf(cache) ==
    {Endpoint(DOMAIN cache, l, o, c) :
        l \in {None, 1}, o \in {None, "ansible", "csv"}, c \in Configs}

EndpointRequests ==
    UNION {{[what |-> "endpoint", cache |-> cache, endpoint |-> e, params |-> p, script |-> "ends",
             allowed |-> TRUE] : e \in EndpointsOf(cache), p \in Params} : cache \in Caches}
    \cup {[what |-> "endpoint", cache |-> 1 :> None, endpoint |-> None, params |-> NoParams,
           script |-> s, allowed |-> a] : s \in {"fails"}, a \in BOOLEAN}
    \cup {[what |-> "endpoint", cache |-> 1 :> d, endpoint |-> Endpoint({1}, None, None, NoParams),
           params |-> NoParams, script |-> s, allowed |-> TRUE] : d \in Few(1), s \in {"fails", "hangs"}}

ViewOf(cache) ==
    <<[entry |-> cache[1], inventory |-> cache[1], claim |-> None,
       declared |-> [groups |-> {}, hosts |-> {}, advertised |-> FALSE]]>>

SearchRequests ==
    UNION {{[what |-> "search", cache |-> cache, short |-> (s = {}), limit |-> limit,
             views |-> 9 :> ViewOf(cache),
             endpoints |-> 1 :> e @@ 2 :> Endpoint({1}, None, "json", NoParams),
             key |-> [sources |-> s, endpoints |-> {1, 2}],
             names |-> {1, 2, 3}, rank |-> 1 :> 2 @@ 2 :> 0 @@ 3 :> 2] :
               e \in EndpointsOf(cache), s \in {{}, {1}, {2}, {2, 9}}, limit \in {0, 2}} : cache \in Caches}

FieldLists == {None, {<<"os">>}, {}}
EnrichRequests ==
    {[what |-> "enrich", target |-> t, source |-> s,
      enricher |-> [fields |-> f, fieldsExcluded |-> x, groups |-> g, groupsExcluded |-> y]] :
        t \in {d \in Contents(1) : d.groups["web"].hosts # {}},
        s \in {[d EXCEPT !.groups = @ @@ "all" :> GroupOf({}, Os(2))] : d \in Few(2)},
        f \in FieldLists, x \in FieldLists, g \in {None, {"web", "all"}}, y \in {None, {"web"}}}

Node(name, children, hosts, vars) == [name |-> name, children |-> children, hosts |-> hosts, vars |-> vars]
Leaf(n) == {Node(g, <<>>, [h \in hs |-> "v" :> n], IF n = 2 THEN "v" :> n ELSE <<>>) :
               g \in {"web", "db"}, hs \in {{}, {"h1"}, {"h1", "h2"}}}
Parents == {Node(g, c, [h \in hs |-> "v" :> 3], <<>>) :
               g \in {"all", "db", "web"}, c \in {<<l>> : l \in Leaf(1)} \cup {<<>>}, hs \in {{}, {"h1"}}}
Trees == {<<p>> : p \in Parents} \cup {<<p, l>> : p \in Parents, l \in Leaf(2)}
GroupFiles == {<<>>, "web" :> <<"v" :> 7>>, "web" :> <<"v" :> 7, "v" :> 8>> @@ "all" :> <<"u" :> 9>>,
               "web" :> Both, "none" :> << "v" :> 7>>, "web" :> <<Vault>>}
HostFiles == {<<>>, "h1" :> <<"v" :> 5>>, "h9" :> <<"v" :> 5>>}

InventoryRequests ==
    {[what |-> "inventory", input |-> [tree |-> t, groupVars |-> g, hostVars |-> h, malformed |-> FALSE]] :
        t \in Trees, g \in GroupFiles, h \in HostFiles}
    \cup {[what |-> "inventory", input |-> [tree |-> <<>>, groupVars |-> <<>>, hostVars |-> <<>>, malformed |-> TRUE]]}


Value(form, fields, hosts, vars) ==
    [form |-> form, fields |-> fields, nested |-> vars = <<>>, typed |-> TRUE,
     hosts |-> hosts, children |-> {}, vars |-> vars]
PrintedGroups ==
    {Value("list", {}, hs, <<>>) : hs \in {{}, {"h1", "h2"}}}
    \cup {Value("object", fs, {}, <<>>) : fs \in {{}, {"host"}}}
    \cup {Value("object", {"hosts", "vars"} \cup fs, {"h2", "h3"}, vs) :
             fs \in {{}, {"description"}}, vs \in {<<>>, "v" :> 1}}
    \cup {Value("other", {}, {}, <<>>), [Value("list", {}, {}, <<>>) EXCEPT !.typed = FALSE]}
ScriptRequests ==
    {[what |-> "script", full |-> f,
      out |-> [meta |-> m, hostvars |-> "h1" :> ("v" :> 2),
               groups |-> n :> x @@ "web" :> y]] :
        f \in BOOLEAN, m \in {"none", "bare", "malformed", "hostvars"},
        n \in {"all", "ungrouped", "hostvars", "groups", "db"}, x \in PrintedGroups, y \in PrintedGroups}

-----------------------------------------------------------------------------
(* The federation: A asks; B sits between; C and D may ask back. *)

Reads(peer, credential, failing) == [peer |-> peer, credential |-> credential, failing |-> failing]
Instance(state, delay, sources, allowed) ==
    [state |-> state, delay |-> delay, sources |-> sources, allowed |-> allowed]

Worlds ==
    {[A |-> Instance("up", 0, 1 :> Reads("B", c, TRUE) @@ 2 :> Reads("B", "admin", FALSE)
                              @@ 3 :> Reads("C", "admin", FALSE) @@ 4 :> Reads(Absent, "missing", FALSE), {2, 4}),
      B |-> Instance(b, PeerTimeoutSeconds, 1 :> Reads(p, k, TRUE) @@ 2 :> Reads("D", "admin", FALSE), {1}),
      C |-> Instance(s, PeerTimeoutSeconds, 1 :> Reads(q, "admin", FALSE), {}),
      D |-> Instance("up", d, <<>>, {})] :
        c \in {"admin", "restricted", "refused", "missing"}, k \in {"admin", "restricted", "missing"},
        b \in {"up", "down", "hangs", "old", "breaks"}, s \in {"up", "hangs"},
        p \in {"A", "C"}, q \in {"B", "D", Absent}, d \in {PeerTimeoutSeconds, PeerTimeoutSeconds + 1}}

TopologyRequests ==
    {[what |-> "topology", world |-> w, self |-> "A", admin |-> a, depth |-> n] :
        w \in Worlds, a \in BOOLEAN, n \in {0, 1, 2, 3, 255}}
    \cup {[what |-> "push", world |-> w, self |-> i] : w \in Worlds, i \in {"A", "B"}}

Pushes == {[by |-> b, at |-> t, map |-> m] : b \in {"x", "y"}, t \in {0, 599, 600}, m \in 1..2}
FederationRequests ==
    {[what |-> "federation", pushes |-> p, now |-> n] :
        p \in {q \in UNION {[1..k -> Pushes] : k \in 0..3} :
                   \A i, j \in DOMAIN q : i < j => q[i].at < q[j].at \/ q[i].at = q[j].at},
        n \in {600, 1199, 1200}}

(* Credentials a, a_b and c, whose fields may carry each other's names. *)

FieldNames == {[words |-> w, upper |-> u] : w \in {<<"b", "url">>, <<"url">>}, u \in {FALSE}}
              \cup {[words |-> <<"a", "url">>, upper |-> FALSE], [words |-> <<"url">>, upper |-> TRUE],
                    [words |-> <<"a">>, upper |-> FALSE]}
SecretsOf(n) == {[f \in fs |-> n] : fs \in {s \in SUBSET FieldNames : Cardinality(s) <= 2}}
CredentialRequests ==
    {[what |-> "credentials", ids |-> ids, secrets |-> <<"a">> :> x @@ <<"a", "b">> :> y @@ <<"c">> :> z] :
        ids \in {<<>>, << <<"a">>, <<"a">> >>, << <<"a">>, <<"a", "b">> >>, << <<"c">>, <<"a", "b">>, <<"a">>, <<"c">> >>},
        x \in SecretsOf(1) \cup {Unresolved}, y \in SecretsOf(2), z \in SecretsOf(3)}

Batches ==
    <<SourceRequests, ViewRequests, StatusRequests, GroupRequests, VarRequests, NameRequests, ScopeRequests,
      EndpointRequests, SearchRequests, EnrichRequests, InventoryRequests, ScriptRequests,
      TopologyRequests, FederationRequests, CredentialRequests>>
=============================================================================
