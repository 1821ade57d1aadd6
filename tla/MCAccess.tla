------------------------------ MODULE MCAccess ------------------------------
(***************************************************************************)
(* A directory with every kind of item, each of its rules broken in turn,  *)
(* and the accepted directories that differ in credentials, keys, grants   *)
(* and directory login.                                                    *)
(***************************************************************************)
EXTENDS Access, TLC

Src(connector) ==
    [connector |-> connector, project |-> None, path |-> None, config |-> {}, credentials |-> {},
     hosts_from |-> None, advertises |-> None, schedule |-> None, interval |-> 0,
     ttl |-> [hosts |-> {}, groups |-> {}], known_hosts_exists |-> TRUE]
Con(kind) == [kind |-> kind, project |-> None, location |-> None, path |-> None, script |-> None,
              host_args |-> FALSE, format |-> None]
Cred == [vault |-> FALSE, reads_from |-> None, sound |-> TRUE]
Member(source, advertised) == [source |-> source, owner |-> "inv", advertised |-> advertised, fallback |-> FALSE]
End(output) == [output |-> output, script |-> ~output, project |-> None, args |-> FALSE, timeout |-> FALSE,
                config |-> {}, filter_parses |-> TRUE, sources |-> {"inv", "far"}, limit |-> "inv"]
Key(role, sources) == [role |-> role, sources |-> sources, endpoints |-> {}, sound |-> TRUE]

It(section, name, body) == [section |-> section, name |-> name, typed |-> TRUE, body |-> body]

Items0 ==
    << It("sources", "inv", [Src("c1") EXCEPT !.credentials = {"login"}, !.interval = 60]),
       It("sources", "srv", [Src("c2") EXCEPT !.hosts_from = "inv", !.config = {"ssh_known_hosts"}]),
       It("sources", "far", [Src("remote") EXCEPT !.config = {"url", "source"}, !.credentials = {"token"}]),
       It("sources", "tree", [Src("static_inventory") EXCEPT !.project = "p", !.path = "relative"]),
       It("views", "all", <<Member("inv", FALSE), Member("srv", TRUE)>>),
       It("enrichers", "own", [target |-> "inv", source |-> "far", script |-> FALSE, project |-> None,
                               schedule |-> None, interval |-> 0]),
       It("endpoints", "out", End(TRUE)),
       It("endpoints", "run", [End(FALSE) EXCEPT !.project = "p", !.args = TRUE]),
       It("connectors", "c1", [Con("script") EXCEPT !.project = "p", !.path = "relative"]),
       It("connectors", "c2", [Con("ssh") EXCEPT !.project = "p", !.path = "relative"]),
       It("connectors", "c3", [Con("ssh") EXCEPT !.script = "text"]),
       It("connectors", "c4", [Con("ssh") EXCEPT !.location = "host", !.path = "pattern"]),
       It("projects", "p", [credentials |-> {"login"}, schedule |-> None, interval |-> 0]),
       It("credentials", "login", Cred),
       It("credentials", "token", [Cred EXCEPT !.reads_from = "safe"]),
       It("credentials", "safe", [Cred EXCEPT !.vault = TRUE]),
       It("api_keys", "root", Key("admin", {})),
       It("api_keys", "some", Key("restricted", {"inv", "all"})),
       It("hosts", "h", {"inv", "far"}),
       It("groups", "g", {"inv"}) >>

Server0 == [ui |-> TRUE, ldap |-> None, url_is_http |-> TRUE, home_is_local |-> TRUE, vault |-> FALSE,
            vault_timeout_positive |-> TRUE, assets |-> FALSE]
Base == [server |-> Server0, items |-> Items0]

At(section, name) == CHOOSE i \in DOMAIN Items0 : Items0[i].section = section /\ Items0[i].name = name
Says(section, name, field, values) ==
    {[Base EXCEPT !.items[At(section, name)].body = [@ EXCEPT ![field] = v]] : v \in values}
Server(field, value) == [Base EXCEPT !.server = [@ EXCEPT ![field] = value]]
With(items) == [Base EXCEPT !.items = @ \o items]
Without(section, name) ==
    [Base EXCEPT !.items = SelectSeq(Items0, LAMBDA x : x.section # section \/ x.name # name)]

Rule(sources) == [names_somebody |-> TRUE, admin |-> FALSE, sources |-> sources, endpoints |-> {}]
Ldap0 == [transport |-> "ldaps", bind |-> "login", placeholder |-> TRUE, access |-> <<Rule({"inv"})>>]
LdapWith(field, value) == Server("ldap", [Ldap0 EXCEPT ![field] = value])

BadSources ==
    Says("sources", "inv", "connector", {"c9", "static_inventory"})
    \cup Says("sources", "inv", "project", {"p"}) \cup Says("sources", "inv", "schedule", {"junk", "nightly"})
    \cup Says("sources", "inv", "credentials", {{"nobody"}, {"safe"}})
    \cup Says("sources", "far", "credentials", {{"login", "token"}}) \cup Says("sources", "far", "config", {{"url"}})
    \cup Says("sources", "srv", "hosts_from", {"srv", "all", "gone"})
    \cup Says("sources", "srv", "config", {{"hosts"}, {"ssh_location"}, {"fact_path"}})
    \cup Says("sources", "srv", "known_hosts_exists", {FALSE})
    \cup Says("sources", "inv", "hosts_from", {"far"}) \cup Says("sources", "inv", "advertises", {"empty"})
    \cup Says("sources", "inv", "ttl", {[hosts |-> {"h"}, groups |-> {}]})
    \cup Says("sources", "tree", "project", {None, "q"}) \cup Says("sources", "tree", "path", {None})
    \cup {Without("sources", "far"), Without("sources", "inv"), Without("sources", "srv")}

BadItems ==
    {[Base EXCEPT !.items[1].typed = FALSE], [Base EXCEPT !.items[1].name = "un/safe"],
     [Base EXCEPT !.items[1].section = "source"],
     With(<<It("credentials", "login", [Cred EXCEPT !.vault = TRUE])>>), With(<<It("hosts", "h", {"srv"})>>),
     With(<<It("views", "srv", <<Member("inv", FALSE)>>)>>), With(<<It("views", "none", <<>>)>>),
     With(<<It("views", "twice", <<Member("inv", FALSE), Member("inv", FALSE)>>)>>),
     With(<<It("views", "nest", <<Member("all", FALSE)>>)>>), With(<<It("views", "far", <<Member("gone", FALSE)>>)>>),
     With(<<It("views", "who", <<Member("tree", TRUE)>>)>>),
     With(<<It("connectors", "remote", Con("script"))>>), With(<<It("groups", "k", {"gone"})>>)}
    \cup Says("enrichers", "own", "target", {"all"}) \cup Says("enrichers", "own", "source", {"gone", None})
    \cup Says("enrichers", "own", "project", {"q"}) \cup Says("enrichers", "own", "schedule", {"junk"})
    \cup Says("endpoints", "out", "limit", {"srv"}) \cup Says("endpoints", "out", "sources", {{"inv", "all"}})
    \cup Says("endpoints", "out", "project", {"p"}) \cup Says("endpoints", "out", "filter_parses", {FALSE})
    \cup Says("endpoints", "out", "config", {{"colour"}}) \cup Says("endpoints", "out", "script", {TRUE})
    \cup Says("endpoints", "run", "script", {FALSE}) \cup Says("endpoints", "run", "project", {"q"})
    \cup Says("connectors", "c1", "project", {None, "q"}) \cup Says("connectors", "c1", "path", {None})
    \cup Says("connectors", "c1", "location", {"host"}) \cup Says("connectors", "c1", "script", {"text"})
    \cup Says("connectors", "c2", "project", {None}) \cup Says("connectors", "c2", "format", {"ansible"})
    \cup Says("connectors", "c2", "location", {"host"}) \cup Says("connectors", "c2", "host_args", {TRUE})
    \cup Says("connectors", "c3", "script", {"blank"}) \cup Says("connectors", "c4", "path", {"relative"})
    \cup Says("projects", "p", "credentials", {{"safe"}, {"login", "token"}})
    \cup Says("projects", "p", "schedule", {"junk"})

BadAccess ==
    Says("credentials", "token", "reads_from", {"login", "gone", "default"})
    \cup Says("credentials", "login", "sound", {FALSE}) \cup Says("credentials", "login", "vault", {TRUE})
    \cup {Without("credentials", "login"), Without("credentials", "safe")}
    \cup Says("api_keys", "some", "sources", {{"gone"}}) \cup Says("api_keys", "some", "endpoints", {{"gone"}})
    \cup Says("api_keys", "root", "sound", {FALSE}) \cup {With(<<It("api_keys", "unset", Key("admin", {}))>>)}
    \cup {Server("url_is_http", FALSE), Server("home_is_local", FALSE), Server("vault_timeout_positive", FALSE),
          [Server("ui", FALSE) EXCEPT !.server.ldap = Ldap0], [Server("ui", FALSE) EXCEPT !.server.assets = TRUE],
          LdapWith("transport", "ldap"), LdapWith("bind", "safe"), LdapWith("bind", "gone"),
          LdapWith("placeholder", FALSE), LdapWith("access", <<>>), LdapWith("access", <<Rule({"gone"})>>),
          LdapWith("access", <<[Rule({}) EXCEPT !.names_somebody = FALSE]>>),
          LdapWith("access", <<[Rule({}) EXCEPT !.endpoints = {"gone"}]>>)}

NoKeys == [Base EXCEPT !.items = SelectSeq(Items0, LAMBDA x : x.section # "api_keys")]

\* What a running process really moves between.
Accepted ==
    {Base, Server("ldap", Ldap0), LdapWith("access", <<Rule({"all"}), [Rule({}) EXCEPT !.admin = TRUE]>>),
     Without("api_keys", "some"), Server("ui", FALSE), NoKeys, [NoKeys EXCEPT !.server.ldap = Ldap0],
     [Base EXCEPT !.items = SelectSeq(@, LAMBDA x : x.name # "far" /\ x.section \notin {"endpoints", "enrichers", "hosts"}
                                                    /\ x.name \notin {"token", "safe"})]}
    \cup Says("api_keys", "some", "sources", {{"inv"}})

MCDirectories == Accepted \cup BadSources \cup BadItems \cup BadAccess
MCByHand == {Base, NoKeys, Server("ldap", Ldap0), [Base EXCEPT !.items[1].typed = FALSE]}
MCVariables == {"root", "some"}

\* Two sources that gather from each other's hosts.
Cyclic == [With(<<It("sources", "sib", [Src("c2") EXCEPT !.hosts_from = "srv"])>>)
              EXCEPT !.items[At("sources", "srv")].body = [@ EXCEPT !.hosts_from = "sib"]]
CyclicToo == {Base, Cyclic}

ASSUME \A dir \in Accepted : Loads(dir)
=============================================================================
