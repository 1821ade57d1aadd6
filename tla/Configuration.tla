---------------------------- MODULE Configuration ----------------------------
(***************************************************************************)
(* What a configuration directory has to be before a process adopts it     *)
(* (config.rs, domain/connector.rs, source.rs, host.rs).  A directory is   *)
(* config.yaml and the items of its other files, in the order they are     *)
(* read: [section, name, typed, body].  `typed` says that the body is of   *)
(* its section's shape; texts are abstracted to what the rules ask of them.*)
(***************************************************************************)
EXTENDS Naturals, Sequences, FiniteSets

CONSTANTS None \* a key that is not set

ASSUME ConfigurationAssumption ==
    None \notin {"remote", "static_inventory", "ssh", "default", "host", "instance"}

Sections == {"sources", "hosts", "groups", "views", "endpoints", "enrichers",
             "connectors", "projects", "credentials", "api_keys"}
BuiltIn == {"remote", "static_inventory"}
BuiltinSettings == {"host", "group", "filter", "fields", "exclude_fields"}

-----------------------------------------------------------------------------
(* Reading the files.                                                      *)

\* read_items: a known section and a name that can be used in a URL.
Readable(item) == item.section \in Sections /\ item.name \notin {None, "un/safe"}

\* take: each name once in its section, and the body of the right shape.
WellFormed(dir) ==
    /\ \A i \in DOMAIN dir.items : Readable(dir.items[i]) /\ dir.items[i].typed
    /\ \A i, j \in DOMAIN dir.items :
          dir.items[i].section = dir.items[j].section /\ dir.items[i].name = dir.items[j].name => i = j

\* The shapes the rules below lean on: what a connector and an endpoint are
\* deserialized into.
Shaped(dir) ==
    \A i \in DOMAIN dir.items : LET body == dir.items[i].body IN
        dir.items[i].typed =>
            /\ dir.items[i].section = "connectors" =>
                  body.kind \in {"script", "ssh"} /\ body.script \in {None, "blank", "text"}
            /\ dir.items[i].section = "endpoints" => {body.output, body.script} \subseteq BOOLEAN

Items(dir, section) ==
    LET of == {i \in DOMAIN dir.items : dir.items[i].section = section}
    IN  [name \in {dir.items[i].name : i \in of} |->
            dir.items[CHOOSE i \in of : dir.items[i].name = name].body]

Ids(dir, section) == DOMAIN Items(dir, section)

-----------------------------------------------------------------------------
(* Connectors and the sources that use them.                               *)

\* Connector::ssh_location
LocationOf(c) ==
    IF c.kind = "script" \/ c.script # None THEN None
    ELSE IF c.location # None THEN c.location
    ELSE IF c.project = None THEN None ELSE "instance"

\* Connector::errors.  A path is "relative", "absolute", "spaced", "pattern"
\* or, like an empty one, None.
ConnectorSound(id, c) ==
    /\ id \notin BuiltIn
    /\ c.format = None \/ (c.format = "ansible" /\ c.kind = "script")
    /\ c.kind = "ssh" => ~c.host_args
    /\ IF c.script # None
       THEN /\ c.kind = "ssh" /\ c.script # "blank"
            /\ c.path = None /\ c.project = None /\ c.location = None
       ELSE /\ c.path # None
            /\ c.kind = "script" =>
                  /\ c.location = None
                  /\ c.project # None \/ c.path \notin {"relative", "spaced"}
            /\ c.kind = "ssh" =>
                  \/ LocationOf(c) = "host" /\ c.project = None /\ c.path \in {"absolute", "pattern"}
                  \/ /\ LocationOf(c) = "instance"
                     /\ c.path = "absolute" \/ (c.path = "relative" /\ c.project # None)

SshConnectors(dir) == {c \in Ids(dir, "connectors") : Items(dir, "connectors")[c].kind = "ssh"}
TypeOf(dir, s) ==
    IF s.connector \in BuiltIn THEN s.connector
    ELSE IF s.connector \in SshConnectors(dir) THEN "ssh" ELSE "script"

\* SourceDef::resolve
Resolves(dir, s) ==
    /\ CASE s.connector = "remote" ->
              {"url", "source"} \subseteq s.config /\ s.project = None /\ s.path = None
         [] s.connector = "static_inventory" -> s.project # None /\ s.path # None
         [] OTHER -> s.connector \in Ids(dir, "connectors") /\ s.project = None /\ s.path = None
    /\ s.connector \in SshConnectors(dir) =>
          s.config \cap {"ssh_location", "gather_mode", "fact_path"} = {}

\* fold_into_sources: what host and group items say of each source's TTLs.
FoldsInto(dir) ==
    \A section \in {"hosts", "groups"} : \A id \in Ids(dir, section) :
        \A source \in Items(dir, section)[id] :
            /\ source \in Ids(dir, "sources")
            /\ id \notin Items(dir, "sources")[source].ttl[section]

-----------------------------------------------------------------------------
(* References between items: validate_errors.                              *)

IsVault(dir, id) == Items(dir, "credentials")[id].vault
IsLogin(dir, id) == id \in Ids(dir, "credentials") /\ ~IsVault(dir, id)
IsProject(dir, id) == id = None \/ id \in Ids(dir, "projects")
IsSource(dir, id) == id \in Ids(dir, "sources")

\* check_cadence: a cron line that parses, or an interval, never both.
CadenceSound(item) == item.schedule # None => item.schedule # "junk" /\ item.interval = 0

EnricherSound(dir, e) ==
    /\ IsSource(dir, e.target)
    /\ e.source # None => IsSource(dir, e.source)
    /\ e.source # None \/ e.script
    /\ IsProject(dir, e.project) /\ CadenceSound(e)

\* A builtin output takes its settings and a filter that parses, nothing of a
\* script's; what limits an endpoint is one of its own sources.
EndpointSound(dir, e) ==
    /\ e.output # e.script
    /\ e.output => /\ e.project = None /\ ~e.args /\ ~e.timeout
                   /\ e.config \subseteq BuiltinSettings /\ e.filter_parses
    /\ \A source \in e.sources : IsSource(dir, source)
    /\ e.limit # None => e.limit \in e.sources
    /\ IsProject(dir, e.project)

Advertises(dir, id) ==
    IsSource(dir, id) /\ LET s == Items(dir, "sources")[id] IN s.advertises # None \/ s.hosts_from # None

ViewSound(dir, id, v) ==
    /\ id \notin Ids(dir, "sources") /\ v # <<>>
    /\ \A i \in DOMAIN v :
          /\ v[i].source \notin Ids(dir, "views") /\ IsSource(dir, v[i].source)
          /\ IsSource(dir, v[i].owner)
          /\ v[i].advertised =>
                \/ v[i].fallback \/ Advertises(dir, v[i].source)
                \/ Items(dir, "sources")[v[i].source].connector = "remote"
          /\ \A j \in DOMAIN v : v[i].source = v[j].source => i = j

SourceSound(dir, id, s) ==
    /\ \A c \in s.credentials : IsLogin(dir, c)
    /\ TypeOf(dir, s) \in {"ssh", "remote"} => Cardinality(s.credentials) <= 1
    /\ s.connector = "static_inventory" => IsProject(dir, s.project)
    /\ s.hosts_from # None =>
          /\ TypeOf(dir, s) = "ssh" /\ "hosts" \notin s.config
          /\ s.hosts_from # id /\ IsSource(dir, s.hosts_from)
    /\ s.advertises # "empty"
    /\ "ssh_known_hosts" \in s.config => TypeOf(dir, s) = "ssh" /\ s.known_hosts_exists
    /\ CadenceSound(s)

\* A credential reads from one place; a vault it names must be a Vault.
CredentialSound(dir, c) ==
    /\ c.sound
    /\ c.reads_from \notin {None, "default"} =>
          c.reads_from \in Ids(dir, "credentials") /\ IsVault(dir, c.reads_from)
    /\ c.reads_from = "default" => dir.server.vault

KeySound(dir, k) ==
    /\ k.sound
    /\ k.role = "restricted" =>
          /\ k.sources \subseteq Ids(dir, "sources") \cup Ids(dir, "views")
          /\ k.endpoints \subseteq Ids(dir, "endpoints")

ProjectSound(dir, p) ==
    /\ Cardinality(p.credentials) <= 1
    /\ \A c \in p.credentials : IsLogin(dir, c)
    /\ CadenceSound(p)

\* ldap_errors: a login that can work, whose rules name what there is.
LdapSound(dir, l) ==
    /\ dir.server.ui
    /\ l.transport \in {"ldaps", "starttls"}
    /\ IsLogin(dir, l.bind)
    /\ l.placeholder
    /\ l.access # <<>>
    /\ \A i \in DOMAIN l.access :
          /\ l.access[i].names_somebody
          /\ l.access[i].sources \subseteq Ids(dir, "sources") \cup Ids(dir, "views")
          /\ l.access[i].endpoints \subseteq Ids(dir, "endpoints")

ServerSound(dir) ==
    /\ dir.server.url_is_http /\ dir.server.home_is_local
    /\ dir.server.vault_timeout_positive
    /\ dir.server.ldap # None => LdapSound(dir, dir.server.ldap)
    /\ dir.server.assets => dir.server.ui

References(dir) ==
    LET all(section, Sound(_, _)) == \A id \in Ids(dir, section) : Sound(id, Items(dir, section)[id])
    IN  /\ ServerSound(dir)
        /\ all("credentials", LAMBDA id, c : CredentialSound(dir, c))
        /\ all("api_keys", LAMBDA id, k : KeySound(dir, k))
        /\ all("enrichers", LAMBDA id, e : EnricherSound(dir, e))
        /\ all("endpoints", LAMBDA id, e : EndpointSound(dir, e))
        /\ all("views", LAMBDA id, v : ViewSound(dir, id, v))
        /\ all("sources", LAMBDA id, s : SourceSound(dir, id, s))
        /\ all("connectors", LAMBDA id, c : IsProject(dir, c.project))
        /\ all("projects", LAMBDA id, p : ProjectSound(dir, p))

\* load: each stage is reached when the one before it found nothing wrong.
Loads(dir) ==
    /\ WellFormed(dir)
    /\ \A id \in Ids(dir, "connectors") : ConnectorSound(id, Items(dir, "connectors")[id])
    /\ \A id \in Ids(dir, "sources") : Resolves(dir, Items(dir, "sources")[id])
    /\ FoldsInto(dir)
    /\ References(dir)

-----------------------------------------------------------------------------
(* What the process does with it, and so what it relies on.                *)

\* The credentials a sync of a source, a pull or a login resolves.
Needed(dir) ==
    (UNION {Items(dir, "sources")[id].credentials : id \in Ids(dir, "sources")})
    \cup (UNION {Items(dir, "projects")[id].credentials : id \in Ids(dir, "projects")})
    \cup (IF dir.server.ldap = None THEN {} ELSE {dir.server.ldap.bind})

\* The chain built from it can read a credential.
CanRead(dir, id) ==
    /\ id \in Ids(dir, "credentials") /\ ~IsVault(dir, id)
    /\ LET c == Items(dir, "credentials")[id]
       IN  CASE c.reads_from = None -> TRUE
             [] c.reads_from = "default" -> dir.server.vault
             [] OTHER -> c.reads_from \in Ids(dir, "credentials") /\ IsVault(dir, c.reads_from)

\* A sync finds a script, a file, an address or a list of hosts to start from,
\* and the checkout of a project for a path that is in one.  An ssh source
\* that says nothing of its hosts is accepted all the same.
SyncHasItsInputs(dir, s) ==
    LET projects == Ids(dir, "projects")
        c == Items(dir, "connectors")[s.connector]
    IN  IF s.connector = "remote" THEN {"url", "source"} \subseteq s.config
        ELSE IF s.connector = "static_inventory" THEN s.project \in projects
        ELSE /\ s.connector \in Ids(dir, "connectors")
             /\ c.kind = "script" =>
                   IF c.project = None THEN c.path # "relative" ELSE c.project \in projects
             /\ c.kind # "script" =>
                   /\ s.hosts_from # None => s.hosts_from \in Ids(dir, "sources")
                   /\ LocationOf(c) = "instance" =>
                         IF c.project = None THEN c.path = "absolute" ELSE c.project \in projects
                   /\ LocationOf(c) = "host" => c.path \in {"absolute", "pattern"}
                   /\ LocationOf(c) \notin {"instance", "host"} => c.script = "text"

\* Every lookup by name that serving, syncing and enriching do finds an entry
\* of the kind it expects, each name means one thing, and no id is both a
\* source and a view.
Runs(dir) ==
    LET sources == Ids(dir, "sources")
        views == Ids(dir, "views")
    IN  /\ \A i, j \in DOMAIN dir.items :
              dir.items[i].section = dir.items[j].section /\ dir.items[i].name = dir.items[j].name
                 => i = j
        /\ sources \cap views = {}
        /\ \A id \in sources : SyncHasItsInputs(dir, Items(dir, "sources")[id])
        /\ \A id \in Needed(dir) : CanRead(dir, id)
        /\ \A id \in Ids(dir, "enrichers") :
              {Items(dir, "enrichers")[id].target, Items(dir, "enrichers")[id].source} \ {None}
                  \subseteq sources
        /\ \A id \in Ids(dir, "endpoints") :
              LET e == Items(dir, "endpoints")[id]
              IN  /\ e.sources \cup ({e.limit} \ {None}) \subseteq sources
                  /\ (e.output /\ ~e.script) \/ (e.script /\ ~e.output)
        /\ \A id \in views : \A i \in DOMAIN Items(dir, "views")[id] :
              {Items(dir, "views")[id][i].source, Items(dir, "views")[id][i].owner} \subseteq sources

\* A key or a rule grants only what there is.
GrantsExist(dir) ==
    /\ \A id \in Ids(dir, "api_keys") :
          LET k == Items(dir, "api_keys")[id]
          IN  k.role = "restricted" =>
                 /\ k.sources \subseteq Ids(dir, "sources") \cup Ids(dir, "views")
                 /\ k.endpoints \subseteq Ids(dir, "endpoints")
    /\ dir.server.ldap # None =>
          \A i \in DOMAIN dir.server.ldap.access :
              /\ dir.server.ldap.access[i].sources \subseteq Ids(dir, "sources") \cup Ids(dir, "views")
              /\ dir.server.ldap.access[i].endpoints \subseteq Ids(dir, "endpoints")
=============================================================================
