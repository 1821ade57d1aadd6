------------------------------ MODULE Requests ------------------------------
(***************************************************************************)
(* Every request the read side answers from what it is given: reads of     *)
(* sources and views, endpoints, the host search, enricher merges and      *)
(* static inventories, and here the map of the federation, its pushes and  *)
(* the delivery of credentials.                                            *)
(***************************************************************************)
EXTENDS InventoryRules, StaticInventory, Topology, CredentialDelivery

\* What a static connector reads in its checkout.
ReadInventory ==
    /\ Asked("inventory")
    /\ response' = Parse(request.input)
    /\ UNCHANGED request

\* GET /topology
GetTopology ==
    /\ Asked("topology")
    /\ response' = [status |-> 200,
                    map |-> TopologyFor(request.world, request.self, request.admin, request.depth)]
    /\ UNCHANGED request

\* The task that pushes the map, every minute.
PushTopology ==
    /\ Asked("push")
    /\ response' = [status |-> 200, pushed |-> Pushed(request.world, request.self)]
    /\ UNCHANGED request

\* PUT /topology/federation, several times, and then GET.
GetFederation ==
    /\ Asked("federation")
    /\ response' = [status |-> 200, list |-> FederationList(request.pushes, request.now)]
    /\ UNCHANGED request

ResolveCredentials ==
    /\ Asked("credentials")
    /\ response' = [status |-> 200, given |-> Delivered(request.ids, request.secrets)]
    /\ UNCHANGED request

Next ==
    \/ ReadNext
    \/ RuleNext
    \/ ReadInventory
    \/ GetTopology
    \/ PushTopology
    \/ GetFederation
    \/ ResolveCredentials

Spec == ReadInit /\ [][Next]_<<request, response>>

-----------------------------------------------------------------------------
(* Properties of a static inventory. *)

\* Every declaration of a tree, with the names above it.
RECURSIVE Declarations(_, _)
Declarations(tree, above) ==
    UNION {{[node |-> tree[i], above |-> above]}
              \cup Declarations(tree[i].children, above \cup {tree[i].name}) : i \in DOMAIN tree}

BelowItself(tree) == \E d \in Declarations(tree, {}) : d.node.name \in d.above

\* However often and wherever a group is declared, it has every host, child
\* and variable any declaration gives it; a file's variables are those of its
\* group or host, or it is warned of.  (For a group below itself and for
\* group_vars/all, see AllVarsReachAll.)
NothingDeclaredIsLost ==
    (Answers("inventory") /\ ~BelowItself(request.input.tree)) =>
        LET ds == Declarations(request.input.tree, {})
            named(g) == {d.node : d \in {x \in ds : x.node.name = g}}
            fileOf(files, n) == FileVars(files, n)
        IN /\ DOMAIN response.hostvars = UNION {DOMAIN d.node.hosts : d \in ds}
           /\ DOMAIN response.groups = {d.node.name : d \in ds} \ {"ungrouped"}
           /\ \A g \in DOMAIN response.groups :
                 LET group == response.groups[g]
                     vars == IF group.vars = NoVars THEN <<>> ELSE group.vars
                 IN /\ group.hosts = UNION {DOMAIN n.hosts : n \in named(g)}
                    /\ group.children = UNION {{n.children[i].name : i \in DOMAIN n.children} : n \in named(g)}
                    /\ UNION {DOMAIN n.vars : n \in named(g)} \subseteq DOMAIN vars
                    /\ \A v \in DOMAIN fileOf(request.input.groupVars, g) :
                          v \in DOMAIN vars /\ vars[v] = fileOf(request.input.groupVars, g)[v]
           /\ \A g \in DOMAIN request.input.groupVars \ {"all", "ungrouped"} :
                 g \in DOMAIN response.groups \cup response.warnings
           /\ \A h \in DOMAIN request.input.hostVars :
                 \/ h \in response.warnings
                 \/ \A v \in DOMAIN fileOf(request.input.hostVars, h) :
                       response.hostvars[h][v] = fileOf(request.input.hostVars, h)[v]

\* What a comment says and the code does not do: `all` "is where
\* group_vars/all lands" (static_inventory.rs): in a tree that does not declare
\* `all` its file lands nowhere, and no warning says so.
AllVarsReachAll ==
    (Answers("inventory") /\ FileVars(request.input.groupVars, "all") # <<>>) =>
        "all" \in DOMAIN response.groups \cup response.warnings

-----------------------------------------------------------------------------
(* Properties of the map. *)

Accepted(credential) == credential \in {"admin", "restricted"}

Living(world, i, visible, p) ==
    /\ world[p].state = "up"
    /\ world[p].delay <= PeerTimeoutSeconds
    /\ Accepted(KeySource(world[i], visible, p).credential)

\* Below an answer got with an admin key the same holds of that peer's peers.
RECURSIVE Told(_, _, _, _, _)
Told(world, i, visible, peers, depth) ==
    /\ DOMAIN peers = PeersOf(world[i], visible)
    /\ \A p \in DOMAIN peers :
          /\ (peers[p].instance = Absent) = (peers[p].error # Absent)
          /\ depth > 0 /\ Living(world, i, visible, p) => peers[p].instance # Absent
          /\ (/\ depth > 0
              /\ Living(world, i, visible, p)
              /\ KeySource(world[i], visible, p).credential = "admin")
             => Told(world, p, DOMAIN world[p].sources, peers[p].instance.peers, depth - 1)

\* An instance that is up is on the map, with what it says of its own peers,
\* whatever those do: one that is dead, hangs or asks back hides nobody above
\* it.  A peer has an answer or a reason, never both or neither, and the whole
\* map takes no longer than its depth allows.
LivingPeersAreDescribed ==
    Answers("topology") =>
        LET visible == IF request.admin THEN DOMAIN request.world[request.self].sources
                       ELSE request.world[request.self].allowed
            depth == Min({request.depth, MaxDepth})
        IN /\ request.admin => Told(request.world, request.self, visible, response.map.peers, depth)
           /\ \A p \in PeersOf(request.world[request.self], visible) :
                 depth > 0 /\ Living(request.world, request.self, visible, p)
                    => response.map.peers[p].instance # Absent
           /\ response.map.takes <= PeerTimeoutSeconds * depth

Shallow(peers) ==
    \A p \in DOMAIN peers :
        /\ peers[p].error # "no credential"
        /\ peers[p].instance # Absent => /\ peers[p].instance.peers = <<>>
                                         /\ peers[p].instance.sources = Absent

\* A peer's own peers and counts were read with this instance's keys: they
\* reach its admins, never a restricted caller nor an instance it pushes to,
\* and no push names a secret or goes out with a key the peer refuses.
MapsStayWithTheirKey ==
    /\ (Answers("topology") /\ ~request.admin) => Shallow(response.map.peers)
    /\ Answers("topology") =>
          \A p \in DOMAIN response.map.peers :
             (/\ response.map.peers[p].instance # Absent
              /\ KeySource(request.world[request.self],
                           DOMAIN request.world[request.self].sources, p).credential = "restricted")
             => Shallow(response.map.peers[p].instance.peers)
    /\ Answers("push") =>
          /\ Shallow(response.pushed.map.peers)
          /\ \A p \in DOMAIN response.pushed.map.peers :
                "why it failed" \notin response.pushed.map.peers[p].links
          /\ \A p \in DOMAIN response.pushed.to : Accepted(response.pushed.to[p])

\* The maps an edge shows are the last of every sender still pushing.
LatestMapsAreShown ==
    Answers("federation") =>
        LET last(by) == Max({i \in DOMAIN request.pushes : request.pushes[i].by = by})
            senders == {request.pushes[i].by : i \in DOMAIN request.pushes}
            live == {s \in senders : request.now - request.pushes[last(s)].at < FederationExpires}
        IN /\ ToSet(response.list) = {request.pushes[last(s)] : s \in live}
           /\ Len(response.list) = Cardinality(live)

\* A map describes whoever lives, tells what it tells to those who may have it,
\* and is the latest (topology.rs, peers/http.rs).
MapsAreTrueAndPrivate == LivingPeersAreDescribed /\ MapsStayWithTheirKey /\ LatestMapsAreShown

-----------------------------------------------------------------------------
(* Properties of the delivery. *)

\* Unless all is refused, every field of every credential reaches the connector
\* under the names that are its own (credentials.rs).
CredentialsReachTheirNames ==
    (Answers("credentials") /\ response.given # Unresolved) =>
        ReachTheirNames(request.ids, request.secrets, response.given)
=============================================================================
