------------------------------ MODULE Topology ------------------------------
(***************************************************************************)
(* The map of the federation (application/topology.rs, domain/topology.rs, *)
(* peers/http.rs, http/topology.rs): an instance lists the instances its   *)
(* remote sources read from, asks each to describe itself with one hop     *)
(* less to spend, waits a bounded time, and pushes what came out to those  *)
(* that answered.  A world maps each instance to what it does when asked:  *)
(*   [state, delay, sources, allowed]                                      *)
(* state is "up", "down", "hangs", "old" (no topology route) or "breaks"   *)
(* (the asking task panics); delay is its own part of the answer; sources  *)
(* maps its source ids to [peer, credential, failing], peer Absent for one   *)
(* that is not remote; allowed are the sources its restricted key reads.   *)
(* A credential is "admin", "restricted", "refused" there, or "missing".   *)
(***************************************************************************)
EXTENDS Naturals, Sequences, FiniteSets, SequencesExt, FiniteSetsExt

CONSTANT Absent \* what an answer may lack

MaxDepth == 3            \* MAX_DEPTH
PushDepth == 2           \* PUSH_DEPTH
PeerTimeoutSeconds == 8  \* PEER_TIMEOUT_SECONDS
FederationExpires == 600 \* FEDERATION_EXPIRES

\* Faulty variant: the same wait for every peer, whoever it asks in turn.
PeerTimeout_Flat(depth) == PeerTimeoutSeconds

\* peer_timeout: its own answer and the wait on each level below it.
PeerTimeout(depth) == PeerTimeoutSeconds * (depth + 1)

PeersOf(instance, visible) ==
    {instance.sources[id].peer : id \in DOMAIN instance.sources \cap visible} \ {Absent}

\* key_source: the first source by id lends its key.
KeySource(instance, visible, peer) ==
    instance.sources[Min({id \in DOMAIN instance.sources \cap visible : instance.sources[id].peer = peer})]

\* Topology::redacted: a peer's own peers and counts, and why it was not
\* asked, are the business of the key that asked.
Redacted(topology) ==
    [topology EXCEPT !.peers =
        [p \in DOMAIN @ |->
            [@[p] EXCEPT !.instance = IF @ = Absent THEN Absent ELSE [@ EXCEPT !.sources = Absent, !.peers = <<>>],
                         !.error = IF @ = "no credential" THEN "not asked" ELSE @]]]

\* Faulty variant: the peers' own maps go along.
ForPush_LinksOnly(topology) ==
    [topology EXCEPT !.peers =
        [p \in DOMAIN @ |-> [@[p] EXCEPT !.links = {IF l = "why it failed" THEN "failed" ELSE l : l \in @}]]]

\* for_push: that a link fails, not why.
ForPush(topology) ==
    [Redacted(topology) EXCEPT !.peers =
        [p \in DOMAIN @ |-> [@[p] EXCEPT !.links = {IF l = "why it failed" THEN "failed" ELSE l : l \in @}]]]

Links(instance, visible, peer) ==
    {IF instance.sources[id].failing THEN "why it failed" ELSE "fine" :
        id \in {x \in DOMAIN instance.sources \cap visible : instance.sources[x].peer = peer}}

Failed(error, takes) == [instance |-> Absent, error |-> error, takes |-> takes]

\* describe, and the answer of GET /topology behind it.  Asks run at the same
\* time, so an answer takes as long as the slowest of them.
RECURSIVE Describe(_, _, _, _), Answer(_, _, _, _)
Describe(world, i, visible, depth) ==
    LET me == world[i]
        spend == Min({depth, MaxDepth})
        answers == [p \in PeersOf(me, visible) |->
                       IF spend = 0 THEN Failed("depth", 0)
                       ELSE IF KeySource(me, visible, p).credential = "missing" THEN Failed("no credential", 0)
                       ELSE Answer(world, p, KeySource(me, visible, p).credential, spend - 1)]
    IN  [sources |-> Cardinality(DOMAIN me.sources \cap visible),
         peers |-> [p \in DOMAIN answers |-> [links |-> Links(me, visible, p),
                                              instance |-> answers[p].instance, error |-> answers[p].error]],
         takes |-> Max({0} \cup {answers[p].takes : p \in DOMAIN answers})]

\* A request to a peer, cut when its time is up.
Answer(world, p, credential, depth) ==
    LET peer == world[p]
        all == DOMAIN peer.sources
        told == IF credential = "admin" THEN Describe(world, p, all, depth)
                ELSE Redacted(Describe(world, p, peer.allowed, depth))
        takes == peer.delay + (IF peer.state = "up" /\ credential # "refused" THEN told.takes ELSE 0)
    IN  CASE peer.state = "down" -> Failed("unreachable", 0)
          [] peer.state = "breaks" -> Failed("internal", 0)
          [] \/ peer.state = "hangs"
             \/ takes > PeerTimeout(depth) -> Failed("late", PeerTimeout(depth))
          [] credential = "refused" -> Failed("refused", takes)
          [] peer.state = "old" -> [instance |-> [sources |-> Absent, peers |-> <<>>, takes |-> 0],
                                    error |-> Absent, takes |-> takes]
          [] OTHER -> [instance |-> told, error |-> Absent, takes |-> takes]

\* GET /topology
TopologyFor(world, i, admin, depth) ==
    LET visible == IF admin THEN DOMAIN world[i].sources ELSE world[i].allowed
        map == Describe(world, i, visible, depth)
    IN  IF admin THEN map ELSE Redacted(map)

\* push_federation: the map every peer that answered is sent, and the key it
\* goes with, the one the peer was asked with.
Pushed(world, i) ==
    LET all == DOMAIN world[i].sources
        map == Describe(world, i, all, PushDepth)
    IN  [to |-> [p \in {q \in DOMAIN map.peers : map.peers[q].instance # Absent} |->
                    KeySource(world[i], all, p).credential],
         map |-> ForPush(map)]

\* FederationStore: the last push of each sender, newest first, until it has
\* been silent too long.  pushes is a sequence of [by, at, map].
RecordPush(store, push) ==
    SelectSeq(store, LAMBDA p : push.at - p.at < FederationExpires /\ p.by # push.by) \o <<push>>

FederationList(pushes, now) ==
    Reverse(SelectSeq(FoldLeft(RecordPush, <<>>, pushes), LAMBDA p : now - p.at < FederationExpires))
=============================================================================
