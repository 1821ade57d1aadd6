---------------------------- MODULE ViewRouting ----------------------------
(***************************************************************************)
(* Views: several member sources read as one.  Which member owns a host,   *)
(* what the view serves from whom, how it merges groups, which ownership a *)
(* member routes by and which one the instance advertises to the next.     *)
(*                                                                         *)
(* A snapshot is a sequence of members, each                               *)
(*   [entry |-> dataset or None, age, fresh, ttl, hostTtls, groupTtls,     *)
(*    inventory |-> dataset or None,   (what its ownership resolves in)    *)
(*    declared |-> ownership, claim |-> what the source advertises or None,*)
(*    refreshable |-> its source allows on-demand refresh]                 *)
(* and an ownership is [groups, hosts, advertised].                        *)
(***************************************************************************)
EXTENDS HostSelection

-----------------------------------------------------------------------------
(* Ownership. *)

IsCatchAll(owns) == owns.groups = {} /\ owns.hosts = {}

Known(d) == DOMAIN d.hostvars \cup UNION {d.groups[g].hosts : g \in DOMAIN d.groups}

\* Ownership::claimed_hosts, the set form.
ClaimedHosts(owns, d) ==
    IF IsCatchAll(owns) THEN Known(d)
    ELSE owns.hosts \cup UNION {d.groups[g].hosts : g \in owns.groups \cap DOMAIN d.groups}

\* Ownership::claims, one host at a time.
Claims(owns, d, h) ==
    IF IsCatchAll(owns)
    THEN h \in DOMAIN d.hostvars \/ \E g \in DOMAIN d.groups : h \in d.groups[g].hosts
    ELSE \/ h \in owns.hosts
         \/ \E g \in owns.groups : g \in DOMAIN d.groups /\ h \in d.groups[g].hosts

\* Source::advertised_scope: the explicit block, else the pattern it gathers
\* by, else no claim.  A claim says catch_all in so many words.
SourceClaim(source) ==
    IF source.explicit # None
    THEN [groups |-> source.explicit.groups, hosts |-> source.explicit.hosts, catchAll |-> FALSE]
    ELSE IF source.gathers = None THEN None
    ELSE [groups |-> source.gathers.groups, hosts |-> source.gathers.hosts,
          catchAll |-> IsCatchAll(source.gathers)]

\* View::advertised_scope: the union of the members' declared patterns.
ViewClaim(members) ==
    LET all == {members[i].declared : i \in DOMAIN members}
    IN [groups   |-> UNION {o.groups : o \in all},
        hosts    |-> UNION {o.hosts : o \in all},
        catchAll |-> \E o \in all : IsCatchAll(o) /\ ~o.advertised]

\* effective_ownership: what a member routes by.  A claim's groups and hosts
\* become the pattern, its catch_all flag is not looked at.
Effective(m) ==
    IF ~m.declared.advertised THEN m.declared
    ELSE IF m.claim # None
         THEN [groups |-> m.claim.groups, hosts |-> m.claim.hosts, advertised |-> TRUE]
    ELSE IF ~IsCatchAll(m.declared) THEN [m.declared EXCEPT !.advertised = FALSE]
    ELSE None

\* MemberSnapshot::claims and claimed_hosts: without the inventory only the
\* hosts named one by one are claimed.
MemberClaims(m, h) ==
    LET owns == Effective(m)
    IN /\ owns # None
       /\ IF m.inventory = None THEN h \in owns.hosts ELSE Claims(owns, m.inventory, h)

MemberClaimed(m) ==
    LET owns == Effective(m)
    IN IF owns = None THEN {}
       ELSE IF m.inventory = None THEN owns.hosts ELSE ClaimedHosts(owns, m.inventory)

-----------------------------------------------------------------------------
(* Routing. *)

\* Faulty variant: a later member overwrites an earlier one.
Table_LastWins(members) ==
    [h \in UNION {MemberClaimed(members[i]) : i \in DOMAIN members} |->
        Max({i \in DOMAIN members : h \in MemberClaimed(members[i])})]

\* The table, filled member by member; the first to claim a host keeps it.
Table(members) ==
    [h \in UNION {MemberClaimed(members[i]) : i \in DOMAIN members} |->
        Min({i \in DOMAIN members : h \in MemberClaimed(members[i])})]

\* owner_index before the table exists: ask the members in order.
ScanOwner(members, h) ==
    LET claiming == {i \in DOMAIN members : MemberClaims(members[i], h)}
    IN IF claiming = {} THEN None ELSE [index |-> Min(claiming)]

\* The table is built for questions of many hosts and for the whole view.
TableOwner(members, h) ==
    IF h \in DOMAIN Table(members) THEN [index |-> Table(members)[h]] ELSE None

Owner(members, h) == ScanOwner(members, h)
OwnerOf(members, h) == members[Owner(members, h).index]

Has(m, h) == m.entry # None /\ h \in DOMAIN m.entry.hostvars

Serves(members, h) == Owner(members, h) # None /\ Has(OwnerOf(members, h), h)

\* hosts(): claimed by a member and present in that member's data.
ViewHosts(members) ==
    {h \in DOMAIN Table(members) : Has(members[Table(members)[h]], h)}

\* route(): the named hosts by owner, or refused whole.
Unclaimed(members, hosts) == {h \in hosts : Owner(members, h) = None}
Routes(members, hosts) ==
    [i \in {Owner(members, h).index : h \in hosts} |->
        {h \in hosts : Owner(members, h).index = i}]

\* refresh_before_reading: validated for every routed member before any
\* gather starts.
RefreshRefused(members, hosts) ==
    \/ hosts \in {None, {}}
    \/ Unclaimed(members, hosts) # {}
    \/ \E i \in DOMAIN Routes(members, hosts) : ~members[i].refreshable

-----------------------------------------------------------------------------
(* Reading. *)

InGroups(members, group) ==
    UNION {UNION {members[i].entry.groups[g].hosts : g \in group \cap DOMAIN members[i].entry.groups} :
              i \in {k \in DOMAIN members : members[k].entry # None}}

\* select(): as on a source, except that a named host nobody claims is an
\* error (None), and that a group's hosts must be served by the view.
Select(members, host, group) ==
    IF host # None /\ Unclaimed(members, host) # {} THEN None
    ELSE LET named == IF host = None THEN ViewHosts(members)
                      ELSE {h \in host : Has(OwnerOf(members, h), h)}
         IN IF group = None THEN named
            ELSE IF host = None THEN {h \in InGroups(members, group) : Serves(members, h)}
            ELSE named \cap InGroups(members, group)

\* Each host's variables come from its owner.
ViewVars(members, hosts) ==
    [h \in {x \in hosts : Serves(members, x)} |-> OwnerOf(members, h).entry.hostvars[h]]

\* Same-named groups unite hosts and children; the first variables win.
ViewGroups(members) ==
    LET cached == {i \in DOMAIN members : members[i].entry # None}
        having(g) == {i \in cached : g \in DOMAIN members[i].entry.groups}
        withVars(g) == {i \in having(g) : members[i].entry.groups[g].vars # None}
    IN [g \in UNION {DOMAIN members[i].entry.groups : i \in cached} |->
          [hosts    |-> UNION {members[i].entry.groups[g].hosts : i \in having(g)},
           children |-> UNION {members[i].entry.groups[g].children : i \in having(g)},
           vars     |-> IF withVars(g) = {} THEN None
                        ELSE members[Min(withVars(g))].entry.groups[g].vars]]

ViewSelected(members, q) ==
    LET selection == Select(members, ExactHosts(q), q.group)
    IN IF selection = None THEN None
       ELSE {h \in selection :
               FilterIsEmpty(q) \/ (Serves(members, h) /\ Matches(q, h, ViewVars(members, {h})[h]))}

\* The envelope of a view's dataset(); None is the 404 for an unclaimed host.
ViewPage(members, q) ==
    LET selection == ViewSelected(members, q)
        page == PageOf(selection, q)
        vars == ViewVars(members, page)
    IN IF selection = None THEN None
       ELSE [total    |-> Cardinality(selection),
             hostvars |-> [h \in DOMAIN vars |-> ShapeHost(q, vars[h])],
             groups   |-> GroupsOf(ViewGroups(members), page, q)]

\* A view is as old as its stalest cached member, and fresh when every member
\* is cached and fresh.
ViewAge(members) ==
    LET ages == {members[i].age : i \in {k \in DOMAIN members : members[k].entry # None}}
    IN IF ages = {} THEN 0 ELSE Max(ages)

ViewFresh(members) ==
    members # <<>> /\ \A i \in DOMAIN members : members[i].entry # None /\ members[i].fresh

\* A view's TTL replaces a member's default one, never an override of a host
\* or, tightest first, of its groups.
DefaultTtl(viewTtl, m) == IF viewTtl # None THEN viewTtl ELSE m.ttl

\* group_ttl_by_host: a host of several groups with one has the shortest.
GroupTtlByHost(m) ==
    LET listing(h) == {g \in DOMAIN m.groupTtls \cap DOMAIN m.entry.groups : h \in m.entry.groups[g].hosts}
    IN [h \in {x \in Known(m.entry) : listing(x) # {}} |-> Min({m.groupTtls[g] : g \in listing(h)})]

EffectiveTtl(viewTtl, m, h) ==
    IF h \in DOMAIN m.hostTtls THEN m.hostTtls[h]
    ELSE IF h \in DOMAIN GroupTtlByHost(m) THEN GroupTtlByHost(m)[h]
    ELSE DefaultTtl(viewTtl, m)

\* /status: each host's age against its TTL, in a source and, for a view, at
\* the member that owns it.
HostStatus(viewTtl, m, h) ==
    [age |-> m.age, fresh |-> m.age < EffectiveTtl(viewTtl, m, h), ttl |-> EffectiveTtl(viewTtl, m, h)]

SourceStatuses(m, hosts) ==
    [h \in hosts \cap DOMAIN m.entry.hostvars |-> HostStatus(None, m, h)]

HostStatuses(viewTtl, members, hosts) ==
    [h \in {x \in hosts : Serves(members, x)} |-> HostStatus(viewTtl, OwnerOf(members, h), h)]

\* And of each member: what it has, how old, by the view's TTL for it.
MemberStatuses(viewTtl, members) ==
    [i \in DOMAIN members |->
        LET m == members[i]
        IN [cached |-> m.entry # None, ownershipCached |-> m.inventory # None,
            age    |-> IF m.entry = None THEN None ELSE m.age,
            fresh  |-> m.entry # None /\ m.fresh,
            ttl    |-> DefaultTtl(viewTtl, m),
            total  |-> IF m.entry = None THEN 0 ELSE Cardinality(DOMAIN m.entry.hostvars)]]
=============================================================================
