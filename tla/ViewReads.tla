----------------------------- MODULE ViewReads -----------------------------
(***************************************************************************)
(* One read request and its answer, for every shape of read the source     *)
(* routes serve: a source's dataset, a view's, the shaping of variables,   *)
(* a name pattern, and the chain in which a view advertises its scope to   *)
(* the central above it.  Requests holds the requests explored, in batches,*)
(* each request with the snapshot it is answered from.                     *)
(***************************************************************************)
EXTENDS ViewRouting, SequencesExt

CONSTANT Requests

VARIABLES request, response

\* What is asked is explored, never constrained.
ReadInit ==
    /\ \E batch \in DOMAIN Requests : request \in Requests[batch]
    /\ response = None

Asked(what) == request.what = what /\ response = None

\* GET /dataset and /hosts of a source: a refusal, or the answers.
ReadSource ==
    /\ Asked("source")
    /\ response' =
         IF Refused(request.q) THEN [status |-> 400]
         ELSE IF request.q.refresh /\ ~request.refreshable THEN [status |-> 403]
         ELSE IF request.q.refresh /\ request.q.host \in {None, {}} THEN [status |-> 400]
         ELSE IF request.dataset = None THEN [status |-> 404]
         ELSE [status |-> 200,
               page |-> DatasetPage(request.dataset, request.q),
               hosts |-> HostList(request.dataset, request.q)]
    /\ UNCHANGED request

\* The same of a view, with its 404 for hosts nobody claims.
ReadView ==
    /\ Asked("view")
    /\ LET selection == ViewSelected(request.members, request.q)
       IN response' =
            IF Refused(request.q) THEN [status |-> 400]
            ELSE IF request.q.refresh /\ RefreshRefused(request.members, request.q.host)
                 THEN [status |-> 403]
            ELSE IF selection = None THEN [status |-> 404]
            ELSE [status |-> 200,
                  page |-> ViewPage(request.members, request.q),
                  hosts |-> selection,
                  age |-> ViewAge(request.members),
                  fresh |-> ViewFresh(request.members)]
    /\ UNCHANGED request

\* GET /groups and /groups/{group}, of a source or a view: a source that was
\* never read is not found, a view without data has no groups.
ListGroups(groups) ==
    response' = [status |-> 200, list |-> GroupList(groups), detail |-> GroupDetail(groups, request.group)]

ReadSourceGroups ==
    /\ Asked("groups") /\ request.of = "source"
    /\ IF request.members[1].entry = None THEN response' = [status |-> 404]
       ELSE ListGroups(request.members[1].entry.groups)
    /\ UNCHANGED request

ReadViewGroups ==
    /\ Asked("groups") /\ request.of = "view"
    /\ ListGroups(ViewGroups(request.members))
    /\ UNCHANGED request

\* GET /status of a source, by the names and groups of /dataset.
ReadSourceStatus ==
    /\ Asked("status") /\ request.of = "source"
    /\ LET m == request.members[1]
       IN response' =
            IF m.entry = None THEN [status |-> 404]
            ELSE [status |-> 200, age |-> m.age, fresh |-> m.fresh,
                  total |-> Cardinality(DOMAIN m.entry.hostvars),
                  statuses |-> SourceStatuses(m, Resolve(m.entry, request.q.host, request.q.group))]
    /\ UNCHANGED request

\* And of a view, with a report of every member.
ReadViewStatus ==
    /\ Asked("status") /\ request.of = "view"
    /\ LET selection == Select(request.members, request.q.host, request.q.group)
       IN response' =
            IF selection = None THEN [status |-> 404]
            ELSE [status |-> 200, age |-> ViewAge(request.members), fresh |-> ViewFresh(request.members),
                  total |-> Cardinality(ViewHosts(request.members)),
                  statuses |-> HostStatuses(request.ttl, request.members, selection),
                  members |-> MemberStatuses(request.ttl, request.members)]
    /\ UNCHANGED request

ShapeVars ==
    /\ Asked("vars")
    /\ response' = [status |-> 200, vars |-> ShapeHost(request.q, request.vars)]
    /\ UNCHANGED request

MatchName ==
    /\ Asked("name")
    /\ response' = [status |-> 200, matches |-> GlobWalk(request.pattern, request.text)]
    /\ UNCHANGED request

\* A region's view advertises, the central fetches the claim and routes by it
\* against the same inventory.
Advertise ==
    /\ Asked("scope")
    /\ LET claim == ViewClaim(request.members)
           member == [declared |-> [groups |-> {}, hosts |-> {}, advertised |-> TRUE],
                      claim |-> claim, inventory |-> request.inventory]
       IN response' = [status |-> 200, claimed |-> MemberClaimed(member)]
    /\ UNCHANGED request

ReadNext ==
    \/ ReadSource \/ ReadView
    \/ ReadSourceGroups \/ ReadViewGroups
    \/ ReadSourceStatus \/ ReadViewStatus
    \/ ShapeVars \/ MatchName \/ Advertise

-----------------------------------------------------------------------------
(* Properties. *)

Answers(what) == response # None /\ request.what = what /\ response.status = 200

\* The two ways to find a host's owner agree, everything a view serves comes
\* from the first member that claims the host, a member with nothing to route
\* by claims nothing, and /hosts names the hosts /dataset returns.
HostsComeFromTheirOwners ==
    Answers("view") =>
        LET members == request.members
            first(h, i) == MemberClaims(members[i], h) /\ \A j \in 1..(i - 1) : ~MemberClaims(members[j], h)
        IN /\ \A h \in DOMAIN Table(members) \cup response.hosts :
                 TableOwner(members, h) = ScanOwner(members, h)
           /\ \A h \in DOMAIN response.page.hostvars :
                 \E i \in DOMAIN members :
                    /\ first(h, i)
                    /\ response.page.hostvars[h] = ShapeHost(request.q, members[i].entry.hostvars[h])
           /\ \A i \in DOMAIN members :
                 (members[i].declared.advertised /\ members[i].claim = None
                    /\ IsCatchAll(members[i].declared)) => MemberClaimed(members[i]) = {}
           /\ request.q.limit = None /\ request.q.offset = 0
                => response.hosts = DOMAIN response.page.hostvars

\* A view of one source that owns all of it answers as the source does: the
\* consumer changes an id and nothing else.
ViewReadsLikeItsSource ==
    Answers("source") =>
        LET member == [entry |-> request.dataset, inventory |-> request.dataset, claim |-> None,
                       declared |-> [groups |-> {}, hosts |-> {}, advertised |-> FALSE]]
            q == [request.q EXCEPT !.limit = None, !.offset = 0]
            page == ViewPage(<<member>>, q)
        IN page # None => /\ page.hostvars = DatasetPage(request.dataset, q).hostvars
                          /\ q.groups # "matching" \/ q.group = None =>
                                page.groups = DatasetPage(request.dataset, q).groups

\* /status and /groups speak of what /dataset returns: the same hosts, each
\* judged by its owner's own data as the owner's status does where the view
\* sets no TTL; a view is as fresh as all its members and as old as the oldest;
\* a group counts the hosts that a read of it returns, from a source.  (A view
\* counts a member's hosts that it does not serve as well.)
StatusesSayWhatIsServed ==
    /\ Answers("status") =>
          LET members == request.members
              alone(m) == SourceStatuses(m, DOMAIN m.entry.hostvars)
              page == IF request.of = "view" THEN ViewPage(members, request.q)
                      ELSE DatasetPage(members[1].entry, request.q)
          IN /\ DOMAIN response.statuses = DOMAIN page.hostvars
             /\ request.of = "view" =>
                   /\ request.ttl = None => \A h \in DOMAIN response.statuses :
                         \E i \in DOMAIN members : MemberClaims(members[i], h) /\ members[i].entry # None
                                                    /\ response.statuses[h] = alone(members[i])[h]
                   /\ response.fresh <=> \A i \in DOMAIN members : response.members[i].fresh
                   /\ \A h \in DOMAIN response.statuses : response.statuses[h].age <= response.age
    /\ Answers("groups") =>
          \A g \in DOMAIN response.list :
             /\ LET count == response.list[g].hostCount
                    m == request.members[1]
                IN IF request.of = "source" THEN count = Cardinality(Resolve(m.entry, None, {g}))
                   ELSE count >= Cardinality(Select(request.members, None, {g}))
             /\ g = request.group =>
                   /\ response.detail.hostCount = response.list[g].hostCount
                   /\ response.detail.vars # <<>> => response.list[g].hasVars

\* Reading page after page returns every selected host once.
PagesCoverTheSelection ==
    Answers("source") =>
        LET q == request.q
            pages(n) == PageOf(response.hosts, [q EXCEPT !.limit = q.limit, !.offset = n * q.limit])
        IN q.limit \notin {None, 0} =>
              \A h \in response.hosts :
                 Cardinality({n \in 0..Cardinality(response.hosts) : h \in pages(n)}) = 1

\* groups=matching keeps a group exactly when it, or a group below it, holds a
\* host of the page; no kept group names a group that was left out.
MatchingGroupsAreClosed ==
    Answers("source") /\ request.q.groups = "matching" =>
        LET all == Restrict(request.dataset.groups,
                     DOMAIN request.dataset.groups \cap
                        (IF request.q.group = None THEN DOMAIN request.dataset.groups ELSE request.q.group))
            page == PageOf(response.hosts, request.q)
            below(g) == {f[Len(f)] : f \in {c \in UNION {[1..n -> DOMAIN all] : n \in 1..Cardinality(DOMAIN all)} :
                            c[1] = g /\ \A i \in 1..(Len(c) - 1) : c[i + 1] \in all[c[i]].children}}
        IN /\ DOMAIN response.page.groups =
                 {g \in DOMAIN all : \E b \in below(g) : all[b].hosts \cap page # {}}
           /\ \A g \in DOMAIN response.page.groups :
                 response.page.groups[g].children \subseteq DOMAIN response.page.groups

\* What `fields` names reads as it did, what `exclude_fields` names is gone,
\* and a name in neither is untouched.  Where a dotted key stands beside the
\* object its path walks into, the name means the key and the path shows
\* through once the key is gone, so such names are left out.
PathsMeanTheSame ==
    Answers("vars") =>
        LET q == request.q
            gone(p) == \E i \in DOMAIN q.exclude : IsPrefix(q.exclude[i], p)
            cut(p) == \E i \in DOMAIN q.exclude : IsPrefix(p, q.exclude[i])
            kept(p) == q.fields = None \/ \E i \in DOMAIN q.fields : IsPrefix(q.fields[i], p)
            both(p) == \E k \in DOMAIN request.vars :
                          Len(k) > 1 /\ (IsPrefix(k, p) \/ IsPrefix(p, k))
        IN \A p \in request.paths :
              ~both(p) =>
                 /\ gone(p) => Lookup(response.vars, p) = None
                 /\ kept(p) /\ ~gone(p) /\ ~cut(p) =>
                       Lookup(response.vars, p) = Lookup(request.vars, p)

\* The glob walk accepts a name exactly when the pattern generates it: From[i]
\* is where the pattern from i on generates the rest of the text.
Generates(p, t) ==
    LET From[i \in 1..(Len(p) + 1)] ==
            IF i > Len(p) THEN {Len(t) + 1}
            ELSE {j \in 1..(Len(t) + 1) :
                    IF p[i] = "*" THEN \E k \in From[i + 1] : j <= k
                    ELSE j + 1 \in From[i + 1] /\ p[i] \in {"?", t[j]}}
    IN 1 \in From[1]

GlobAcceptsWhatItGenerates ==
    Answers("name") => (response.matches <=> Generates(request.pattern, request.text))

\* A view serves each host from the member that owns it, as that member would
\* serve it alone, and says of it what is so.
ViewsServeTheirMembers ==
    HostsComeFromTheirOwners /\ ViewReadsLikeItsSource /\ StatusesSayWhatIsServed

\* What a read selects means what it says: pages leave out no host,
\* `groups=matching` no group of theirs, names and patterns are read alike.
SelectionsMeanWhatTheySay ==
    PagesCoverTheSelection /\ MatchingGroupsAreClosed /\ PathsMeanTheSame /\ GlobAcceptsWhatItGenerates

\* What a central routes to a region's view, the view routes: what the comment
\* on effective_ownership promises.  It does not hold: README, section 5.
AdvertisementsDoNotWiden ==
    Answers("scope") => response.claimed \subseteq DOMAIN Table(request.members)
=============================================================================
