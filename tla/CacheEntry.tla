----------------------------- MODULE CacheEntry -----------------------------
(***************************************************************************)
(* A cache entry (domain/cache_entry.rs): a dataset with the clocks that   *)
(* say how old it is.  Every operation here is one the program performs    *)
(* under the lock of the entry's shard, so each is one atomic function of  *)
(* the entry.                                                              *)
(*                                                                         *)
(* What a host's variables say is abstracted to the instant at which they  *)
(* were gathered, `at`, and the set of derived keys that enrichers have    *)
(* put beside them.  A group is its member hosts and the set of keys of    *)
(* its variables (no variables: the empty set).  Instants are seconds of   *)
(* the monotonic clock; Earliest is the first one it can represent.        *)
(***************************************************************************)
EXTENDS Integers, FiniteSets

CONSTANTS
    Hosts,       \* host names
    Groups,      \* group names
    MetaGroups,  \* `all` and `ungrouped`
    Keys,        \* derived keys of hosts, and keys of group variables
    Earliest     \* the earliest instant the clock can represent

ASSUME CacheEntryAssumption ==
    /\ MetaGroups \subseteq Groups
    /\ Earliest \in Int

-----------------------------------------------------------------------------
(* Maps.                                                                   *)

\* f with g's pairs added, g's value winning (HashMap::extend, insert).
Extend(f, g) ==
    [k \in DOMAIN f \cup DOMAIN g |-> IF k \in DOMAIN g THEN g[k] ELSE f[k]]

\* f without the keys in S (HashMap::remove).
Without(f, S) == [k \in DOMAIN f \ S |-> f[k]]

\* The same value for every key in S.
Const(S, v) == [k \in S |-> v]

-----------------------------------------------------------------------------
(* Values.                                                                 *)

HostVars == [at : Int, keys : SUBSET Keys]

Group == [hosts : SUBSET Hosts, vars : SUBSET Keys]

\* Group::default(): what a group recreated for a retained host starts from.
EmptyGroup == [hosts |-> {}, vars |-> {}]

IsEntry(e) ==
    /\ DOMAIN e = {"hostvars", "groups", "fetched", "ttl", "stamps", "complete"}
    /\ DOMAIN e.hostvars \subseteq Hosts
    /\ \A h \in DOMAIN e.hostvars : e.hostvars[h] \in HostVars
    /\ DOMAIN e.groups \subseteq Groups
    /\ \A g \in DOMAIN e.groups : e.groups[g] \in Group
    /\ e.fetched \in Int
    /\ e.ttl \in Nat
    /\ DOMAIN e.stamps \subseteq Hosts
    /\ \A h \in DOMAIN e.stamps : e.stamps[h] \in Int
    /\ e.complete \in BOOLEAN

is_meta_group(g) == g \in MetaGroups

add_group_members_Nobody(d, now) == d

\* Dataset::add_group_members: a host named only in a group is a host with
\* no variables.
add_group_members(d, now) ==
    LET named == UNION {d.groups[g].hosts : g \in DOMAIN d.groups}
        bare  == named \ DOMAIN d.hostvars
    IN  [d EXCEPT !.hostvars = Extend(@, Const(bare, [at |-> now, keys |-> {}]))]

-----------------------------------------------------------------------------
(* Building an entry.                                                      *)

\* Instant::checked_sub: is the instant `age` seconds ago representable?
Representable(now, age) == now - age >= Earliest

\* CacheEntry::new: gathered now, every host of it.
NewEntry(d, ttl, now) ==
    [hostvars |-> d.hostvars, groups |-> d.groups, fetched |-> now, ttl |-> ttl,
     stamps |-> Const(DOMAIN d.hostvars, now), complete |-> TRUE]

\* CacheEntry::restore: an entry whose ages are known.  A dataset older than
\* the clock is kept with a zero TTL; a host older than the clock, or without
\* an age, gets no timestamp.
Restore(d, ttl, age, hostAges, now) ==
    LET dated == {h \in DOMAIN hostAges : Representable(now, hostAges[h])}
        known == Representable(now, age)
    IN  [hostvars |-> d.hostvars, groups |-> d.groups,
         fetched |-> IF known THEN now - age ELSE now,
         ttl |-> IF known THEN ttl ELSE 0,
         stamps |-> [h \in dated |-> now - hostAges[h]],
         complete |-> TRUE]

SetTtl(e, ttl) == [e EXCEPT !.ttl = ttl]

MarkPartial(e) == [e EXCEPT !.complete = FALSE]
MarkGathered(e, now) == [e EXCEPT !.fetched = now, !.complete = TRUE]

-----------------------------------------------------------------------------
(* Reading it.                                                             *)

IsFresh(e, now) == e.complete /\ now - e.fetched < e.ttl

\* A host without a timestamp is never fresh.
IsHostFresh(e, h, ttl, now) == h \in DOMAIN e.stamps /\ now - e.stamps[h] < ttl

\* host_age_seconds, where a host without a timestamp counts as just gathered
\* (capture_host: unwrap_or(0)).
RetainedAge(e, h, now) == IF h \in DOMAIN e.stamps THEN now - e.stamps[h] ELSE 0

GroupsOf(d, h) == {g \in DOMAIN d.groups : h \in d.groups[g].hosts}

-----------------------------------------------------------------------------
(* Changing it.                                                            *)

\* Backdated by `age`, or now when the clock cannot represent that.
Backdate(now, age) == IF Representable(now, age) THEN now - age ELSE now

\* update_host_aged, for the hosts in the domain of vars.
UpdateHostsAged(e, vars, ages, now) ==
    [e EXCEPT !.hostvars = Extend(@, vars),
              !.stamps = Extend(@, [h \in DOMAIN vars |-> Backdate(now, ages[h])])]

\* Faulty variant: a host rejoins only the groups the new dataset still has.
JoinGroups_Existing(groups, joining) ==
    [g \in DOMAIN groups |-> IF g \in DOMAIN joining
                             THEN [groups[g] EXCEPT !.hosts = @ \cup joining[g]] ELSE groups[g]]

\* Insert the hosts in `joining[g]` into each group g, creating it if needed.
JoinGroups(groups, joining) ==
    Extend(groups,
           [g \in DOMAIN joining |->
               IF g \in DOMAIN groups
               THEN [groups[g] EXCEPT !.hosts = @ \cup joining[g]]
               ELSE [EmptyGroup EXCEPT !.hosts = joining[g]]])

\* capture_host of each host in `lost`, then restore_host into `e`: variables,
\* true age, and every group it was in.
RestoreHosts(e, before, lost, now) ==
    LET kept    == lost \cap DOMAIN before.hostvars
        updated == UpdateHostsAged(e, [h \in kept |-> before.hostvars[h]],
                                   [h \in kept |-> RetainedAge(before, h, now)], now)
        theirs  == UNION {GroupsOf(before, h) : h \in kept}
    IN  [updated EXCEPT !.groups =
            JoinGroups(@, [g \in theirs |-> kept \cap before.groups[g].hosts])]

\* set_host_groups of each host in the domain of `named`: it leaves the groups
\* not named for it and joins the ones that are; meta groups are nobody's to
\* change.
SetHostGroups(e, named) ==
    LET joined  == (UNION {named[h] : h \in DOMAIN named}) \ MetaGroups
        left    == [g \in DOMAIN e.groups |->
                       IF g \in MetaGroups THEN e.groups[g]
                       ELSE [e.groups[g] EXCEPT !.hosts =
                               {h \in @ : h \in DOMAIN named => g \in named[h]}]]
    IN  [e EXCEPT !.groups =
            JoinGroups(left, [g \in joined |-> {h \in DOMAIN named : g \in named[h]}])]

\* merge_hostvar_fields: keys are added to hosts that exist; no host is
\* introduced and no clock touched.
MergeHostvarFields(e, fields) ==
    [e EXCEPT !.hostvars =
        [h \in DOMAIN e.hostvars |-> IF h \in DOMAIN fields
                                     THEN [e.hostvars[h] EXCEPT !.keys = @ \cup fields[h]]
                                     ELSE e.hostvars[h]]]

\* merge_group_var_fields: keys are added to a group's variables, and a
\* missing group is created with the members the partial gives it.
MergeGroupVarFields(e, groups) ==
    LET withVars == {g \in DOMAIN groups : groups[g].vars # {}}
    IN  [e EXCEPT !.groups =
            Extend(@, [g \in withVars |->
                          IF g \in DOMAIN e.groups
                          THEN [e.groups[g] EXCEPT !.vars = @ \cup groups[g].vars]
                          ELSE groups[g]])]

LeaveGroups(groups, gone) ==
    [g \in DOMAIN groups |-> [groups[g] EXCEPT !.hosts = @ \ gone]]

\* merge_into: hosts and groups that come replace their counterparts, then
\* remove_hosts takes hosts out of everything.
MergeInto(e, d, restampExisting, now) ==
    LET stamped == IF restampExisting THEN DOMAIN d.hostvars
                                      ELSE DOMAIN d.hostvars \ DOMAIN e.stamps
    IN  [e EXCEPT
            !.hostvars = Without(Extend(@, d.hostvars), d.remove),
            !.stamps = Without(Extend(@, Const(stamped, now)), d.remove),
            !.groups = LeaveGroups(Extend(@, d.groups), d.remove)]

MergeDataset(e, d, now) == MergeInto(e, d, TRUE, now)

MergeEnrichment(e, d, now) == MergeInto(e, d, FALSE, now)

\* Faulty variant: the timestamp stays.
RemoveHost_KeepsStamp(e, h) ==
    [e EXCEPT !.hostvars = Without(@, {h}), !.groups = LeaveGroups(@, {h})]

RemoveHost(e, h) ==
    [e EXCEPT !.hostvars = Without(@, {h}), !.stamps = Without(@, {h}),
              !.groups = LeaveGroups(@, {h})]

\* update_group: the members of the group as the entry has it, and the
\* group's variables.
UpdateGroup(e, g, d, now) ==
    LET members == IF g \in DOMAIN e.groups THEN e.groups[g].hosts \cap DOMAIN d.hostvars
                                            ELSE {}
    IN  [e EXCEPT
            !.hostvars = Extend(@, [h \in members |-> d.hostvars[h]]),
            !.stamps = Extend(@, Const(members, now)),
            !.groups = IF g \in DOMAIN @ /\ g \in DOMAIN d.groups
                       THEN [@ EXCEPT ![g].vars = d.groups[g].vars] ELSE @]
=============================================================================
