---------------------------- MODULE ApplyToCache ----------------------------
(***************************************************************************)
(* The life of one source's cache entry: everything that writes it, each   *)
(* write on the data of CacheEntry, and time passing between the writes.   *)
(*   apply_to_cache     full, host and group syncs (application/sync.rs)   *)
(*   put/delete_host    a host edited by hand (http/hosts.rs)              *)
(*   enrichers          additive and whole-host merges                     *)
(* Writers are taken one at a time: SourceSync and Enrichment interleave   *)
(* them.  A federated source's connector reports how old its data is; a    *)
(* local one gathered it just now and may report hosts it could not reach. *)
(***************************************************************************)
EXTENDS CacheEntry

CONSTANTS
    NoEntry,          \* nothing cached
    Sources,          \* the ways the source may be configured
    Ttl,              \* ttl_seconds
    StatusMayFail,    \* can the origin's status be unreadable?
    Layouts,          \* the groups a connector may return
    Never,            \* no full gather yet
    Uptime,           \* how far the clock has run when the program starts
    MaxTime,          \* bound: the clock
    MaxAge            \* bound: ages a remote origin reports

ASSUME ApplyToCacheAssumption ==
    /\ Sources \subseteq [remote : BOOLEAN, sync_mode : {"replace", "merge"},
                           host_sync_updates_group_vars : BOOLEAN]
    /\ StatusMayFail \in BOOLEAN
    /\ \A layout \in Layouts :
          DOMAIN layout \subseteq Groups /\ \A g \in DOMAIN layout : layout[g] \in Group
    /\ Ttl \in Nat /\ MaxTime \in Nat /\ MaxAge \in Nat
    /\ Uptime \in Earliest .. MaxTime
    /\ Never \notin Int

VARIABLES
    source,  \* its configuration, the same throughout
    entry,   \* the entry, or NoEntry
    now,     \* the monotonic clock
    owed,    \* hosts a cold scoped sync has still to date, then mark partial
    gathered, \* history: instant of the last full gather of the source
    did      \* history: the write just made, and the hosts it was about

vars == <<source, entry, now, owed, gathered, did>>

Federated == source.remote
SyncMode == source.sync_mode
UpdatesGroupVars == source.host_sync_updates_group_vars

-----------------------------------------------------------------------------

NothingOwed == [due |-> FALSE, ages |-> <<>>]

\* What a connector answers: the hosts in `got`, each with its true age, in
\* one of the layouts, and the ages it reports for them.
Ages(got) == IF Federated THEN [got -> 0 .. MaxAge] ELSE {Const(got, 0)}

Returned(got, ages, layout) ==
    [hostvars |-> [h \in got |-> [at |-> now - ages[h], keys |-> {}]],
     groups |-> layout, remove |-> {}]

\* The write just made: the hosts it was about, and those it could not reach.
Did(op, hosts) == [op |-> op, hosts |-> hosts, lost |-> {}]

TypeOK ==
    /\ entry = NoEntry \/ IsEntry(entry)
    /\ now \in Uptime .. MaxTime
    /\ entry # NoEntry => /\ entry.fetched <= now
                          /\ \A h \in DOMAIN entry.stamps : entry.stamps[h] <= now
    /\ owed.due \in BOOLEAN
    /\ gathered \in Int \cup {Never}

Init ==
    /\ source \in Sources
    /\ entry = NoEntry
    /\ now = Uptime
    /\ owed = NothingOwed
    /\ gathered = Never
    /\ did = Did("none", {})

\* The entry a full replace builds from what came back.
Replaced(d, reported) ==
    IF reported.some THEN Restore(d, Ttl, reported.age, reported.hosts, now)
                     ELSE NewEntry(d, Ttl, now)

\* A full sync: the dataset, the ages the connector reported (none, for a
\* local source or when the origin's status could not be read), the hosts
\* it could not reach.  The origin gathered its dataset `age` seconds ago.
FullSync(got, ages, layout, age, reported, unreachable) ==
    LET d    == add_group_members(Returned(got, ages, layout), now - age)
        lost == unreachable \ DOMAIN d.hostvars
    IN  /\ ~owed.due
        /\ entry' =
              IF SyncMode = "replace" /\ unreachable = {} THEN Replaced(d, reported)
              ELSE IF entry = NoEntry THEN NewEntry(d, Ttl, now)
              ELSE IF SyncMode = "replace"
              THEN RestoreHosts(Replaced(d, reported), entry, lost, now)
              ELSE MarkGathered(MergeDataset(SetTtl(entry, Ttl), d, now), now)
        /\ gathered' = now - age
        /\ did' = [Did("full", DOMAIN d.hostvars) EXCEPT !.lost = lost]
        /\ UNCHANGED <<now, owed>>

\* What a host-scoped sync writes to an entry that exists: the requested hosts
\* that were returned, where the connector places them, and (opt-in) the
\* variables of those groups.  Silence about groups is no statement.
ScopedWrite(e, requested, d, ages) ==
    LET updates == requested \cap DOMAIN d.hostvars
        dated   == UpdateHostsAged(SetTtl(e, Ttl), [h \in updates |-> d.hostvars[h]],
                                   ages, now)
        placed  == {h \in updates : GroupsOf(d, h) # {}}
        claimed == UNION {GroupsOf(d, h) : h \in placed}
        grouped == SetHostGroups(dated, [h \in placed |-> GroupsOf(d, h)])
    IN  IF UpdatesGroupVars
        THEN MergeGroupVarFields(grouped,
                [g \in claimed |-> [hosts |-> {}, vars |-> d.groups[g].vars]])
        ELSE grouped

\* A sync of the hosts in `requested`, with the ages the connector states.  On
\* a cold cache the whole dataset is inserted first; the ages and the partial
\* mark follow (FinishColdSync).
HostSync(requested, got, ages, layout, stated) ==
    LET d       == Returned(got, ages, layout)
        updates == requested \cap got
    IN  /\ ~owed.due
        /\ updates # {}
        /\ entry' = IF entry = NoEntry THEN NewEntry(d, Ttl, now)
                    ELSE ScopedWrite(entry, requested, d, stated)
        /\ owed' = IF entry # NoEntry THEN owed
                   ELSE [due |-> TRUE, ages |-> [h \in updates |-> stated[h]]]
        /\ did' = Did("host", updates)
        /\ UNCHANGED <<now, gathered>>

\* A sync of one group.
GroupSync(g, got, ages, layout) ==
    LET d == Returned(got, ages, layout)
    IN  /\ ~owed.due
        /\ entry' = IF entry = NoEntry THEN NewEntry(d, Ttl, now)
                    ELSE UpdateGroup(SetTtl(entry, Ttl), g, d, now)
        /\ owed' = IF entry # NoEntry THEN owed ELSE [NothingOwed EXCEPT !.due = TRUE]
        /\ did' = Did("group", got)
        /\ UNCHANGED <<now, gathered>>

\* Faulty variant: the entry is marked and its hosts keep the date of the pull.
FinishColdSync_MarkOnly ==
    /\ owed.due
    /\ entry' = MarkPartial(entry)
    /\ owed' = NothingOwed
    /\ did' = Did("mark", DOMAIN owed.ages)
    /\ UNCHANGED <<now, gathered>>

\* The second operation of a scoped sync that found nothing cached: the
\* returned hosts that are still there get their ages, the entry is marked
\* partial.  Hand edits and enrichers may have come in between.
FinishColdSync ==
    /\ owed.due
    /\ LET here == DOMAIN owed.ages \cap DOMAIN entry.hostvars
       IN  entry' = MarkPartial(UpdateHostsAged(entry, [h \in here |-> entry.hostvars[h]],
                                                owed.ages, now))
    /\ owed' = NothingOwed
    /\ did' = Did("mark", DOMAIN owed.ages)
    /\ UNCHANGED <<now, gathered>>

\* PUT and DELETE of a host, on an entry that exists.
PutHost(h) ==
    /\ entry # NoEntry
    /\ entry' = UpdateHostsAged(entry, Const({h}, [at |-> now, keys |-> {}]),
                                Const({h}, 0), now)
    /\ did' = Did("put", {h})
    /\ UNCHANGED <<now, owed, gathered>>

DeleteHost(h) ==
    /\ entry # NoEntry
    /\ h \in DOMAIN entry.hostvars
    /\ entry' = RemoveHost(entry, h)
    /\ did' = Did("delete", {h})
    /\ UNCHANGED <<now, owed, gathered>>

\* A declarative enricher adds keys to hosts the target has, and to groups;
\* `all` comes with the target's hosts.
EnrichFields(hosts, group, keys) ==
    /\ entry # NoEntry
    /\ LET members == IF is_meta_group(group) THEN DOMAIN entry.hostvars ELSE {}
       IN  entry' = MergeHostvarFields(
                        MergeGroupVarFields(entry, Const({group}, [hosts |-> members, vars |-> keys])),
                        Const(hosts, keys))
    /\ did' = Did("fields", hosts)
    /\ UNCHANGED <<now, owed, gathered>>

\* A script enricher returns the maps it read with its keys added, hosts of
\* its own, groups of hosts it knows, and hosts to remove.
EnrichScript(touched, introduced, removed, keys, layout) ==
    /\ entry # NoEntry
    /\ touched \subseteq DOMAIN entry.hostvars
    /\ introduced \cap DOMAIN entry.hostvars = {}
    /\ \A g \in DOMAIN layout : layout[g].hosts \subseteq DOMAIN entry.hostvars \cup introduced
    /\ LET d == [hostvars |-> Extend([h \in touched |-> [entry.hostvars[h] EXCEPT !.keys = @ \cup keys]],
                                     Const(introduced, [at |-> now, keys |-> keys])),
                 groups |-> layout, remove |-> removed]
       IN  entry' = MergeEnrichment(entry, d, now)
    /\ did' = Did("script", touched \cup introduced \cup removed)
    /\ UNCHANGED <<now, owed, gathered>>

\* No whole second passes between the two operations of one cold sync.
Tick ==
    /\ ~owed.due
    /\ now < MaxTime
    /\ now' = now + 1
    /\ did' = Did("tick", {})
    /\ UNCHANGED <<entry, owed, gathered>>

\* What a connector says of its data's age.  A local one says nothing; the
\* remote one tells the origin's ages, unless it could not read them.
Silent == [some |-> FALSE, age |-> 0, hosts |-> <<>>]

Reports(ages, age) ==
    IF ~Federated THEN {Silent}
    ELSE {[some |-> TRUE, age |-> age, hosts |-> ages]}
            \cup (IF StatusMayFail THEN {Silent} ELSE {})

\* The age a scoped write gives each host: what was reported, zero otherwise.
Stated(got, reported) ==
    [h \in got |-> IF h \in DOMAIN reported.hosts THEN reported.hosts[h] ELSE 0]

Sync ==
    \E got \in SUBSET Hosts, layout \in Layouts :
    \E ages \in Ages(got), age \in (IF Federated THEN 0 .. MaxAge ELSE {0}) :
    \E reported \in Reports(ages, age) :
        \/ \E unreachable \in (IF Federated THEN {{}} ELSE SUBSET Hosts) :
              FullSync(got, ages, layout, age, reported, unreachable)
        \/ \E requested \in SUBSET Hosts :
              \* the remote connector asks the origin for these hosts only
              /\ Federated => got \subseteq requested
              /\ HostSync(requested, got, ages, layout, Stated(got, reported))
        \/ \E g \in Groups : GroupSync(g, got, ages, layout)

Write ==
    \/ Sync
    \/ FinishColdSync
    \/ \E h \in Hosts : PutHost(h) \/ DeleteHost(h)
    \/ \E hosts \in SUBSET Hosts, group \in Groups, keys \in SUBSET Keys \ {{}} :
          EnrichFields(hosts, group, keys)
    \/ \E touched, introduced, removed \in SUBSET Hosts, keys \in SUBSET Keys \ {{}},
          layout \in Layouts :
          EnrichScript(touched, introduced, removed, keys, layout)

Next == (Write \/ Tick) /\ UNCHANGED source

Spec == Init /\ [][Next]_vars

-----------------------------------------------------------------------------
(* Properties.                                                             *)

Settled == entry # NoEntry /\ ~owed.due

\* Every host has a timestamp and every timestamp a host: one without is
\* missing from /status and never fresh (merge_into).  (A federated source's
\* timestamps are those its origin reported.)
StampsCoverHosts == ~Federated => DOMAIN entry.stamps = DOMAIN entry.hostvars

\* In replace mode, once the source has been gathered the members of its
\* groups are hosts of the dataset: no consumer renders a host that has none.
GroupsNameHosts ==
    (entry.complete /\ SyncMode = "replace") =>
        \A g \in DOMAIN entry.groups : entry.groups[g].hosts \subseteq DOMAIN entry.hostvars

\* Variables, timestamps and groups, which are written apart, speak of the same
\* hosts after any sequence of writes.
EntryIsCoherent == Settled => StampsCoverHosts /\ GroupsNameHosts

\* A host's timestamp is never later than the instant its variables were
\* really gathered, whatever wrote it, kept it or enriched it: a read that
\* asks for fresh data is never told stale data is fresh.  (Of a federated
\* source OriginDates says what holds.)
HonestAges ==
    (Settled /\ ~Federated) => \A h \in DOMAIN entry.stamps \cap DOMAIN entry.hostvars :
                  entry.stamps[h] <= entry.hostvars[h].at

\* An entry that says it is fresh follows a full gather of the source within
\* the TTL, however many scoped syncs, edits and enrichments came since.
FreshIsEarned ==
    (Settled /\ IsFresh(entry, now)) => gathered # Never /\ now - gathered < Ttl

\* What a full or host-scoped sync of a federated source dates, it dates as
\* the origin did, cold cache or not: no host it was about is left younger
\* than its data.
OriginDates ==
    (did'.op \in {"full", "host", "mark"} /\ ~owed'.due) =>
        \A h \in did'.hosts \cap DOMAIN entry'.stamps :
            entry'.stamps[h] <= entry'.hostvars[h].at

FederatedAgesKept == [][OriginDates]_vars

\* A host the connector could not reach keeps its variables, its true age and
\* every group it was in; it comes back from nothing.
Retention ==
    (did'.op = "full" /\ SyncMode = "replace" /\ entry # NoEntry) =>
        \A h \in did'.lost :
            IF h \in DOMAIN entry.hostvars
            THEN /\ h \in DOMAIN entry'.hostvars
                 /\ entry'.hostvars[h] = entry.hostvars[h]
                 /\ entry'.stamps[h] = entry.stamps[h]
                 /\ GroupsOf(entry, h) \subseteq GroupsOf(entry', h)
            ELSE h \notin DOMAIN entry'.hostvars

\* A replace drops every host that was neither returned nor unreachable, from
\* the variables, the timestamps and the groups: retention keeps no ghosts.
Replacement ==
    (did'.op = "full" /\ SyncMode = "replace") =>
        LET stays == did'.hosts \cup did'.lost
        IN  /\ DOMAIN entry'.hostvars \subseteq stays
            /\ DOMAIN entry'.stamps \subseteq stays
            /\ \A g \in DOMAIN entry'.groups : entry'.groups[g].hosts \subseteq stays

\* A full sync keeps the unreachable hosts whole, and nobody else.
OnlyTheUnreachableStay == [][Retention /\ Replacement]_vars

\* A host sync of an existing entry is about the hosts it named: it changes
\* nobody else's variables, timestamp or groups, not the dataset's own clock
\* and completeness, and no membership of a meta group.
OthersUntouched ==
    (did'.op = "host" /\ Settled) =>
        /\ \A h \in Hosts \ did'.hosts :
              /\ GroupsOf(entry', h) = GroupsOf(entry, h)
              /\ h \in DOMAIN entry.hostvars <=> h \in DOMAIN entry'.hostvars
              /\ h \in DOMAIN entry.hostvars => entry'.hostvars[h] = entry.hostvars[h]
              /\ h \in DOMAIN entry.stamps => entry'.stamps[h] = entry.stamps[h]
        /\ entry'.fetched = entry.fetched /\ entry'.complete = entry.complete
        /\ \A g \in MetaGroups \cap DOMAIN entry.groups :
              entry'.groups[g].hosts = entry.groups[g].hosts

\* Enrichment gathers nothing: it moves no clock, and what an additive
\* enricher does not own it does not erase.
Derived ==
    (did'.op \in {"fields", "script"}) =>
        /\ entry'.fetched = entry.fetched /\ entry'.complete = entry.complete
        /\ \A h \in DOMAIN entry.stamps \cap DOMAIN entry'.stamps :
              entry'.stamps[h] = entry.stamps[h]
        /\ did'.op = "fields" =>
              /\ DOMAIN entry'.hostvars = DOMAIN entry.hostvars
              /\ \A h \in DOMAIN entry.hostvars :
                    entry.hostvars[h].keys \subseteq entry'.hostvars[h].keys
              /\ \A g \in DOMAIN entry.groups :
                    /\ entry.groups[g].vars \subseteq entry'.groups[g].vars
                    /\ entry'.groups[g].hosts = entry.groups[g].hosts

\* Partial writes, the scoped sync and the enrichment, change nothing but what
\* they are about.
WritesStayInScope == [][OthersUntouched /\ Derived]_vars

\* What is checked, in three: the parts of an entry agree, it is no younger
\* than it says, and a write keeps to what it is about.
EntryIsSound == TypeOK /\ EntryIsCoherent

AgesAreTrue == [](HonestAges /\ FreshIsEarned) /\ FederatedAgesKept

WritesKeepWhatIsNotTheirs == OnlyTheUnreachableStay /\ WritesStayInScope

-----------------------------------------------------------------------------
(* What the comments and documents of the program say and the code does    *)
(* not do.                                                                 *)

\* "freshness at the central reflects the ORIGIN's age" (docs/federation.md):
\* a full sync that could read the origin's ages leaves a dataset no younger
\* than the origin's.
DatasetAgeIsTheOrigins == (Settled /\ gathered # Never) => entry.fetched <= gathered

\* The same per host: reporting "stays truthful across hops".  A group sync
\* dates the members it updates, or all it inserts, as gathered now.
HostAgesAreTheOrigins ==
    Settled => \A h \in DOMAIN entry.stamps \cap DOMAIN entry.hostvars :
                  entry.stamps[h] <= entry.hostvars[h].at

\* "it is still no fresher than the truth by more than the uptime"
\* (update_host_aged, on an age the clock cannot represent).
NoFresherThanUptime ==
    Settled => \A h \in DOMAIN entry.stamps \cap DOMAIN entry.hostvars :
                  entry.stamps[h] - entry.hostvars[h].at <= now - Earliest
=============================================================================
