-------------------------- MODULE ApplyToCacheProofs --------------------------
(***************************************************************************)
(* Proofs about CacheEntry and ApplyToCache: what each operation of an     *)
(* entry leaves of its hosts, groups and clocks, and what therefore holds  *)
(* of the entry of a source after any sequence of writes.                  *)
(***************************************************************************)
EXTENDS ApplyToCache, TLAPS

-----------------------------------------------------------------------------
(* The invariant.                                                          *)

\* Every clock of the entry shows a past instant that can be represented.
Instants(e, t) == e.fetched <= t /\ \A h \in DOMAIN e.stamps : e.stamps[h] \in Earliest .. t

\* A timestamp for each host, and a host for each timestamp.
Covered(e) == DOMAIN e.stamps = DOMAIN e.hostvars

\* No host is dated later than its variables were gathered.
Honest(e) == \A h \in DOMAIN e.stamps \cap DOMAIN e.hostvars : e.stamps[h] <= e.hostvars[h].at

\* The members of the groups are hosts of the entry.
Named(e) == \A g \in DOMAIN e.groups : e.groups[g].hosts \subseteq DOMAIN e.hostvars

\* An entry as it is kept: of a local source every host has its true date.
Kept(e, t, remote) == IsEntry(e) /\ Instants(e, t) /\ (~remote => Covered(e) /\ Honest(e))

\* What a local source returns it gathered just now.
Current(hostvars, t, remote) == ~remote => \A h \in DOMAIN hostvars : hostvars[h].at >= t

\* What a cold sync has still to do is on an entry it has just inserted: all
\* in it was gathered at this instant, when the source is local.
Owing ==
    /\ owed.due \in BOOLEAN
    /\ DOMAIN owed.ages \subseteq Hosts
    /\ \A h \in DOMAIN owed.ages : owed.ages[h] \in Nat
    /\ owed.due => Current(entry.hostvars, now, Federated)

IInv ==
    /\ source \in Sources /\ now \in Uptime .. MaxTime /\ gathered \in Int \cup {Never}
    /\ (entry # NoEntry \/ owed.due) => Kept(entry, now, Federated)
    /\ Owing
    /\ (entry # NoEntry /\ ~owed.due /\ entry.complete /\ SyncMode = "replace") => Named(entry)

-----------------------------------------------------------------------------
(* Maps.                                                                   *)

\* Extend, key by key.
LEMMA Extended ==
    ASSUME NEW f, NEW g
    PROVE  /\ DOMAIN Extend(f, g) = DOMAIN f \cup DOMAIN g
           /\ \A k \in DOMAIN g : Extend(f, g)[k] = g[k]
           /\ \A k \in DOMAIN f \ DOMAIN g : Extend(f, g)[k] = f[k]
  BY DEF Extend

\* Without, key by key.
LEMMA Reduced ==
    ASSUME NEW f, NEW S
    PROVE  /\ DOMAIN Without(f, S) = DOMAIN f \ S
           /\ \A k \in DOMAIN f \ S : Without(f, S)[k] = f[k]
  BY DEF Without

\* A map of hosts, of groups, of timestamps.
OfHosts(f) == DOMAIN f \subseteq Hosts /\ \A h \in DOMAIN f : f[h] \in HostVars
OfGroups(f) == DOMAIN f \subseteq Groups /\ \A g \in DOMAIN f : f[g] \in Group
OfStamps(f) == DOMAIN f \subseteq Hosts /\ \A h \in DOMAIN f : f[h] \in Int

\* An entry is its fields.
LEMMA EntryFields ==
    ASSUME NEW e
    PROVE  IsEntry(e) <=>
              /\ DOMAIN e = {"hostvars", "groups", "fetched", "ttl", "stamps", "complete"}
              /\ OfHosts(e.hostvars) /\ OfGroups(e.groups) /\ OfStamps(e.stamps)
              /\ e.fetched \in Int /\ e.ttl \in Nat /\ e.complete \in BOOLEAN
  BY DEF IsEntry, OfHosts, OfGroups, OfStamps

\* A map of hosts extended by one is one.
LEMMA ExtendedHosts ==
    ASSUME NEW f, NEW g, OfHosts(f), OfHosts(g)
    PROVE  OfHosts(Extend(f, g))
  <1> DEFINE x == Extend(f, g)
  <1>1. /\ DOMAIN x = DOMAIN f \cup DOMAIN g
        /\ \A k \in DOMAIN g : x[k] = g[k]
        /\ \A k \in DOMAIN f \ DOMAIN g : x[k] = f[k]
    BY Extended
  <1> HIDE DEF x
  <1>2. OfHosts(x)
    BY <1>1 DEF OfHosts
  <1>3. QED
    BY <1>2 DEF x

\* The same for groups.
LEMMA ExtendedGroups ==
    ASSUME NEW f, NEW g, OfGroups(f), OfGroups(g)
    PROVE  OfGroups(Extend(f, g))
  <1> DEFINE x == Extend(f, g)
  <1>1. /\ DOMAIN x = DOMAIN f \cup DOMAIN g
        /\ \A k \in DOMAIN g : x[k] = g[k]
        /\ \A k \in DOMAIN f \ DOMAIN g : x[k] = f[k]
    BY Extended
  <1> HIDE DEF x
  <1>2. OfGroups(x)
    BY <1>1 DEF OfGroups
  <1>3. QED
    BY <1>2 DEF x

\* The same for timestamps.
LEMMA ExtendedStamps ==
    ASSUME NEW f, NEW g, OfStamps(f), OfStamps(g)
    PROVE  OfStamps(Extend(f, g))
  <1> DEFINE x == Extend(f, g)
  <1>1. /\ DOMAIN x = DOMAIN f \cup DOMAIN g
        /\ \A k \in DOMAIN g : x[k] = g[k]
        /\ \A k \in DOMAIN f \ DOMAIN g : x[k] = f[k]
    BY Extended
  <1> HIDE DEF x
  <1>2. OfStamps(x)
    BY <1>1 DEF OfStamps
  <1>3. QED
    BY <1>2 DEF x

-----------------------------------------------------------------------------
(* The operations on an entry, field by field.                             *)

\* Hosts with their ages: they are dated, nothing else changes.
LEMMA HostsAged ==
    ASSUME NEW e, IsEntry(e), NEW aged, OfHosts(aged), NEW ages,
           \A h \in DOMAIN aged : ages[h] \in Nat, NEW t \in Int, t >= Earliest
    PROVE  LET u == UpdateHostsAged(e, aged, ages, t)
               dates == [h \in DOMAIN aged |-> Backdate(t, ages[h])]
           IN  /\ IsEntry(u)
               /\ u.hostvars = Extend(e.hostvars, aged) /\ u.stamps = Extend(e.stamps, dates)
               /\ u.groups = e.groups /\ u.fetched = e.fetched /\ u.ttl = e.ttl
               /\ u.complete = e.complete
               /\ \A h \in DOMAIN aged : dates[h] \in Earliest .. t
  <1> DEFINE u == UpdateHostsAged(e, aged, ages, t)
             dates == [h \in DOMAIN aged |-> Backdate(t, ages[h])]
  <1>1. \A h \in DOMAIN aged : dates[h] \in Earliest .. t
    BY CacheEntryAssumption DEF Backdate, Representable
  <1>2. OfStamps(dates)
    BY <1>1, CacheEntryAssumption DEF OfHosts, OfStamps
  <1>3. DOMAIN e = {"hostvars", "groups", "fetched", "ttl", "stamps", "complete"}
    BY DEF IsEntry
  <1>4. /\ DOMAIN u = DOMAIN e
        /\ u.hostvars = Extend(e.hostvars, aged) /\ u.stamps = Extend(e.stamps, dates)
        /\ u.groups = e.groups /\ u.fetched = e.fetched /\ u.ttl = e.ttl
        /\ u.complete = e.complete
    BY <1>3 DEF UpdateHostsAged
  <1> HIDE DEF u, dates
  <1>5. OfHosts(u.hostvars) /\ OfStamps(u.stamps)
    BY <1>2, <1>4, EntryFields, ExtendedHosts, ExtendedStamps
  <1>6. IsEntry(u)
    BY <1>4, <1>5, EntryFields
  <1>7. QED
    BY <1>1, <1>4, <1>6 DEF u, dates

\* Hosts that join groups.
LEMMA GroupsJoined ==
    ASSUME NEW groups, OfGroups(groups), NEW joining, DOMAIN joining \subseteq Groups,
           \A g \in DOMAIN joining : joining[g] \subseteq Hosts
    PROVE  LET j == JoinGroups(groups, joining)
           IN  /\ OfGroups(j) /\ DOMAIN j = DOMAIN groups \cup DOMAIN joining
               /\ \A g \in DOMAIN groups \ DOMAIN joining : j[g] = groups[g]
               /\ \A g \in DOMAIN groups \cap DOMAIN joining :
                     j[g].hosts = groups[g].hosts \cup joining[g] /\ j[g].vars = groups[g].vars
               /\ \A g \in DOMAIN joining \ DOMAIN groups :
                     j[g].hosts = joining[g] /\ j[g].vars = {}
  <1> DEFINE with == [g \in DOMAIN joining |->
                         IF g \in DOMAIN groups
                         THEN [groups[g] EXCEPT !.hosts = @ \cup joining[g]]
                         ELSE [EmptyGroup EXCEPT !.hosts = joining[g]]]
  <1>1. \A g \in DOMAIN joining \cap DOMAIN groups :
           /\ with[g] \in Group
           /\ with[g].hosts = groups[g].hosts \cup joining[g] /\ with[g].vars = groups[g].vars
    BY DEF OfGroups, Group
  <1>2. \A g \in DOMAIN joining \ DOMAIN groups :
           /\ with[g] \in Group
           /\ with[g].hosts = joining[g] /\ with[g].vars = {}
    BY DEF EmptyGroup, Group
  <1>3. DOMAIN with = DOMAIN joining
    OBVIOUS
  <1>4. JoinGroups(groups, joining) = Extend(groups, with)
    BY DEF JoinGroups
  <1> HIDE DEF with
  <1>5. OfGroups(with)
    BY <1>1, <1>2, <1>3 DEF OfGroups
  <1>6. /\ OfGroups(Extend(groups, with))
        /\ DOMAIN Extend(groups, with) = DOMAIN groups \cup DOMAIN with
        /\ \A k \in DOMAIN with : Extend(groups, with)[k] = with[k]
        /\ \A k \in DOMAIN groups \ DOMAIN with : Extend(groups, with)[k] = groups[k]
    BY <1>5, Extended, ExtendedGroups
  <1>7. QED
    BY <1>1, <1>2, <1>3, <1>4, <1>6

\* The groups that name a host are groups.
LEMMA GroupsOfAHost ==
    ASSUME NEW d, OfGroups(d.groups), NEW h
    PROVE  GroupsOf(d, h) \subseteq DOMAIN d.groups /\ GroupsOf(d, h) \subseteq Groups
  BY DEF GroupsOf, OfGroups

\* Hosts that are placed in groups leave the others; meta groups, and the
\* memberships of everyone else, stay.
LEMMA HostsPlaced ==
    ASSUME NEW e, IsEntry(e), NEW named, DOMAIN named \subseteq Hosts,
           \A h \in DOMAIN named : named[h] \subseteq Groups
    PROVE  LET u == SetHostGroups(e, named)
           IN  /\ IsEntry(u)
               /\ u.hostvars = e.hostvars /\ u.stamps = e.stamps
               /\ u.fetched = e.fetched /\ u.ttl = e.ttl /\ u.complete = e.complete
               /\ DOMAIN e.groups \subseteq DOMAIN u.groups
               /\ \A g \in DOMAIN u.groups \cap MetaGroups :
                     g \in DOMAIN e.groups /\ u.groups[g].hosts = e.groups[g].hosts
               /\ \A g \in DOMAIN u.groups : \A h \in u.groups[g].hosts :
                     \/ h \in DOMAIN named
                     \/ g \in DOMAIN e.groups /\ h \in e.groups[g].hosts
               /\ \A g \in DOMAIN e.groups :
                     e.groups[g].hosts \ DOMAIN named \subseteq u.groups[g].hosts
  <1> DEFINE joined == (UNION {named[h] : h \in DOMAIN named}) \ MetaGroups
             joining == [g \in joined |-> {h \in DOMAIN named : g \in named[h]}]
             left == [g \in DOMAIN e.groups |->
                         IF g \in MetaGroups THEN e.groups[g]
                         ELSE [e.groups[g] EXCEPT !.hosts =
                                 {h \in @ : h \in DOMAIN named => g \in named[h]}]]
             u == SetHostGroups(e, named)
             j == JoinGroups(left, joining)
  <1>1. OfGroups(e.groups)
    BY EntryFields
  <1>2. /\ DOMAIN left = DOMAIN e.groups
        /\ \A g \in DOMAIN e.groups : g \in MetaGroups => left[g] = e.groups[g]
        /\ \A g \in DOMAIN e.groups :
              /\ left[g] \in Group
              /\ left[g].hosts \subseteq e.groups[g].hosts
              /\ e.groups[g].hosts \ DOMAIN named \subseteq left[g].hosts
    BY <1>1 DEF OfGroups, Group
  <1>3. /\ DOMAIN joining \subseteq Groups \ MetaGroups
        /\ \A g \in DOMAIN joining : joining[g] \subseteq DOMAIN named
    OBVIOUS
  <1>4. u = [e EXCEPT !.groups = j]
    BY DEF SetHostGroups
  <1> HIDE DEF left, joining, u
  <1>5. OfGroups(left)
    BY <1>1, <1>2 DEF OfGroups
  <1>6. /\ OfGroups(j) /\ DOMAIN j = DOMAIN left \cup DOMAIN joining
        /\ \A g \in DOMAIN left \ DOMAIN joining : j[g] = left[g]
        /\ \A g \in DOMAIN left \cap DOMAIN joining :
              j[g].hosts = left[g].hosts \cup joining[g] /\ j[g].vars = left[g].vars
        /\ \A g \in DOMAIN joining \ DOMAIN left :
              j[g].hosts = joining[g] /\ j[g].vars = {}
    <2>1. DOMAIN joining \subseteq Groups /\ \A g \in DOMAIN joining : joining[g] \subseteq Hosts
      BY <1>3
    <2>2. QED
      BY <1>5, <2>1, GroupsJoined
  <1> HIDE DEF j
  <1>7. /\ DOMAIN u = DOMAIN e
        /\ u.hostvars = e.hostvars /\ u.stamps = e.stamps /\ u.groups = j
        /\ u.fetched = e.fetched /\ u.ttl = e.ttl /\ u.complete = e.complete
    BY <1>4 DEF IsEntry
  <1>8. IsEntry(u)
    BY <1>6, <1>7, EntryFields
  <1>9. /\ DOMAIN e.groups \subseteq DOMAIN j
        /\ \A g \in DOMAIN j \cap MetaGroups :
              g \in DOMAIN e.groups /\ j[g].hosts = e.groups[g].hosts
    BY <1>2, <1>3, <1>6
  <1>10. ASSUME NEW g \in DOMAIN j, NEW h \in j[g].hosts
         PROVE  h \in DOMAIN named \/ (g \in DOMAIN e.groups /\ h \in e.groups[g].hosts)
    <2>1. CASE g \in DOMAIN joining
      BY <1>2, <1>3, <1>6, <2>1
    <2>2. CASE g \notin DOMAIN joining
      BY <1>2, <1>6, <2>2
    <2>3. QED
      BY <2>1, <2>2
  <1>11. ASSUME NEW g \in DOMAIN e.groups
         PROVE  e.groups[g].hosts \ DOMAIN named \subseteq j[g].hosts
    <2>1. CASE g \in DOMAIN joining
      BY <1>2, <1>6, <2>1
    <2>2. CASE g \notin DOMAIN joining
      BY <1>2, <1>6, <2>2
    <2>3. QED
      BY <2>1, <2>2
  <1>12. QED
    BY <1>7, <1>8, <1>9, <1>10, <1>11 DEF u

\* Variables of groups: those that are there get them, those that are not are
\* created with the members that come with them.
LEMMA GroupVarsMerged ==
    ASSUME NEW e, IsEntry(e), NEW groups, OfGroups(groups)
    PROVE  LET u == MergeGroupVarFields(e, groups)
           IN  /\ IsEntry(u)
               /\ u.hostvars = e.hostvars /\ u.stamps = e.stamps
               /\ u.fetched = e.fetched /\ u.ttl = e.ttl /\ u.complete = e.complete
               /\ DOMAIN e.groups \subseteq DOMAIN u.groups
               /\ \A g \in DOMAIN e.groups : /\ u.groups[g].hosts = e.groups[g].hosts
                                             /\ e.groups[g].vars \subseteq u.groups[g].vars
               /\ \A g \in DOMAIN u.groups \ DOMAIN e.groups :
                     g \in DOMAIN groups /\ u.groups[g] = groups[g]
  <1> DEFINE withVars == {g \in DOMAIN groups : groups[g].vars # {}}
             new == [g \in withVars |->
                        IF g \in DOMAIN e.groups
                        THEN [e.groups[g] EXCEPT !.vars = @ \cup groups[g].vars]
                        ELSE groups[g]]
             x == Extend(e.groups, new)
             u == MergeGroupVarFields(e, groups)
  <1>1. OfGroups(e.groups)
    BY EntryFields
  <1>2. /\ DOMAIN new \subseteq DOMAIN groups
        /\ \A g \in DOMAIN new \cap DOMAIN e.groups :
              /\ new[g] \in Group
              /\ new[g].hosts = e.groups[g].hosts /\ e.groups[g].vars \subseteq new[g].vars
        /\ \A g \in DOMAIN new \ DOMAIN e.groups : new[g] = groups[g]
    BY <1>1 DEF OfGroups, Group
  <1>3. u = [e EXCEPT !.groups = x]
    BY DEF MergeGroupVarFields
  <1> HIDE DEF new, u
  <1>4. OfGroups(new)
    BY <1>2 DEF OfGroups
  <1>5. /\ OfGroups(x) /\ DOMAIN x = DOMAIN e.groups \cup DOMAIN new
        /\ \A g \in DOMAIN new : x[g] = new[g]
        /\ \A g \in DOMAIN e.groups \ DOMAIN new : x[g] = e.groups[g]
    BY <1>1, <1>4, Extended, ExtendedGroups
  <1> HIDE DEF x
  <1>6. /\ DOMAIN u = DOMAIN e
        /\ u.hostvars = e.hostvars /\ u.stamps = e.stamps /\ u.groups = x
        /\ u.fetched = e.fetched /\ u.ttl = e.ttl /\ u.complete = e.complete
    BY <1>3 DEF IsEntry
  <1>7. IsEntry(u)
    BY <1>5, <1>6, EntryFields
  <1>8. ASSUME NEW g \in DOMAIN e.groups
        PROVE  x[g].hosts = e.groups[g].hosts /\ e.groups[g].vars \subseteq x[g].vars
    <2>1. CASE g \in DOMAIN new
      BY <1>2, <1>5, <2>1
    <2>2. CASE g \notin DOMAIN new
      BY <1>5, <2>2
    <2>3. QED
      BY <2>1, <2>2
  <1>9. \A g \in DOMAIN x \ DOMAIN e.groups : g \in DOMAIN groups /\ x[g] = groups[g]
    BY <1>2, <1>5
  <1>10. QED
    BY <1>5, <1>6, <1>7, <1>8, <1>9 DEF u

\* Keys of hosts: nobody comes or goes, and no date changes.
LEMMA HostKeysMerged ==
    ASSUME NEW e, IsEntry(e), NEW fields, \A h \in DOMAIN fields : fields[h] \subseteq Keys
    PROVE  LET u == MergeHostvarFields(e, fields)
           IN  /\ IsEntry(u)
               /\ u.groups = e.groups /\ u.stamps = e.stamps
               /\ u.fetched = e.fetched /\ u.ttl = e.ttl /\ u.complete = e.complete
               /\ DOMAIN u.hostvars = DOMAIN e.hostvars
               /\ \A h \in DOMAIN e.hostvars :
                     /\ u.hostvars[h].at = e.hostvars[h].at
                     /\ e.hostvars[h].keys \subseteq u.hostvars[h].keys
  <1> DEFINE v == [h \in DOMAIN e.hostvars |->
                      IF h \in DOMAIN fields
                      THEN [e.hostvars[h] EXCEPT !.keys = @ \cup fields[h]]
                      ELSE e.hostvars[h]]
             u == MergeHostvarFields(e, fields)
  <1>1. OfHosts(e.hostvars)
    BY EntryFields
  <1>2. /\ DOMAIN v = DOMAIN e.hostvars
        /\ \A h \in DOMAIN e.hostvars : /\ v[h] \in HostVars
                                        /\ v[h].at = e.hostvars[h].at
                                        /\ e.hostvars[h].keys \subseteq v[h].keys
    BY <1>1 DEF OfHosts, HostVars
  <1>3. u = [e EXCEPT !.hostvars = v]
    BY DEF MergeHostvarFields
  <1> HIDE DEF v, u
  <1>4. /\ DOMAIN u = DOMAIN e
        /\ u.hostvars = v /\ u.stamps = e.stamps /\ u.groups = e.groups
        /\ u.fetched = e.fetched /\ u.ttl = e.ttl /\ u.complete = e.complete
    BY <1>3 DEF IsEntry
  <1>5. OfHosts(v)
    BY <1>1, <1>2 DEF OfHosts
  <1>6. IsEntry(u)
    BY <1>4, <1>5, EntryFields
  <1>7. QED
    BY <1>2, <1>4, <1>6 DEF u

\* Hosts that leave all groups.
LEMMA GroupsLeft ==
    ASSUME NEW groups, OfGroups(groups), NEW gone
    PROVE  LET l == LeaveGroups(groups, gone)
           IN  /\ OfGroups(l) /\ DOMAIN l = DOMAIN groups
               /\ \A g \in DOMAIN groups : l[g].hosts = groups[g].hosts \ gone
  <1> DEFINE l == LeaveGroups(groups, gone)
  <1>1. /\ DOMAIN l = DOMAIN groups
        /\ \A g \in DOMAIN groups : l[g] \in Group /\ l[g].hosts = groups[g].hosts \ gone
    BY DEF LeaveGroups, OfGroups, Group
  <1> HIDE DEF l
  <1>2. OfGroups(l)
    BY <1>1 DEF OfGroups
  <1>3. QED
    BY <1>1, <1>2 DEF l

\* What is returned, to be merged or inserted.
IsData(d) ==
    /\ DOMAIN d = {"hostvars", "groups", "remove"}
    /\ OfHosts(d.hostvars) /\ OfGroups(d.groups)

\* A merge: what comes replaces what was there, and then hosts are removed.
\* The hosts that stay or come are dated or keep their dates.
LEMMA Merged ==
    ASSUME NEW e, IsEntry(e), NEW d, IsData(d), NEW restamp \in BOOLEAN, NEW t \in Int
    PROVE  LET u == MergeInto(e, d, restamp, t)
               stamped == IF restamp THEN DOMAIN d.hostvars
                                     ELSE DOMAIN d.hostvars \ DOMAIN e.stamps
               all == Extend(e.groups, d.groups)
           IN  /\ IsEntry(u)
               /\ u.fetched = e.fetched /\ u.ttl = e.ttl /\ u.complete = e.complete
               /\ DOMAIN u.hostvars = (DOMAIN e.hostvars \cup DOMAIN d.hostvars) \ d.remove
               /\ \A h \in DOMAIN u.hostvars :
                     u.hostvars[h] = IF h \in DOMAIN d.hostvars THEN d.hostvars[h]
                                                                ELSE e.hostvars[h]
               /\ DOMAIN u.stamps = (DOMAIN e.stamps \cup stamped) \ d.remove
               /\ \A h \in DOMAIN u.stamps :
                     u.stamps[h] = IF h \in stamped THEN t ELSE e.stamps[h]
               /\ DOMAIN u.groups = DOMAIN e.groups \cup DOMAIN d.groups
               /\ \A g \in DOMAIN u.groups : u.groups[g].hosts = all[g].hosts \ d.remove
  <1> DEFINE u == MergeInto(e, d, restamp, t)
             stamped == IF restamp THEN DOMAIN d.hostvars
                                   ELSE DOMAIN d.hostvars \ DOMAIN e.stamps
             hosts == Extend(e.hostvars, d.hostvars)
             dates == Extend(e.stamps, Const(stamped, t))
             all == Extend(e.groups, d.groups)
  <1>1. /\ OfHosts(e.hostvars) /\ OfGroups(e.groups) /\ OfStamps(e.stamps)
        /\ OfHosts(d.hostvars) /\ OfGroups(d.groups)
    BY EntryFields DEF IsData
  <1>2. /\ DOMAIN u = DOMAIN e
        /\ u.hostvars = Without(hosts, d.remove) /\ u.stamps = Without(dates, d.remove)
        /\ u.groups = LeaveGroups(all, d.remove)
        /\ u.fetched = e.fetched /\ u.ttl = e.ttl /\ u.complete = e.complete
    BY DEF MergeInto, IsEntry
  <1>3. stamped \subseteq DOMAIN d.hostvars
    OBVIOUS
  <1>4. DOMAIN Const(stamped, t) = stamped /\ \A h \in stamped : Const(stamped, t)[h] = t
    BY DEF Const
  <1>5. OfStamps(Const(stamped, t))
    BY <1>1, <1>3, <1>4 DEF OfStamps, OfHosts
  <1> HIDE DEF u, stamped
  <1>6. /\ OfHosts(hosts) /\ DOMAIN hosts = DOMAIN e.hostvars \cup DOMAIN d.hostvars
        /\ \A k \in DOMAIN d.hostvars : hosts[k] = d.hostvars[k]
        /\ \A k \in DOMAIN e.hostvars \ DOMAIN d.hostvars : hosts[k] = e.hostvars[k]
    <2>1. OfHosts(hosts)
      BY <1>1, ExtendedHosts
    <2>2. /\ DOMAIN hosts = DOMAIN e.hostvars \cup DOMAIN d.hostvars
          /\ \A k \in DOMAIN d.hostvars : hosts[k] = d.hostvars[k]
          /\ \A k \in DOMAIN e.hostvars \ DOMAIN d.hostvars : hosts[k] = e.hostvars[k]
      BY Extended
    <2>3. QED
      BY <2>1, <2>2
  <1>7. /\ OfStamps(dates) /\ DOMAIN dates = DOMAIN e.stamps \cup stamped
        /\ \A k \in stamped : dates[k] = t
        /\ \A k \in DOMAIN e.stamps \ stamped : dates[k] = e.stamps[k]
    <2>1. OfStamps(dates)
      BY <1>1, <1>5, ExtendedStamps
    <2>2. /\ DOMAIN dates = DOMAIN e.stamps \cup DOMAIN Const(stamped, t)
          /\ \A k \in DOMAIN Const(stamped, t) : dates[k] = Const(stamped, t)[k]
          /\ \A k \in DOMAIN e.stamps \ DOMAIN Const(stamped, t) : dates[k] = e.stamps[k]
      BY Extended
    <2>3. QED
      BY <1>4, <2>1, <2>2
  <1>8. OfGroups(all) /\ DOMAIN all = DOMAIN e.groups \cup DOMAIN d.groups
    BY <1>1, Extended, ExtendedGroups
  <1> HIDE DEF hosts, dates, all
  <1>9. /\ DOMAIN u.hostvars = DOMAIN hosts \ d.remove
        /\ \A h \in DOMAIN u.hostvars : u.hostvars[h] = hosts[h]
    <2>1. /\ DOMAIN Without(hosts, d.remove) = DOMAIN hosts \ d.remove
          /\ \A k \in DOMAIN hosts \ d.remove : Without(hosts, d.remove)[k] = hosts[k]
      BY Reduced
    <2>2. QED
      BY <1>2, <2>1
  <1>10. /\ DOMAIN u.stamps = DOMAIN dates \ d.remove
         /\ \A h \in DOMAIN u.stamps : u.stamps[h] = dates[h]
    <2>1. /\ DOMAIN Without(dates, d.remove) = DOMAIN dates \ d.remove
          /\ \A k \in DOMAIN dates \ d.remove : Without(dates, d.remove)[k] = dates[k]
      BY Reduced
    <2>2. QED
      BY <1>2, <2>1
  <1>11. OfHosts(u.hostvars) /\ OfStamps(u.stamps)
    BY <1>6, <1>7, <1>9, <1>10 DEF OfHosts, OfStamps
  <1>12. /\ OfGroups(u.groups) /\ DOMAIN u.groups = DOMAIN all
         /\ \A g \in DOMAIN all : u.groups[g].hosts = all[g].hosts \ d.remove
    BY <1>2, <1>8, GroupsLeft
  <1>13. IsEntry(u)
    BY <1>2, <1>11, <1>12, EntryFields
  <1>14. \A h \in DOMAIN u.hostvars :
            u.hostvars[h] = IF h \in DOMAIN d.hostvars THEN d.hostvars[h] ELSE e.hostvars[h]
    BY <1>6, <1>9
  <1>15. \A h \in DOMAIN u.stamps : u.stamps[h] = IF h \in stamped THEN t ELSE e.stamps[h]
    BY <1>7, <1>10
  <1>16. QED
    BY <1>2, <1>6, <1>7, <1>8, <1>9, <1>10, <1>12, <1>13, <1>14, <1>15
    DEF u, stamped, all

\* A host that is removed is gone from all of the entry.
LEMMA HostRemoved ==
    ASSUME NEW e, IsEntry(e), NEW host
    PROVE  LET u == RemoveHost(e, host)
           IN  /\ IsEntry(u)
               /\ u.fetched = e.fetched /\ u.ttl = e.ttl /\ u.complete = e.complete
               /\ DOMAIN u.hostvars = DOMAIN e.hostvars \ {host}
               /\ \A h \in DOMAIN u.hostvars : u.hostvars[h] = e.hostvars[h]
               /\ DOMAIN u.stamps = DOMAIN e.stamps \ {host}
               /\ \A h \in DOMAIN u.stamps : u.stamps[h] = e.stamps[h]
               /\ DOMAIN u.groups = DOMAIN e.groups
               /\ \A g \in DOMAIN u.groups : u.groups[g].hosts = e.groups[g].hosts \ {host}
  <1> DEFINE u == RemoveHost(e, host)
  <1>1. OfHosts(e.hostvars) /\ OfGroups(e.groups) /\ OfStamps(e.stamps)
    BY EntryFields
  <1>2. /\ DOMAIN u = DOMAIN e
        /\ u.hostvars = Without(e.hostvars, {host}) /\ u.stamps = Without(e.stamps, {host})
        /\ u.groups = LeaveGroups(e.groups, {host})
        /\ u.fetched = e.fetched /\ u.ttl = e.ttl /\ u.complete = e.complete
    BY DEF RemoveHost, IsEntry
  <1> HIDE DEF u
  <1>3. /\ DOMAIN u.hostvars = DOMAIN e.hostvars \ {host}
        /\ \A h \in DOMAIN u.hostvars : u.hostvars[h] = e.hostvars[h]
    <2>1. /\ DOMAIN Without(e.hostvars, {host}) = DOMAIN e.hostvars \ {host}
          /\ \A k \in DOMAIN e.hostvars \ {host} : Without(e.hostvars, {host})[k] = e.hostvars[k]
      BY Reduced
    <2>2. QED
      BY <1>2, <2>1
  <1>4. /\ DOMAIN u.stamps = DOMAIN e.stamps \ {host}
        /\ \A h \in DOMAIN u.stamps : u.stamps[h] = e.stamps[h]
    <2>1. /\ DOMAIN Without(e.stamps, {host}) = DOMAIN e.stamps \ {host}
          /\ \A k \in DOMAIN e.stamps \ {host} : Without(e.stamps, {host})[k] = e.stamps[k]
      BY Reduced
    <2>2. QED
      BY <1>2, <2>1
  <1>5. /\ OfGroups(u.groups) /\ DOMAIN u.groups = DOMAIN e.groups
        /\ \A g \in DOMAIN e.groups : u.groups[g].hosts = e.groups[g].hosts \ {host}
    BY <1>1, <1>2, GroupsLeft
  <1>6. OfHosts(u.hostvars) /\ OfStamps(u.stamps)
    BY <1>1, <1>3, <1>4 DEF OfHosts, OfStamps
  <1>7. IsEntry(u)
    BY <1>2, <1>5, <1>6, EntryFields
  <1>8. QED
    BY <1>2, <1>3, <1>4, <1>5, <1>7 DEF u

\* u is e with the hosts in `members` updated from d and dated.
Updated(u, e, d, members, t) ==
    /\ IsEntry(u)
    /\ u.fetched = e.fetched /\ u.ttl = e.ttl /\ u.complete = e.complete
    /\ DOMAIN u.hostvars = DOMAIN e.hostvars \cup members
    /\ \A h \in DOMAIN u.hostvars :
          u.hostvars[h] = IF h \in members THEN d.hostvars[h] ELSE e.hostvars[h]
    /\ DOMAIN u.stamps = DOMAIN e.stamps \cup members
    /\ \A h \in DOMAIN u.stamps : u.stamps[h] = IF h \in members THEN t ELSE e.stamps[h]
    /\ DOMAIN u.groups = DOMAIN e.groups
    /\ \A g \in DOMAIN u.groups : u.groups[g].hosts = e.groups[g].hosts

\* A group sync: the members the entry knows are updated and dated.
LEMMA GroupUpdated ==
    ASSUME NEW e, IsEntry(e), NEW group, NEW d, IsData(d), NEW t \in Int
    PROVE  LET members == IF group \in DOMAIN e.groups
                          THEN e.groups[group].hosts \cap DOMAIN d.hostvars ELSE {}
           IN  Updated(UpdateGroup(e, group, d, t), e, d, members, t)
  <1> DEFINE u == UpdateGroup(e, group, d, t)
             members == IF group \in DOMAIN e.groups
                        THEN e.groups[group].hosts \cap DOMAIN d.hostvars ELSE {}
             theirs == [h \in members |-> d.hostvars[h]]
             groups == IF group \in DOMAIN e.groups /\ group \in DOMAIN d.groups
                       THEN [e.groups EXCEPT ![group].vars = d.groups[group].vars] ELSE e.groups
  <1>1. /\ OfHosts(e.hostvars) /\ OfGroups(e.groups) /\ OfStamps(e.stamps)
        /\ OfHosts(d.hostvars) /\ OfGroups(d.groups)
    BY EntryFields DEF IsData
  <1>2. /\ DOMAIN u = DOMAIN e
        /\ u.hostvars = Extend(e.hostvars, theirs) /\ u.stamps = Extend(e.stamps, Const(members, t))
        /\ u.groups = groups
        /\ u.fetched = e.fetched /\ u.ttl = e.ttl /\ u.complete = e.complete
    BY DEF UpdateGroup, IsEntry
  <1>3. members \subseteq DOMAIN d.hostvars
    OBVIOUS
  <1>4. /\ OfGroups(groups) /\ DOMAIN groups = DOMAIN e.groups
        /\ \A g \in DOMAIN groups : groups[g].hosts = e.groups[g].hosts
    <2>1. CASE group \in DOMAIN e.groups /\ group \in DOMAIN d.groups
      <3>1. groups = [e.groups EXCEPT ![group].vars = d.groups[group].vars]
        BY <2>1
      <3>2. e.groups[group] \in Group /\ d.groups[group] \in Group
        BY <1>1, <2>1 DEF OfGroups
      <3>3. QED
        BY <1>1, <2>1, <3>1, <3>2 DEF OfGroups, Group
    <2>2. CASE ~(group \in DOMAIN e.groups /\ group \in DOMAIN d.groups)
      BY <1>1, <2>2
    <2>3. QED
      BY <2>1, <2>2
  <1> HIDE DEF u, members, groups
  <1>5. /\ DOMAIN theirs = members /\ \A h \in members : theirs[h] = d.hostvars[h]
        /\ DOMAIN Const(members, t) = members /\ \A h \in members : Const(members, t)[h] = t
    BY DEF Const
  <1> HIDE DEF theirs
  <1>6. OfHosts(theirs) /\ OfStamps(Const(members, t))
    BY <1>1, <1>3, <1>5 DEF OfHosts, OfStamps
  <1>7. OfHosts(u.hostvars) /\ OfStamps(u.stamps)
    BY <1>1, <1>2, <1>6, ExtendedHosts, ExtendedStamps
  <1>8. IsEntry(u)
    BY <1>2, <1>4, <1>7, EntryFields
  <1>9. /\ DOMAIN u.hostvars = DOMAIN e.hostvars \cup members
        /\ \A h \in DOMAIN u.hostvars :
              u.hostvars[h] = IF h \in members THEN d.hostvars[h] ELSE e.hostvars[h]
    <2>1. /\ DOMAIN Extend(e.hostvars, theirs) = DOMAIN e.hostvars \cup DOMAIN theirs
          /\ \A k \in DOMAIN theirs : Extend(e.hostvars, theirs)[k] = theirs[k]
          /\ \A k \in DOMAIN e.hostvars \ DOMAIN theirs :
                Extend(e.hostvars, theirs)[k] = e.hostvars[k]
      BY Extended
    <2>2. QED
      BY <1>2, <1>5, <2>1
  <1>10. /\ DOMAIN u.stamps = DOMAIN e.stamps \cup members
         /\ \A h \in DOMAIN u.stamps : u.stamps[h] = IF h \in members THEN t ELSE e.stamps[h]
    <2> DEFINE now1 == Const(members, t)
    <2>1. /\ DOMAIN Extend(e.stamps, now1) = DOMAIN e.stamps \cup DOMAIN now1
          /\ \A k \in DOMAIN now1 : Extend(e.stamps, now1)[k] = now1[k]
          /\ \A k \in DOMAIN e.stamps \ DOMAIN now1 : Extend(e.stamps, now1)[k] = e.stamps[k]
      BY Extended
    <2>2. QED
      BY <1>2, <1>5, <2>1
  <1>11. QED
    BY <1>2, <1>4, <1>8, <1>9, <1>10 DEF u, members, Updated

\* A new entry.
LEMMA EntryMade ==
    ASSUME NEW d, IsData(d), NEW ttl \in Nat, NEW t \in Int
    PROVE  LET n == NewEntry(d, ttl, t)
           IN  /\ IsEntry(n) /\ n.hostvars = d.hostvars /\ n.groups = d.groups
               /\ n.fetched = t /\ n.complete = TRUE
               /\ DOMAIN n.stamps = DOMAIN d.hostvars
               /\ \A h \in DOMAIN d.hostvars : n.stamps[h] = t
  <1> DEFINE n == NewEntry(d, ttl, t)
  <1>1. /\ DOMAIN n = {"hostvars", "groups", "fetched", "ttl", "stamps", "complete"}
        /\ n.hostvars = d.hostvars /\ n.groups = d.groups
        /\ n.fetched = t /\ n.ttl = ttl /\ n.complete = TRUE
        /\ n.stamps = Const(DOMAIN d.hostvars, t)
    BY DEF NewEntry
  <1> HIDE DEF n
  <1>2. DOMAIN n.stamps = DOMAIN d.hostvars /\ \A h \in DOMAIN d.hostvars : n.stamps[h] = t
    BY <1>1 DEF Const
  <1>3. OfHosts(n.hostvars) /\ OfGroups(n.groups) /\ OfStamps(n.stamps)
    BY <1>1, <1>2 DEF IsData, OfHosts, OfStamps
  <1>4. IsEntry(n)
    BY <1>1, <1>3, EntryFields
  <1>5. QED
    BY <1>1, <1>2, <1>4 DEF n

\* An entry of known ages: no date is later than the age says, unless the clock
\* cannot show it, and then a host has no date.
LEMMA EntryRestored ==
    ASSUME NEW d, IsData(d), NEW ttl \in Nat, NEW age \in Nat, NEW ages,
           DOMAIN ages \subseteq Hosts, \A h \in DOMAIN ages : ages[h] \in Nat,
           NEW t \in Int, t >= Earliest
    PROVE  LET n == Restore(d, ttl, age, ages, t)
           IN  /\ IsEntry(n) /\ n.hostvars = d.hostvars /\ n.groups = d.groups
               /\ n.fetched <= t /\ n.complete = TRUE
               /\ DOMAIN n.stamps \subseteq DOMAIN ages
               /\ \A h \in DOMAIN n.stamps :
                     n.stamps[h] = t - ages[h] /\ n.stamps[h] \in Earliest .. t
  <1> DEFINE n == Restore(d, ttl, age, ages, t)
             dated == {h \in DOMAIN ages : Representable(t, ages[h])}
  <1>1. /\ DOMAIN n = {"hostvars", "groups", "fetched", "ttl", "stamps", "complete"}
        /\ n.hostvars = d.hostvars /\ n.groups = d.groups
        /\ n.fetched = (IF Representable(t, age) THEN t - age ELSE t)
        /\ n.ttl = (IF Representable(t, age) THEN ttl ELSE 0) /\ n.complete = TRUE
        /\ n.stamps = [h \in dated |-> t - ages[h]]
    BY DEF Restore
  <1> HIDE DEF n
  <1>2. DOMAIN n.stamps = dated /\ \A h \in dated : n.stamps[h] = t - ages[h]
    BY <1>1
  <1>3. \A h \in dated : t - ages[h] \in Earliest .. t
    BY CacheEntryAssumption DEF Representable
  <1>4. OfHosts(n.hostvars) /\ OfGroups(n.groups) /\ OfStamps(n.stamps)
    BY <1>1, <1>2, <1>3, CacheEntryAssumption DEF IsData, OfStamps
  <1>5. n.fetched \in Int /\ n.fetched <= t /\ n.ttl \in Nat
    BY <1>1
  <1>6. IsEntry(n)
    BY <1>1, <1>4, <1>5, EntryFields
  <1>7. QED
    BY <1>1, <1>2, <1>3, <1>5, <1>6 DEF n

\* The members of the groups of a dataset become hosts of it.
LEMMA MembersAdded ==
    ASSUME NEW d, IsData(d), NEW t \in Int
    PROVE  LET m == add_group_members(d, t)
           IN  /\ IsData(m) /\ m.groups = d.groups /\ m.remove = d.remove
               /\ DOMAIN d.hostvars \subseteq DOMAIN m.hostvars
               /\ \A h \in DOMAIN m.hostvars :
                     \/ h \in DOMAIN d.hostvars /\ m.hostvars[h] = d.hostvars[h]
                     \/ h \notin DOMAIN d.hostvars /\ m.hostvars[h].at = t
               /\ \A g \in DOMAIN m.groups : m.groups[g].hosts \subseteq DOMAIN m.hostvars
  <1> DEFINE m == add_group_members(d, t)
             named == UNION {d.groups[g].hosts : g \in DOMAIN d.groups}
             bare == named \ DOMAIN d.hostvars
             new == Const(bare, [at |-> t, keys |-> {}])
             x == Extend(d.hostvars, new)
  <1>1. OfHosts(d.hostvars) /\ OfGroups(d.groups)
    BY DEF IsData
  <1>2. bare \subseteq Hosts /\ bare \cap DOMAIN d.hostvars = {}
    BY <1>1 DEF OfGroups, Group
  <1>3. m = [d EXCEPT !.hostvars = x]
    BY DEF add_group_members
  <1>4. \A g \in DOMAIN d.groups : d.groups[g].hosts \subseteq DOMAIN d.hostvars \cup bare
    OBVIOUS
  <1> HIDE DEF m, bare
  <1>5. DOMAIN new = bare /\ \A h \in bare : new[h] = [at |-> t, keys |-> {}]
    BY DEF Const
  <1>6. \A h \in bare : new[h] \in HostVars /\ new[h].at = t
    BY <1>5 DEF HostVars
  <1> HIDE DEF new
  <1>7. OfHosts(new)
    BY <1>2, <1>5, <1>6 DEF OfHosts
  <1>8. OfHosts(x)
    BY <1>1, <1>7, ExtendedHosts
  <1>9. /\ DOMAIN x = DOMAIN d.hostvars \cup DOMAIN new
        /\ \A k \in DOMAIN new : x[k] = new[k]
        /\ \A k \in DOMAIN d.hostvars \ DOMAIN new : x[k] = d.hostvars[k]
    BY Extended
  <1> HIDE DEF x
  <1>10. DOMAIN m = DOMAIN d /\ m.hostvars = x /\ m.groups = d.groups /\ m.remove = d.remove
    BY <1>3 DEF IsData
  <1>11. IsData(m)
    BY <1>1, <1>8, <1>10 DEF IsData
  <1>12. \A h \in DOMAIN x :
            \/ h \in DOMAIN d.hostvars /\ x[h] = d.hostvars[h]
            \/ h \notin DOMAIN d.hostvars /\ x[h].at = t
    BY <1>2, <1>5, <1>6, <1>9
  <1>13. \A g \in DOMAIN d.groups : d.groups[g].hosts \subseteq DOMAIN x
    BY <1>4, <1>5, <1>9
  <1>14. QED
    BY <1>9, <1>10, <1>11, <1>12, <1>13 DEF m

\* Hosts that are kept come back as they were: variables, date and groups.
LEMMA HostsRestored ==
    ASSUME NEW e, IsEntry(e), NEW before, IsEntry(before), NEW lost,
           NEW t \in Int, t >= Earliest, Instants(before, t)
    PROVE  LET r == RestoreHosts(e, before, lost, t)
               kept == lost \cap DOMAIN before.hostvars
           IN  /\ IsEntry(r)
               /\ r.fetched = e.fetched /\ r.ttl = e.ttl /\ r.complete = e.complete
               /\ DOMAIN r.hostvars = DOMAIN e.hostvars \cup kept
               /\ \A h \in DOMAIN r.hostvars :
                     r.hostvars[h] = IF h \in kept THEN before.hostvars[h] ELSE e.hostvars[h]
               /\ DOMAIN r.stamps = DOMAIN e.stamps \cup kept
               /\ \A h \in DOMAIN r.stamps :
                     r.stamps[h] = IF h \notin kept THEN e.stamps[h]
                                   ELSE IF h \in DOMAIN before.stamps THEN before.stamps[h] ELSE t
               /\ DOMAIN e.groups \subseteq DOMAIN r.groups
               /\ \A g \in DOMAIN r.groups : \A h \in r.groups[g].hosts :
                     \/ h \in kept
                     \/ g \in DOMAIN e.groups /\ h \in e.groups[g].hosts
               /\ \A h \in kept : \A g \in GroupsOf(before, h) :
                     g \in DOMAIN r.groups /\ h \in r.groups[g].hosts
  <1> DEFINE r == RestoreHosts(e, before, lost, t)
             kept == lost \cap DOMAIN before.hostvars
             vars0 == [h \in kept |-> before.hostvars[h]]
             ages == [h \in kept |-> RetainedAge(before, h, t)]
             updated == UpdateHostsAged(e, vars0, ages, t)
             theirs == UNION {GroupsOf(before, h) : h \in kept}
             joining == [g \in theirs |-> kept \cap before.groups[g].hosts]
             j == JoinGroups(updated.groups, joining)
             dates == [h \in DOMAIN vars0 |-> Backdate(t, ages[h])]
  <1>1. /\ OfHosts(e.hostvars) /\ OfGroups(e.groups) /\ OfStamps(e.stamps)
        /\ OfHosts(before.hostvars) /\ OfGroups(before.groups) /\ OfStamps(before.stamps)
    BY EntryFields
  <1>2. DOMAIN vars0 = kept /\ OfHosts(vars0) /\ \A h \in kept : vars0[h] = before.hostvars[h]
    BY <1>1 DEF OfHosts
  <1>3. ASSUME NEW h \in kept
        PROVE  /\ ages[h] \in Nat
               /\ Backdate(t, ages[h]) =
                     IF h \in DOMAIN before.stamps THEN before.stamps[h] ELSE t
    BY CacheEntryAssumption DEF Instants, RetainedAge, Backdate, Representable
  <1>4. r = [updated EXCEPT !.groups = j]
    BY DEF RestoreHosts
  <1>5. /\ theirs \subseteq DOMAIN before.groups
        /\ \A h \in kept : \A g \in GroupsOf(before, h) :
              g \in theirs /\ h \in before.groups[g].hosts
    BY DEF GroupsOf
  <1>6. /\ DOMAIN joining = theirs /\ DOMAIN joining \subseteq Groups
        /\ \A g \in DOMAIN joining : joining[g] \subseteq Hosts
        /\ \A g \in DOMAIN joining : joining[g] = kept \cap before.groups[g].hosts
    BY <1>1, <1>5 DEF OfGroups, Group
  <1>7. /\ \A h \in DOMAIN vars0 : ages[h] \in Nat
        /\ \A h \in kept : dates[h] =
              IF h \in DOMAIN before.stamps THEN before.stamps[h] ELSE t
        /\ DOMAIN dates = kept
    BY <1>2, <1>3
  <1> HIDE DEF r, vars0, ages, theirs, joining
  <1>8. /\ IsEntry(updated)
        /\ updated.hostvars = Extend(e.hostvars, vars0) /\ updated.stamps = Extend(e.stamps, dates)
        /\ updated.groups = e.groups /\ updated.fetched = e.fetched /\ updated.ttl = e.ttl
        /\ updated.complete = e.complete
    BY <1>2, <1>7, HostsAged
  <1> HIDE DEF updated, dates
  <1>9. /\ OfGroups(j) /\ DOMAIN j = DOMAIN e.groups \cup DOMAIN joining
        /\ \A g \in DOMAIN e.groups \ DOMAIN joining : j[g] = e.groups[g]
        /\ \A g \in DOMAIN e.groups \cap DOMAIN joining :
              j[g].hosts = e.groups[g].hosts \cup joining[g]
        /\ \A g \in DOMAIN joining \ DOMAIN e.groups : j[g].hosts = joining[g]
    <2>1. j = JoinGroups(e.groups, joining)
      BY <1>8
    <2> DEFINE old == e.groups
               k == JoinGroups(old, joining)
    <2>2. /\ OfGroups(old) /\ DOMAIN joining \subseteq Groups
          /\ \A g \in DOMAIN joining : joining[g] \subseteq Hosts
      BY <1>1, <1>6
    <2> HIDE DEF old, j
    <2>3. /\ OfGroups(k) /\ DOMAIN k = DOMAIN old \cup DOMAIN joining
          /\ \A g \in DOMAIN old \ DOMAIN joining : k[g] = old[g]
          /\ \A g \in DOMAIN old \cap DOMAIN joining :
                k[g].hosts = old[g].hosts \cup joining[g] /\ k[g].vars = old[g].vars
          /\ \A g \in DOMAIN joining \ DOMAIN old :
                k[g].hosts = joining[g] /\ k[g].vars = {}
      BY <2>2, GroupsJoined
    <2> HIDE DEF k
    <2>4. j = k
      BY <2>1 DEF k, old
    <2>5. QED
      BY <2>3, <2>4 DEF old
  <1> HIDE DEF j
  <1>10. /\ DOMAIN r = DOMAIN updated /\ r.groups = j
         /\ r.hostvars = updated.hostvars /\ r.stamps = updated.stamps
         /\ r.fetched = updated.fetched /\ r.ttl = updated.ttl /\ r.complete = updated.complete
    BY <1>4, <1>8 DEF IsEntry
  <1>11. IsEntry(r)
    BY <1>8, <1>9, <1>10, EntryFields
  <1>12. /\ DOMAIN r.hostvars = DOMAIN e.hostvars \cup kept
         /\ \A h \in DOMAIN r.hostvars :
               r.hostvars[h] = IF h \in kept THEN before.hostvars[h] ELSE e.hostvars[h]
    <2>1. /\ DOMAIN Extend(e.hostvars, vars0) = DOMAIN e.hostvars \cup DOMAIN vars0
          /\ \A k \in DOMAIN vars0 : Extend(e.hostvars, vars0)[k] = vars0[k]
          /\ \A k \in DOMAIN e.hostvars \ DOMAIN vars0 :
                Extend(e.hostvars, vars0)[k] = e.hostvars[k]
      BY Extended
    <2> HIDE DEF kept
    <2>2. QED
      BY <1>2, <1>8, <1>10, <2>1
  <1>13. /\ DOMAIN r.stamps = DOMAIN e.stamps \cup kept
         /\ \A h \in DOMAIN r.stamps :
               r.stamps[h] = IF h \notin kept THEN e.stamps[h]
                             ELSE IF h \in DOMAIN before.stamps THEN before.stamps[h] ELSE t
    <2>1. /\ DOMAIN Extend(e.stamps, dates) = DOMAIN e.stamps \cup DOMAIN dates
          /\ \A k \in DOMAIN dates : Extend(e.stamps, dates)[k] = dates[k]
          /\ \A k \in DOMAIN e.stamps \ DOMAIN dates : Extend(e.stamps, dates)[k] = e.stamps[k]
      BY Extended
    <2> HIDE DEF kept
    <2>2. QED
      BY <1>7, <1>8, <1>10, <2>1
  <1>14. \A g \in DOMAIN j : \A h \in j[g].hosts :
            h \in kept \/ (g \in DOMAIN e.groups /\ h \in e.groups[g].hosts)
    <2> TAKE g \in DOMAIN j
    <2> TAKE h \in j[g].hosts
    <2>1. CASE g \in DOMAIN joining /\ g \in DOMAIN e.groups
      BY <1>6, <1>9, <2>1
    <2>2. CASE g \in DOMAIN joining /\ g \notin DOMAIN e.groups
      BY <1>6, <1>9, <2>2
    <2>3. CASE g \notin DOMAIN joining
      BY <1>9, <2>3
    <2>4. QED
      BY <2>1, <2>2, <2>3
  <1>15. ASSUME NEW h \in kept, NEW g \in GroupsOf(before, h)
         PROVE  g \in DOMAIN j /\ h \in j[g].hosts
    <2>1. g \in DOMAIN joining /\ h \in joining[g]
      BY <1>5, <1>6
    <2>2. CASE g \in DOMAIN e.groups
      BY <1>9, <2>1, <2>2
    <2>3. CASE g \notin DOMAIN e.groups
      BY <1>9, <2>1, <2>3
    <2>4. QED
      BY <2>2, <2>3
  <1>16. DOMAIN e.groups \subseteq DOMAIN j
    BY <1>9
  <1> HIDE DEF kept
  <1>17. QED
    BY <1>8, <1>10, <1>11, <1>12, <1>13, <1>14, <1>15, <1>16 DEF r, kept

\* w is e after a sync of the hosts in `updates`, which are updated, dated and
\* placed: that is all.
Synced(w, e, d, updates, ages) ==
    /\ IsEntry(w) /\ w.ttl = Ttl /\ w.fetched = e.fetched /\ w.complete = e.complete
    /\ DOMAIN w.hostvars = DOMAIN e.hostvars \cup updates
    /\ \A h \in DOMAIN w.hostvars :
          w.hostvars[h] = IF h \in updates THEN d.hostvars[h] ELSE e.hostvars[h]
    /\ DOMAIN w.stamps = DOMAIN e.stamps \cup updates
    /\ \A h \in DOMAIN w.stamps :
          w.stamps[h] = IF h \in updates THEN Backdate(now, ages[h]) ELSE e.stamps[h]
    /\ DOMAIN e.groups \subseteq DOMAIN w.groups
    /\ \A g \in DOMAIN e.groups \cap MetaGroups :
          w.groups[g].hosts = e.groups[g].hosts
    /\ \A g \in DOMAIN w.groups : \A h \in w.groups[g].hosts :
          \/ h \in updates
          \/ g \in DOMAIN e.groups /\ h \in e.groups[g].hosts
    /\ \A g \in DOMAIN e.groups : e.groups[g].hosts \ updates \subseteq w.groups[g].hosts

\* A sync of hosts, on an entry that exists: the hosts that were asked for and
\* came are updated, dated and placed, and that is all.
LEMMA HostsSynced ==
    ASSUME NEW e, IsEntry(e), NEW requested, NEW d, IsData(d), NEW ages,
           \A h \in requested \cap DOMAIN d.hostvars : ages[h] \in Nat,
           now \in Int, now >= Earliest
    PROVE  Synced(ScopedWrite(e, requested, d, ages), e, d, requested \cap DOMAIN d.hostvars, ages)
  <1> DEFINE w == ScopedWrite(e, requested, d, ages)
             updates == requested \cap DOMAIN d.hostvars
             theirs == [h \in updates |-> d.hostvars[h]]
             timed == SetTtl(e, Ttl)
             dated == UpdateHostsAged(timed, theirs, ages, now)
             placed == {h \in updates : GroupsOf(d, h) # {}}
             places == [h \in placed |-> GroupsOf(d, h)]
             grouped == SetHostGroups(dated, places)
             claimed == UNION {GroupsOf(d, h) : h \in placed}
             claims == [g \in claimed |-> [hosts |-> {}, vars |-> d.groups[g].vars]]
             merged == MergeGroupVarFields(grouped, claims)
             dates == [h \in DOMAIN theirs |-> Backdate(now, ages[h])]
  <1>1. /\ OfHosts(e.hostvars) /\ OfGroups(e.groups) /\ OfStamps(e.stamps)
        /\ OfHosts(d.hostvars) /\ OfGroups(d.groups)
    BY EntryFields DEF IsData
  <1>2. w = IF UpdatesGroupVars THEN merged ELSE grouped
    BY DEF ScopedWrite
  <1>3. /\ IsEntry(timed) /\ timed.hostvars = e.hostvars /\ timed.groups = e.groups
        /\ timed.stamps = e.stamps /\ timed.fetched = e.fetched /\ timed.complete = e.complete
        /\ timed.ttl = Ttl
    BY ApplyToCacheAssumption DEF SetTtl, IsEntry
  <1>4. /\ DOMAIN theirs = updates /\ OfHosts(theirs)
        /\ \A h \in updates : theirs[h] = d.hostvars[h]
    BY <1>1 DEF OfHosts
  <1>5. DOMAIN dates = updates /\ \A h \in updates : dates[h] = Backdate(now, ages[h])
    OBVIOUS
  <1>6. /\ DOMAIN places \subseteq updates /\ DOMAIN places \subseteq Hosts
        /\ \A h \in DOMAIN places : places[h] \subseteq Groups
    BY <1>1, GroupsOfAHost DEF OfHosts
  <1>7. OfGroups(claims) /\ \A g \in DOMAIN claims : claims[g].hosts = {}
    <2>1. claimed \subseteq DOMAIN d.groups
      BY <1>1, GroupsOfAHost
    <2> HIDE DEF claimed
    <2>2. QED
      BY <1>1, <2>1 DEF OfGroups, Group
  <1> HIDE DEF w, timed, theirs, places, claims
  <1>8. /\ IsEntry(dated)
        /\ dated.hostvars = Extend(e.hostvars, theirs) /\ dated.stamps = Extend(e.stamps, dates)
        /\ dated.groups = e.groups /\ dated.fetched = e.fetched /\ dated.complete = e.complete
        /\ dated.ttl = Ttl
    BY <1>3, <1>4, HostsAged
  <1> HIDE DEF dated, dates
  <1>9. /\ IsEntry(grouped)
        /\ grouped.hostvars = dated.hostvars /\ grouped.stamps = dated.stamps
        /\ grouped.fetched = e.fetched /\ grouped.complete = e.complete /\ grouped.ttl = Ttl
        /\ DOMAIN e.groups \subseteq DOMAIN grouped.groups
        /\ \A g \in DOMAIN grouped.groups \cap MetaGroups :
              g \in DOMAIN e.groups /\ grouped.groups[g].hosts = e.groups[g].hosts
        /\ \A g \in DOMAIN grouped.groups : \A h \in grouped.groups[g].hosts :
              \/ h \in DOMAIN places
              \/ g \in DOMAIN e.groups /\ h \in e.groups[g].hosts
        /\ \A g \in DOMAIN e.groups :
              e.groups[g].hosts \ DOMAIN places \subseteq grouped.groups[g].hosts
    BY <1>6, <1>8, HostsPlaced
  <1> HIDE DEF grouped
  <1>10. /\ IsEntry(merged)
         /\ merged.hostvars = grouped.hostvars /\ merged.stamps = grouped.stamps
         /\ merged.fetched = grouped.fetched /\ merged.complete = grouped.complete
         /\ merged.ttl = grouped.ttl
         /\ DOMAIN grouped.groups \subseteq DOMAIN merged.groups
         /\ \A g \in DOMAIN grouped.groups : merged.groups[g].hosts = grouped.groups[g].hosts
         /\ \A g \in DOMAIN merged.groups \ DOMAIN grouped.groups :
               g \in DOMAIN claims /\ merged.groups[g] = claims[g]
    BY <1>7, <1>9, GroupVarsMerged
  <1> HIDE DEF merged
  <1>11. /\ IsEntry(w) /\ w.ttl = Ttl /\ w.fetched = e.fetched /\ w.complete = e.complete
         /\ w.hostvars = dated.hostvars /\ w.stamps = dated.stamps
         /\ DOMAIN grouped.groups \subseteq DOMAIN w.groups
         /\ \A g \in DOMAIN grouped.groups : w.groups[g].hosts = grouped.groups[g].hosts
         /\ \A g \in DOMAIN w.groups \ DOMAIN grouped.groups : w.groups[g].hosts = {}
    <2>1. CASE UpdatesGroupVars
      BY <1>2, <1>7, <1>9, <1>10, <2>1
    <2>2. CASE ~UpdatesGroupVars
      BY <1>2, <1>9, <2>2
    <2>3. QED
      BY <2>1, <2>2
  <1>12. /\ DOMAIN w.hostvars = DOMAIN e.hostvars \cup updates
         /\ \A h \in DOMAIN w.hostvars :
               w.hostvars[h] = IF h \in updates THEN d.hostvars[h] ELSE e.hostvars[h]
    <2>1. /\ DOMAIN Extend(e.hostvars, theirs) = DOMAIN e.hostvars \cup DOMAIN theirs
          /\ \A k \in DOMAIN theirs : Extend(e.hostvars, theirs)[k] = theirs[k]
          /\ \A k \in DOMAIN e.hostvars \ DOMAIN theirs :
                Extend(e.hostvars, theirs)[k] = e.hostvars[k]
      BY Extended
    <2> HIDE DEF updates
    <2>2. QED
      BY <1>4, <1>8, <1>11, <2>1
  <1>13. /\ DOMAIN w.stamps = DOMAIN e.stamps \cup updates
         /\ \A h \in DOMAIN w.stamps :
               w.stamps[h] = IF h \in updates THEN Backdate(now, ages[h]) ELSE e.stamps[h]
    <2>1. /\ DOMAIN Extend(e.stamps, dates) = DOMAIN e.stamps \cup DOMAIN dates
          /\ \A k \in DOMAIN dates : Extend(e.stamps, dates)[k] = dates[k]
          /\ \A k \in DOMAIN e.stamps \ DOMAIN dates : Extend(e.stamps, dates)[k] = e.stamps[k]
      BY Extended
    <2> HIDE DEF updates
    <2>2. QED
      BY <1>5, <1>8, <1>11, <2>1
  <1> HIDE DEF updates
  <1>14. DOMAIN e.groups \subseteq DOMAIN w.groups
    BY <1>9, <1>11
  <1>15. \A g \in DOMAIN e.groups \cap MetaGroups : w.groups[g].hosts = e.groups[g].hosts
    BY <1>9, <1>11
  <1>16. \A g \in DOMAIN w.groups : \A h \in w.groups[g].hosts :
            h \in updates \/ (g \in DOMAIN e.groups /\ h \in e.groups[g].hosts)
    BY <1>6, <1>9, <1>11
  <1>17. \A g \in DOMAIN e.groups : e.groups[g].hosts \ updates \subseteq w.groups[g].hosts
    BY <1>6, <1>9, <1>11
  <1>18. QED
    BY <1>11, <1>12, <1>13, <1>14, <1>15, <1>16, <1>17 DEF w, updates, Synced

-----------------------------------------------------------------------------
(* Each operation leaves an entry as entries are kept.                     *)

\* An entry stays as entries are kept while time passes.
LEMMA TimePasses ==
    ASSUME NEW e, NEW remote, NEW t \in Int, Kept(e, t, remote)
    PROVE  Kept(e, t + 1, remote)
  BY CacheEntryAssumption DEF Kept, Instants, IsEntry

\* A new entry is as young as the data it was made of.
LEMMA MadeKept ==
    ASSUME NEW d, IsData(d), NEW ttl \in Nat, NEW remote, NEW t \in Int, t >= Earliest,
           Current(d.hostvars, t, remote)
    PROVE  Kept(NewEntry(d, ttl, t), t, remote)
  <1> DEFINE n == NewEntry(d, ttl, t)
  <1>1. IsEntry(n)
    BY EntryMade
  <1>2. /\ n.fetched = t
        /\ n.hostvars = d.hostvars /\ DOMAIN n.stamps = DOMAIN d.hostvars
        /\ \A h \in DOMAIN d.hostvars : n.stamps[h] = t
    BY DEF NewEntry, Const
  <1> HIDE DEF n
  <1>3. Instants(n, t)
    BY <1>2, CacheEntryAssumption DEF Instants
  <1>4. ~remote => Covered(n) /\ Honest(n)
    BY <1>2 DEF Covered, Honest, Current
  <1>5. Kept(n, t, remote)
    BY <1>1, <1>3, <1>4 DEF Kept
  <1>6. QED
    BY <1>5 DEF n

\* Hosts that are dated are as young as their dates.
LEMMA AgedKept ==
    ASSUME NEW e, NEW aged, OfHosts(aged), NEW ages, \A h \in DOMAIN aged : ages[h] \in Nat,
           NEW remote, NEW t \in Int, t >= Earliest, Kept(e, t, remote), Current(aged, t, remote)
    PROVE  Kept(UpdateHostsAged(e, aged, ages, t), t, remote)
  <1> DEFINE u == UpdateHostsAged(e, aged, ages, t)
             dates == [h \in DOMAIN aged |-> Backdate(t, ages[h])]
  <1>1. IsEntry(e) /\ Instants(e, t)
    BY DEF Kept
  <1>2. /\ IsEntry(u)
        /\ u.hostvars = Extend(e.hostvars, aged) /\ u.stamps = Extend(e.stamps, dates)
        /\ u.fetched = e.fetched
        /\ \A h \in DOMAIN aged : dates[h] \in Earliest .. t
    BY <1>1, HostsAged
  <1>3. DOMAIN dates = DOMAIN aged
    OBVIOUS
  <1> HIDE DEF u, dates
  <1>4. /\ DOMAIN u.hostvars = DOMAIN e.hostvars \cup DOMAIN aged
        /\ \A h \in DOMAIN aged : u.hostvars[h] = aged[h]
        /\ \A h \in DOMAIN e.hostvars \ DOMAIN aged : u.hostvars[h] = e.hostvars[h]
    <2> DEFINE x == Extend(e.hostvars, aged)
    <2>1. /\ DOMAIN x = DOMAIN e.hostvars \cup DOMAIN aged
          /\ \A h \in DOMAIN aged : x[h] = aged[h]
          /\ \A h \in DOMAIN e.hostvars \ DOMAIN aged : x[h] = e.hostvars[h]
      BY Extended
    <2> HIDE DEF x
    <2>2. QED
      BY <1>2, <2>1 DEF x
  <1>5. /\ DOMAIN u.stamps = DOMAIN e.stamps \cup DOMAIN aged
        /\ \A h \in DOMAIN aged : u.stamps[h] = dates[h]
        /\ \A h \in DOMAIN e.stamps \ DOMAIN aged : u.stamps[h] = e.stamps[h]
    <2> DEFINE x == Extend(e.stamps, dates)
    <2>1. /\ DOMAIN x = DOMAIN e.stamps \cup DOMAIN dates
          /\ \A h \in DOMAIN dates : x[h] = dates[h]
          /\ \A h \in DOMAIN e.stamps \ DOMAIN dates : x[h] = e.stamps[h]
      BY Extended
    <2> HIDE DEF x
    <2>2. QED
      BY <1>2, <1>3, <2>1 DEF x
  <1>6. Instants(u, t)
    BY <1>1, <1>2, <1>5 DEF Instants
  <1>7. ASSUME ~remote
        PROVE  Covered(u) /\ Honest(u)
    <2>1. Covered(e) /\ Honest(e) /\ \A h \in DOMAIN aged : aged[h].at >= t
      BY <1>7 DEF Kept, Current
    <2>2. Covered(u)
      BY <1>4, <1>5, <2>1 DEF Covered
    <2>3. ASSUME NEW h \in DOMAIN u.stamps
          PROVE  u.stamps[h] <= u.hostvars[h].at
      <3>1. CASE h \in DOMAIN aged
        <4>1. u.hostvars[h] = aged[h] /\ aged[h].at \in Int /\ aged[h].at >= t
          BY <1>4, <2>1, <3>1 DEF OfHosts, HostVars
        <4>2. u.stamps[h] = dates[h] /\ dates[h] \in Int /\ dates[h] <= t
          BY <1>2, <1>5, <3>1, CacheEntryAssumption
        <4>3. QED
          BY <4>1, <4>2
      <3>2. CASE h \notin DOMAIN aged
        BY <1>4, <1>5, <2>1, <3>2 DEF Covered, Honest
      <3>3. QED
        BY <3>1, <3>2
    <2>4. QED
      BY <2>2, <2>3 DEF Honest
  <1>8. Kept(u, t, remote)
    BY <1>2, <1>6, <1>7 DEF Kept
  <1>9. QED
    BY <1>8 DEF u

\* Hosts brought back are as old as they were, and are named by the groups they were in.
LEMMA RestoredKept ==
    ASSUME NEW e, NEW before, NEW lost, NEW remote \in BOOLEAN, NEW t \in Int, t >= Earliest,
           Kept(e, t, remote), Kept(before, t, remote), Named(e)
    PROVE  Kept(RestoreHosts(e, before, lost, t), t, remote)
           /\ Named(RestoreHosts(e, before, lost, t))
  <1> DEFINE r == RestoreHosts(e, before, lost, t)
             kept == lost \cap DOMAIN before.hostvars
  <1>1. IsEntry(e) /\ Instants(e, t) /\ IsEntry(before) /\ Instants(before, t)
    BY DEF Kept
  <1>2. /\ IsEntry(r) /\ r.fetched = e.fetched
        /\ DOMAIN r.hostvars = DOMAIN e.hostvars \cup kept
        /\ \A h \in DOMAIN r.hostvars :
              r.hostvars[h] = IF h \in kept THEN before.hostvars[h] ELSE e.hostvars[h]
        /\ DOMAIN r.stamps = DOMAIN e.stamps \cup kept
        /\ \A h \in DOMAIN r.stamps :
              r.stamps[h] = IF h \notin kept THEN e.stamps[h]
                            ELSE IF h \in DOMAIN before.stamps THEN before.stamps[h] ELSE t
        /\ \A g \in DOMAIN r.groups : \A h \in r.groups[g].hosts :
              \/ h \in kept
              \/ g \in DOMAIN e.groups /\ h \in e.groups[g].hosts
    BY <1>1, HostsRestored
  <1> HIDE DEF r
  <1>3. kept \subseteq DOMAIN before.hostvars
    OBVIOUS
  <1> HIDE DEF kept
  <1>4. Instants(r, t)
    BY <1>1, <1>2, CacheEntryAssumption DEF Instants
  <1>5. ASSUME ~remote
        PROVE  Covered(r) /\ Honest(r)
    <2>1. Covered(e) /\ Honest(e) /\ Covered(before) /\ Honest(before)
      BY <1>5 DEF Kept
    <2>2. Covered(r)
      BY <1>2, <2>1 DEF Covered
    <2>3. ASSUME NEW h \in DOMAIN r.stamps
          PROVE  r.stamps[h] <= r.hostvars[h].at
      <3>1. CASE h \in kept
        <4>1. h \in DOMAIN before.stamps /\ before.stamps[h] <= before.hostvars[h].at
          BY <1>3, <2>1, <3>1 DEF Covered, Honest
        <4>2. r.stamps[h] = before.stamps[h] /\ r.hostvars[h] = before.hostvars[h]
          BY <1>2, <2>2, <3>1, <4>1 DEF Covered
        <4>3. QED
          BY <4>1, <4>2
      <3>2. CASE h \notin kept
        <4>1. h \in DOMAIN e.stamps /\ e.stamps[h] <= e.hostvars[h].at
          BY <1>2, <2>1, <3>2 DEF Covered, Honest
        <4>2. r.stamps[h] = e.stamps[h] /\ r.hostvars[h] = e.hostvars[h]
          BY <1>2, <2>2, <3>2 DEF Covered
        <4>3. QED
          BY <4>1, <4>2
      <3>3. QED
        BY <3>1, <3>2
    <2>4. QED
      BY <2>2, <2>3 DEF Honest
  <1>6. Named(r)
    BY <1>2 DEF Named
  <1>7. Kept(r, t, remote)
    BY <1>2, <1>4, <1>5 DEF Kept
  <1>8. QED
    BY <1>6, <1>7 DEF r

\* What comes is as young as the date it gets, or keeps.
LEMMA MergedKept ==
    ASSUME NEW e, NEW d, IsData(d), NEW restamp \in BOOLEAN, NEW remote, NEW t \in Int,
           t >= Earliest, Kept(e, t, remote),
           ~remote => \A h \in DOMAIN d.hostvars :
                         \/ d.hostvars[h].at >= t
                         \/ ~restamp /\ h \in DOMAIN e.stamps /\ d.hostvars[h].at >= e.stamps[h]
    PROVE  Kept(MergeInto(e, d, restamp, t), t, remote)
  <1> DEFINE u == MergeInto(e, d, restamp, t)
             stamped == IF restamp THEN DOMAIN d.hostvars ELSE DOMAIN d.hostvars \ DOMAIN e.stamps
  <1>1. IsEntry(e) /\ Instants(e, t)
    BY DEF Kept
  <1>2. /\ IsEntry(u) /\ u.fetched = e.fetched
        /\ DOMAIN u.hostvars = (DOMAIN e.hostvars \cup DOMAIN d.hostvars) \ d.remove
        /\ \A h \in DOMAIN u.hostvars :
              u.hostvars[h] = IF h \in DOMAIN d.hostvars THEN d.hostvars[h] ELSE e.hostvars[h]
        /\ DOMAIN u.stamps = (DOMAIN e.stamps \cup stamped) \ d.remove
        /\ \A h \in DOMAIN u.stamps : u.stamps[h] = IF h \in stamped THEN t ELSE e.stamps[h]
    BY <1>1, Merged
  <1> HIDE DEF u
  <1>3. Instants(u, t)
    <2> HIDE DEF stamped
    <2>1. QED
      BY <1>1, <1>2, CacheEntryAssumption DEF Instants
  <1>4. ASSUME ~remote
        PROVE  Covered(u) /\ Honest(u)
    <2>1. DOMAIN e.stamps = DOMAIN e.hostvars
      BY <1>4 DEF Kept, Covered
    <2>2. DOMAIN u.stamps = DOMAIN u.hostvars
      BY <1>2, <2>1
    <2>3. \A h \in DOMAIN e.stamps : e.stamps[h] \in Int /\ e.stamps[h] <= t
      BY <1>1, CacheEntryAssumption DEF Instants
    <2>4. ASSUME NEW h \in DOMAIN u.stamps
          PROVE  u.stamps[h] <= u.hostvars[h].at
      <3>1. CASE h \in DOMAIN d.hostvars
        <4>1. u.hostvars[h] = d.hostvars[h] /\ d.hostvars[h].at \in Int
          BY <1>2, <2>2, <3>1 DEF IsData, OfHosts, HostVars
        <4>2. CASE h \in stamped
          <5>1. u.stamps[h] = t
            BY <1>2, <4>2
          <5>2. restamp \/ h \notin DOMAIN e.stamps
            BY <4>2
          <5>3. QED
            BY <1>4, <3>1, <4>1, <5>1, <5>2
        <4>3. CASE h \notin stamped
          <5>1. u.stamps[h] = e.stamps[h] /\ h \in DOMAIN e.stamps
            BY <1>2, <4>3
          <5>2. QED
            BY <1>4, <2>3, <3>1, <4>1, <5>1
        <4>4. QED
          BY <4>2, <4>3
      <3>2. CASE h \notin DOMAIN d.hostvars
        <4>1. h \notin stamped
          BY <3>2
        <4>2. u.stamps[h] = e.stamps[h] /\ u.hostvars[h] = e.hostvars[h] /\ h \in DOMAIN e.stamps
          BY <1>2, <2>2, <3>2, <4>1
        <4>3. QED
          BY <1>4, <2>1, <4>2 DEF Kept, Honest
      <3>3. QED
        BY <3>1, <3>2
    <2>5. QED
      BY <2>2, <2>4 DEF Covered, Honest
  <1>5. Kept(u, t, remote)
    BY <1>2, <1>3, <1>4 DEF Kept
  <1>6. QED
    BY <1>5 DEF u

-----------------------------------------------------------------------------
(* What a connector returns.                                               *)

\* The clock and the configuration.
LEMMA Context ==
    ASSUME IInv
    PROVE  /\ now \in Int /\ now >= Earliest /\ Earliest \in Int /\ Ttl \in Nat /\ MaxAge \in Nat
           /\ Federated \in BOOLEAN /\ SyncMode \in {"replace", "merge"}
  <1>1. source \in [remote : BOOLEAN, sync_mode : {"replace", "merge"},
                    host_sync_updates_group_vars : BOOLEAN]
    BY ApplyToCacheAssumption DEF IInv
  <1>2. now \in Uptime .. MaxTime /\ Uptime \in Earliest .. MaxTime
    BY ApplyToCacheAssumption DEF IInv
  <1>3. QED
    BY <1>1, <1>2, ApplyToCacheAssumption, CacheEntryAssumption DEF Federated, SyncMode

\* What a connector returns, and that of a local source is of this instant.
LEMMA ReturnedData ==
    ASSUME IInv, NEW got \in SUBSET Hosts, NEW layout \in Layouts, NEW ages \in Ages(got)
    PROVE  LET d == Returned(got, ages, layout)
           IN  /\ IsData(d) /\ DOMAIN d.hostvars = got /\ d.groups = layout /\ d.remove = {}
               /\ \A h \in got : ages[h] \in Nat /\ d.hostvars[h].at = now - ages[h]
               /\ DOMAIN ages = got /\ Current(d.hostvars, now, Federated)
  <1> DEFINE d == Returned(got, ages, layout)
  <1>1. /\ DOMAIN ages = got /\ \A h \in got : ages[h] \in Nat
        /\ ~Federated => \A h \in got : ages[h] = 0
    <2>1. CASE Federated
      BY <2>1, Context DEF Ages
    <2>2. CASE ~Federated
      BY <2>2 DEF Ages, Const
    <2>3. QED
      BY <2>1, <2>2
  <1>2. /\ DOMAIN d = {"hostvars", "groups", "remove"}
        /\ d.hostvars = [h \in got |-> [at |-> now - ages[h], keys |-> {}]]
        /\ d.groups = layout /\ d.remove = {}
    BY DEF Returned
  <1> HIDE DEF d
  <1>3. \A h \in got : d.hostvars[h] \in HostVars /\ d.hostvars[h].at = now - ages[h]
    BY <1>1, <1>2, Context DEF HostVars
  <1>4. OfHosts(d.hostvars)
    BY <1>2, <1>3 DEF OfHosts
  <1>5. OfGroups(d.groups)
    BY <1>2, ApplyToCacheAssumption DEF OfGroups
  <1>6. Current(d.hostvars, now, Federated)
    <2>1. DOMAIN d.hostvars = got
      BY <1>2
    <2>2. ASSUME ~Federated, NEW h \in got
          PROVE  d.hostvars[h].at >= now
      BY <1>1, <1>3, <2>2, Context
    <2>3. QED
      BY <2>1, <2>2 DEF Current
  <1>7. QED
    BY <1>1, <1>2, <1>3, <1>4, <1>5, <1>6 DEF d, IsData

\* Ages that are reported are those of the origin; those that are not count as none.
LEMMA ReportedAges ==
    ASSUME IInv, NEW got \in SUBSET Hosts, NEW ages \in Ages(got),
           NEW age \in IF Federated THEN 0 .. MaxAge ELSE {0},
           NEW reported \in Reports(ages, age)
    PROVE  /\ age \in Nat /\ (~Federated => age = 0)
           /\ reported.some => Federated /\ reported.age = age /\ reported.hosts = ages
           /\ \A h \in got : Stated(got, reported)[h] \in Nat
           /\ reported.some => \A h \in got : Stated(got, reported)[h] = ages[h]
  <1>1. DOMAIN ages = got /\ \A h \in got : ages[h] \in Nat
    <2>1. CASE Federated
      BY <2>1, Context DEF Ages
    <2>2. CASE ~Federated
      BY <2>2 DEF Ages, Const
    <2>3. QED
      BY <2>1, <2>2
  <1>2. age \in Nat /\ (~Federated => age = 0)
    BY Context
  <1>3. \/ reported.some /\ Federated /\ reported.age = age /\ reported.hosts = ages
        \/ ~reported.some /\ reported.hosts = <<>>
    BY Context DEF Reports, Silent
  <1>4. ASSUME NEW h \in got
        PROVE  /\ Stated(got, reported)[h] \in Nat
               /\ reported.some => Stated(got, reported)[h] = ages[h]
    <2>1. Stated(got, reported)[h] = IF h \in DOMAIN reported.hosts THEN reported.hosts[h] ELSE 0
      BY DEF Stated
    <2>2. CASE reported.some
      BY <1>1, <1>3, <2>1, <2>2
    <2>3. CASE ~reported.some
      <3>1. DOMAIN reported.hosts = {}
        BY <1>3, <2>3
      <3>2. QED
        BY <2>1, <2>3, <3>1
    <2>4. QED
      BY <2>2, <2>3
  <1>5. QED
    BY <1>2, <1>3, <1>4

\* The entry a full replace builds.
LEMMA ReplacedKept ==
    ASSUME IInv, NEW d, IsData(d), Current(d.hostvars, now, Federated), NEW reported,
           reported.some => /\ Federated /\ reported.age \in Nat
                            /\ DOMAIN reported.hosts \subseteq DOMAIN d.hostvars
                            /\ \A h \in DOMAIN reported.hosts : reported.hosts[h] \in Nat
    PROVE  LET e == Replaced(d, reported)
           IN  /\ Kept(e, now, Federated)
               /\ e.hostvars = d.hostvars /\ e.groups = d.groups
               /\ DOMAIN e.stamps \subseteq DOMAIN d.hostvars
               /\ reported.some => \A h \in DOMAIN e.stamps :
                     h \in DOMAIN reported.hosts /\ e.stamps[h] = now - reported.hosts[h]
  <1> DEFINE e == Replaced(d, reported)
  <1>1. CASE reported.some
    <2> DEFINE age == reported.age
               ages == reported.hosts
    <2>1. e = Restore(d, Ttl, age, ages, now)
      BY <1>1 DEF Replaced
    <2> DEFINE n == Restore(d, Ttl, age, ages, now)
    <2>2. /\ now \in Int /\ now >= Earliest /\ Ttl \in Nat
          /\ age \in Nat /\ DOMAIN ages \subseteq DOMAIN d.hostvars /\ DOMAIN ages \subseteq Hosts
          /\ \A h \in DOMAIN ages : ages[h] \in Nat
      BY <1>1, Context DEF IsData, OfHosts
    <2>3. IsEntry(n)
      BY <2>2, EntryRestored
    <2>4. /\ n.hostvars = d.hostvars /\ n.groups = d.groups
          /\ n.fetched <= now
          /\ DOMAIN n.stamps \subseteq DOMAIN ages
          /\ \A h \in DOMAIN n.stamps :
                n.stamps[h] = now - ages[h] /\ n.stamps[h] \in Earliest .. now
      <3>1. n.hostvars = d.hostvars /\ n.groups = d.groups
        BY DEF Restore
      <3>2. n.fetched <= now
        BY <2>2, <2>3, EntryRestored
      <3>3. DOMAIN n.stamps \subseteq DOMAIN ages
        BY DEF Restore
      <3>4. \A h \in DOMAIN n.stamps :
                n.stamps[h] = now - ages[h] /\ n.stamps[h] \in Earliest .. now
        BY <2>2, <2>3, EntryRestored
      <3>5. QED
        BY <3>1, <3>2, <3>3, <3>4
    <2> HIDE DEF n, e
    <2>5. Kept(n, now, Federated)
      BY <1>1, <2>3, <2>4 DEF Kept, Instants
    <2>6. e = n
      BY <2>1 DEF n
    <2>7. QED
      BY <2>2, <2>4, <2>5, <2>6 DEF e
  <1>2. CASE ~reported.some
    <2>1. e = NewEntry(d, Ttl, now)
      BY <1>2 DEF Replaced
    <2>2. Kept(e, now, Federated)
      BY <2>1, Context, MadeKept
    <2>3. /\ e.hostvars = d.hostvars /\ e.groups = d.groups
          /\ DOMAIN e.stamps = DOMAIN d.hostvars
      BY <2>1 DEF NewEntry, Const
    <2>4. QED
      BY <1>2, <2>2, <2>3
  <1>3. QED
    BY <1>1, <1>2

-----------------------------------------------------------------------------
(* Every write keeps the invariant.                                        *)

\* What a write has to leave for the invariant to hold.
LEMMA Written ==
    ASSUME IInv, UNCHANGED <<source, now>>, gathered' \in Int \cup {Never},
           Kept(entry', now, Federated),
           owed'.due \in BOOLEAN, DOMAIN owed'.ages \subseteq Hosts,
           \A h \in DOMAIN owed'.ages : owed'.ages[h] \in Nat,
           owed'.due => Current(entry'.hostvars, now, Federated),
           (~owed'.due /\ entry'.complete /\ SyncMode = "replace") => Named(entry')
    PROVE  IInv'
  <1>1. Federated' = Federated /\ SyncMode' = SyncMode
    BY DEF Federated, SyncMode
  <1>2. Kept(entry, now, Federated)'
    BY <1>1
  <1>3. Owing'
    BY <1>1 DEF Owing
  <1>4. (~owed.due /\ entry.complete /\ SyncMode = "replace" => Named(entry))'
    BY <1>1
  <1>5. QED
    BY <1>2, <1>3, <1>4 DEF IInv

\* The same, when what a cold sync still owes, if anything, stays.
LEMMA WrittenMeanwhile ==
    ASSUME IInv, UNCHANGED <<source, now, owed, gathered>>,
           Kept(entry', now, Federated),
           owed.due => Current(entry'.hostvars, now, Federated),
           (~owed.due /\ entry'.complete /\ SyncMode = "replace") => Named(entry')
    PROVE  IInv'
  <1>1. /\ owed'.due \in BOOLEAN /\ DOMAIN owed'.ages \subseteq Hosts
        /\ \A h \in DOMAIN owed'.ages : owed'.ages[h] \in Nat
    BY DEF IInv, Owing
  <1>2. gathered' \in Int \cup {Never}
    BY DEF IInv
  <1>3. QED
    BY <1>1, <1>2, Written

\* The dataset of a full sync: all that is named in it is in it.
LEMMA FullData ==
    ASSUME IInv, NEW got \in SUBSET Hosts, NEW layout \in Layouts, NEW ages \in Ages(got),
           NEW age \in Nat, ~Federated => age = 0
    PROVE  LET d == add_group_members(Returned(got, ages, layout), now - age)
           IN  /\ IsData(d) /\ d.groups = layout /\ d.remove = {}
               /\ got \subseteq DOMAIN d.hostvars
               /\ \A h \in got : d.hostvars[h].at = now - ages[h]
               /\ \A g \in DOMAIN d.groups : d.groups[g].hosts \subseteq DOMAIN d.hostvars
               /\ Current(d.hostvars, now, Federated)
  <1> DEFINE r == Returned(got, ages, layout)
             d == add_group_members(r, now - age)
  <1>1. /\ IsData(r) /\ DOMAIN r.hostvars = got /\ r.groups = layout /\ r.remove = {}
        /\ \A h \in got : ages[h] \in Nat /\ r.hostvars[h].at = now - ages[h]
        /\ Current(r.hostvars, now, Federated)
    BY ReturnedData
  <1> HIDE DEF r
  <1>2. now - age \in Int
    BY Context
  <1>3. /\ IsData(d) /\ d.groups = r.groups /\ d.remove = r.remove
        /\ DOMAIN r.hostvars \subseteq DOMAIN d.hostvars
        /\ \A h \in DOMAIN d.hostvars :
              \/ h \in DOMAIN r.hostvars /\ d.hostvars[h] = r.hostvars[h]
              \/ h \notin DOMAIN r.hostvars /\ d.hostvars[h].at = now - age
        /\ \A g \in DOMAIN d.groups : d.groups[g].hosts \subseteq DOMAIN d.hostvars
    BY <1>1, <1>2, MembersAdded
  <1> HIDE DEF d
  <1>4. Current(d.hostvars, now, Federated)
    <2> SUFFICES ASSUME ~Federated, NEW h \in DOMAIN d.hostvars
                 PROVE  d.hostvars[h].at >= now
      BY DEF Current
    <2>1. CASE h \in DOMAIN r.hostvars
      BY <1>1, <1>3, <2>1 DEF Current
    <2>2. CASE h \notin DOMAIN r.hostvars
      BY <1>3, <2>2, Context
    <2>3. QED
      BY <2>1, <2>2
  <1>5. \A h \in got : d.hostvars[h].at = now - ages[h]
    BY <1>1, <1>3
  <1>6. QED
    BY <1>1, <1>3, <1>4, <1>5 DEF d, r

\* What a full sync leaves, in either mode, on an empty cache or not.
LEMMA FullSyncKept ==
    ASSUME IInv,
           NEW got \in SUBSET Hosts, NEW layout \in Layouts, NEW ages \in Ages(got),
           NEW age \in IF Federated THEN 0 .. MaxAge ELSE {0},
           NEW reported \in Reports(ages, age), NEW unreachable,
           FullSync(got, ages, layout, age, reported, unreachable)
    PROVE  Kept(entry', now, Federated) /\ (SyncMode = "replace" => Named(entry'))
  <1> DEFINE d == add_group_members(Returned(got, ages, layout), now - age)
             lost == unreachable \ DOMAIN d.hostvars
             e == Replaced(d, reported)
  <1>1. /\ age \in Nat /\ (~Federated => age = 0)
        /\ reported.some => Federated /\ reported.age = age /\ reported.hosts = ages
    BY ReportedAges
  <1>2. DOMAIN ages = got /\ \A h \in got : ages[h] \in Nat
    BY ReturnedData
  <1>3. /\ ~owed.due
        /\ entry' = IF SyncMode = "replace" /\ unreachable = {} THEN e
                    ELSE IF entry = NoEntry THEN NewEntry(d, Ttl, now)
                    ELSE IF SyncMode = "replace" THEN RestoreHosts(e, entry, lost, now)
                    ELSE MarkGathered(MergeDataset(SetTtl(entry, Ttl), d, now), now)
        /\ gathered' = now - age /\ UNCHANGED <<now, owed>>
    BY DEF FullSync
  <1>4. /\ IsData(d) /\ d.groups = layout
        /\ got \subseteq DOMAIN d.hostvars
        /\ \A g \in DOMAIN d.groups : d.groups[g].hosts \subseteq DOMAIN d.hostvars
        /\ Current(d.hostvars, now, Federated)
    BY <1>1, FullData
  <1> HIDE DEF d
  <1>5. /\ Kept(e, now, Federated)
        /\ e.hostvars = d.hostvars /\ e.groups = d.groups
    <2>1. Kept(e, now, Federated)
      <3>1. reported.some => /\ Federated /\ reported.age \in Nat
                             /\ DOMAIN reported.hosts \subseteq DOMAIN d.hostvars
                             /\ \A h \in DOMAIN reported.hosts : reported.hosts[h] \in Nat
        BY <1>1, <1>2, <1>4
      <3>2. QED
        BY <1>4, <3>1, ReplacedKept
    <2>2. e.hostvars = d.hostvars /\ e.groups = d.groups
      BY DEF Replaced, Restore, NewEntry
    <2>3. QED
      BY <2>1, <2>2
  <1> HIDE DEF e, lost
  <1>6. Named(e)
    BY <1>4, <1>5 DEF Named
  <1>7. now \in Int /\ now >= Earliest /\ Ttl \in Nat /\ Federated \in BOOLEAN
    BY Context
  <1>8. Kept(entry', now, Federated) /\ (SyncMode = "replace" => Named(entry'))
    <2>1. CASE SyncMode = "replace" /\ unreachable = {}
      BY <1>3, <1>5, <1>6, <2>1
    <2>2. CASE ~(SyncMode = "replace" /\ unreachable = {}) /\ entry = NoEntry
      <3>1. entry' = NewEntry(d, Ttl, now)
        BY <1>3, <2>2
      <3>2. Kept(entry', now, Federated)
        BY <1>4, <1>7, <3>1, MadeKept
      <3>3. entry'.hostvars = d.hostvars /\ entry'.groups = d.groups
        BY <3>1 DEF NewEntry
      <3>4. QED
        BY <1>4, <3>2, <3>3 DEF Named
    <2>3. CASE SyncMode = "replace" /\ unreachable # {} /\ entry # NoEntry
      <3>1. entry' = RestoreHosts(e, entry, lost, now)
        BY <1>3, <2>3
      <3>2. Kept(entry, now, Federated)
        BY <2>3 DEF IInv
      <3>3. QED
        BY <1>5, <1>6, <1>7, <3>1, <3>2, RestoredKept
    <2>4. CASE SyncMode # "replace" /\ entry # NoEntry
      <3> DEFINE timed == SetTtl(entry, Ttl)
                 u == MergeInto(timed, d, TRUE, now)
      <3>1. entry' = MarkGathered(u, now)
        BY <1>3, <2>4 DEF MergeDataset
      <3>2. Kept(timed, now, Federated)
        BY <1>7, <2>4 DEF IInv, SetTtl, Kept, IsEntry, Instants, Covered, Honest
      <3> HIDE DEF timed
      <3>3. Kept(u, now, Federated)
        BY <1>4, <1>7, <3>2, MergedKept DEF Current
      <3> HIDE DEF u
      <3>4. Kept(entry', now, Federated)
        BY <1>7, <3>1, <3>3 DEF MarkGathered, Kept, IsEntry, Instants, Covered, Honest
      <3>5. QED
        BY <2>4, <3>4
    <2>5. QED
      BY <2>1, <2>2, <2>3, <2>4
  <1>9. QED
    BY <1>8

\* A full sync keeps the invariant.
LEMMA FullSyncInvariant ==
    ASSUME IInv, UNCHANGED source,
           NEW got \in SUBSET Hosts, NEW layout \in Layouts, NEW ages \in Ages(got),
           NEW age \in IF Federated THEN 0 .. MaxAge ELSE {0},
           NEW reported \in Reports(ages, age), NEW unreachable,
           FullSync(got, ages, layout, age, reported, unreachable)
    PROVE  IInv'
  <1>1. Kept(entry', now, Federated) /\ (SyncMode = "replace" => Named(entry'))
    BY FullSyncKept
  <1>2. age \in Nat /\ now \in Int
    BY ReportedAges, Context
  <1>3. ~owed.due /\ gathered' = now - age /\ UNCHANGED <<now, owed>>
    BY DEF FullSync
  <1>4. /\ gathered' \in Int \cup {Never} /\ ~owed'.due
        /\ owed'.due \in BOOLEAN /\ DOMAIN owed'.ages \subseteq Hosts
        /\ \A h \in DOMAIN owed'.ages : owed'.ages[h] \in Nat
    BY <1>2, <1>3 DEF IInv, Owing
  <1>5. QED
    BY <1>1, <1>3, <1>4, Written

\* An age the clock cannot show counts as none, and no age is now.
LEMMA Backdated ==
    ASSUME NEW t \in Int, t >= Earliest, NEW age \in Nat
    PROVE  /\ Backdate(t, age) \in Earliest .. t
           /\ Representable(t, age) => Backdate(t, age) = t - age
  BY CacheEntryAssumption DEF Backdate, Representable

\* A cold sync inserts what came and owes the rest.
LEMMA ColdInvariant ==
    ASSUME IInv, UNCHANGED <<source, now, gathered>>, NEW d, IsData(d),
           Current(d.hostvars, now, Federated), entry' = NewEntry(d, Ttl, now),
           owed'.due = TRUE, DOMAIN owed'.ages \subseteq Hosts,
           \A h \in DOMAIN owed'.ages : owed'.ages[h] \in Nat
    PROVE  IInv'
  <1>1. Kept(entry', now, Federated)
    BY Context, MadeKept
  <1>2. entry'.hostvars = d.hostvars
    BY DEF NewEntry
  <1>3. gathered' \in Int \cup {Never}
    BY DEF IInv
  <1>4. QED
    BY <1>1, <1>2, <1>3, Written

\* A sync of hosts keeps the invariant.
LEMMA HostSyncInvariant ==
    ASSUME IInv, UNCHANGED source,
           NEW got \in SUBSET Hosts, NEW layout \in Layouts, NEW ages \in Ages(got),
           NEW age \in IF Federated THEN 0 .. MaxAge ELSE {0},
           NEW reported \in Reports(ages, age), NEW requested \in SUBSET Hosts,
           HostSync(requested, got, ages, layout, Stated(got, reported))
    PROVE  IInv'
  <1> DEFINE d == Returned(got, ages, layout)
             stated == Stated(got, reported)
             updates == requested \cap DOMAIN d.hostvars
             w == ScopedWrite(entry, requested, d, stated)
  <1>1. \A h \in got : stated[h] \in Nat
    BY ReportedAges
  <1>2. /\ IsData(d) /\ DOMAIN d.hostvars = got /\ Current(d.hostvars, now, Federated)
    BY ReturnedData
  <1>3. /\ ~owed.due /\ UNCHANGED <<now, gathered>>
        /\ entry = NoEntry => /\ entry' = NewEntry(d, Ttl, now)
                              /\ owed' = [due |-> TRUE, ages |-> [h \in updates |-> stated[h]]]
        /\ entry # NoEntry => entry' = w /\ UNCHANGED owed
    BY <1>2 DEF HostSync
  <1> HIDE DEF d, stated
  <1>4. CASE entry = NoEntry
    <2>1. /\ owed'.due = TRUE /\ DOMAIN owed'.ages \subseteq Hosts
          /\ \A h \in DOMAIN owed'.ages : owed'.ages[h] \in Nat
      BY <1>1, <1>2, <1>3, <1>4
    <2>2. QED
      BY <1>2, <1>3, <1>4, <2>1, ColdInvariant
  <1>5. CASE entry # NoEntry
    <2>1. Kept(entry, now, Federated)
      BY <1>5 DEF IInv
    <2>2. now \in Int /\ now >= Earliest
      BY Context
    <2>3. /\ IsEntry(w) /\ w.fetched = entry.fetched /\ w.complete = entry.complete
          /\ DOMAIN w.hostvars = DOMAIN entry.hostvars \cup updates
          /\ \A h \in DOMAIN w.hostvars :
                w.hostvars[h] = IF h \in updates THEN d.hostvars[h] ELSE entry.hostvars[h]
          /\ DOMAIN w.stamps = DOMAIN entry.stamps \cup updates
          /\ \A h \in DOMAIN w.stamps :
                w.stamps[h] = IF h \in updates THEN Backdate(now, stated[h]) ELSE entry.stamps[h]
          /\ \A g \in DOMAIN w.groups : \A h \in w.groups[g].hosts :
                \/ h \in updates
                \/ g \in DOMAIN entry.groups /\ h \in entry.groups[g].hosts
      <3>1. IsEntry(entry) /\ \A h \in updates : stated[h] \in Nat
        BY <1>1, <1>2, <2>1 DEF Kept
      <3>2. Synced(w, entry, d, updates, stated)
        BY <1>2, <2>2, <3>1, HostsSynced
      <3> HIDE DEF w, updates
      <3>3. QED
        BY <3>2 DEF Synced
    <2> HIDE DEF w
    <2>4. Instants(w, now)
      <3>1. \A h \in updates : Backdate(now, stated[h]) \in Earliest .. now
        BY <1>1, <1>2, <2>2, Backdated
      <3>2. QED
        BY <2>1, <2>3, <3>1 DEF Kept, Instants
    <2>5. ~Federated => Covered(w) /\ Honest(w)
      <3> SUFFICES ASSUME ~Federated
                   PROVE  Covered(w) /\ Honest(w)
        OBVIOUS
      <3>1. Covered(entry) /\ Honest(entry)
        BY <2>1 DEF Kept
      <3>2. Covered(w)
        BY <2>3, <3>1 DEF Covered
      <3>3. ASSUME NEW h \in DOMAIN w.stamps
            PROVE  w.stamps[h] <= w.hostvars[h].at
        <4>1. CASE h \in updates
          <5>1. d.hostvars[h].at >= now
            BY <1>2, <4>1 DEF Current
          <5>2. Backdate(now, stated[h]) \in Int /\ Backdate(now, stated[h]) <= now
            BY <1>1, <1>2, <2>2, <4>1, Backdated, CacheEntryAssumption
          <5>3. d.hostvars[h].at \in Int
            BY <1>2, <4>1 DEF IsData, OfHosts, HostVars
          <5>4. w.stamps[h] = Backdate(now, stated[h]) /\ w.hostvars[h] = d.hostvars[h]
            BY <2>3, <4>1
          <5>5. QED
            BY <2>2, <5>1, <5>2, <5>3, <5>4
        <4>2. CASE h \notin updates
          BY <2>3, <3>1, <4>2 DEF Covered, Honest
        <4>3. QED
          BY <4>1, <4>2
      <3>4. QED
        BY <3>2, <3>3 DEF Honest
    <2>6. Kept(w, now, Federated)
      BY <2>3, <2>4, <2>5 DEF Kept
    <2>7. (~owed.due /\ w.complete /\ SyncMode = "replace") => Named(w)
      <3> SUFFICES ASSUME ~owed.due, w.complete, SyncMode = "replace"
                   PROVE  Named(w)
        OBVIOUS
      <3>1. Named(entry)
        BY <1>5, <2>3 DEF IInv
      <3>2. QED
        BY <2>3, <3>1 DEF Named
    <2>8. QED
      BY <1>3, <1>5, <2>6, <2>7, WrittenMeanwhile
  <1>6. QED
    BY <1>4, <1>5

\* A sync of a group keeps the invariant.
LEMMA GroupSyncInvariant ==
    ASSUME IInv, UNCHANGED source,
           NEW got \in SUBSET Hosts, NEW layout \in Layouts, NEW ages \in Ages(got),
           NEW group, GroupSync(group, got, ages, layout)
    PROVE  IInv'
  <1> DEFINE d == Returned(got, ages, layout)
             timed == SetTtl(entry, Ttl)
             u == UpdateGroup(timed, group, d, now)
             members == IF group \in DOMAIN timed.groups
                        THEN timed.groups[group].hosts \cap DOMAIN d.hostvars ELSE {}
  <1>1. IsData(d) /\ Current(d.hostvars, now, Federated)
    BY ReturnedData
  <1>2. /\ ~owed.due /\ UNCHANGED <<now, gathered>>
        /\ entry = NoEntry => /\ entry' = NewEntry(d, Ttl, now)
                              /\ owed' = [NothingOwed EXCEPT !.due = TRUE]
        /\ entry # NoEntry => entry' = u /\ UNCHANGED owed
    BY DEF GroupSync
  <1> HIDE DEF d
  <1>3. CASE entry = NoEntry
    <2>1. owed'.due = TRUE /\ owed'.ages = <<>>
      BY <1>2, <1>3 DEF NothingOwed
    <2>2. DOMAIN owed'.ages = {}
      BY <2>1
    <2>3. QED
      BY <1>1, <1>2, <1>3, <2>1, <2>2, ColdInvariant
  <1>4. CASE entry # NoEntry
    <2>1. Kept(entry, now, Federated)
      BY <1>4 DEF IInv
    <2>2. now \in Int /\ now >= Earliest /\ Ttl \in Nat
      BY Context
    <2>3. /\ timed.hostvars = entry.hostvars /\ timed.stamps = entry.stamps
          /\ timed.groups = entry.groups /\ timed.fetched = entry.fetched
          /\ timed.complete = entry.complete /\ IsEntry(timed)
      BY <2>1, <2>2 DEF SetTtl, Kept, IsEntry
    <2> HIDE DEF timed
    <2>4. /\ IsEntry(u) /\ u.fetched = timed.fetched /\ u.complete = timed.complete
          /\ DOMAIN u.hostvars = DOMAIN timed.hostvars \cup members
          /\ \A h \in DOMAIN u.hostvars :
                u.hostvars[h] = IF h \in members THEN d.hostvars[h] ELSE timed.hostvars[h]
          /\ DOMAIN u.stamps = DOMAIN timed.stamps \cup members
          /\ \A h \in DOMAIN u.stamps :
                u.stamps[h] = IF h \in members THEN now ELSE timed.stamps[h]
          /\ DOMAIN u.groups = DOMAIN timed.groups
          /\ \A g \in DOMAIN u.groups : u.groups[g].hosts = timed.groups[g].hosts
      <3>1. Updated(u, timed, d, members, now)
        BY <1>1, <2>2, <2>3, GroupUpdated
      <3> HIDE DEF u, members
      <3>2. QED
        BY <3>1 DEF Updated
    <2>5. members \subseteq DOMAIN d.hostvars
      OBVIOUS
    <2> HIDE DEF u, members
    <2>6. Instants(u, now)
      BY <2>1, <2>2, <2>3, <2>4, CacheEntryAssumption DEF Kept, Instants
    <2>7. ~Federated => Covered(u) /\ Honest(u)
      <3> SUFFICES ASSUME ~Federated
                   PROVE  Covered(u) /\ Honest(u)
        OBVIOUS
      <3>1. Covered(entry) /\ Honest(entry) /\ \A h \in members : d.hostvars[h].at >= now
        BY <1>1, <2>1, <2>5 DEF Kept, Current
      <3>2. Covered(u)
        BY <2>3, <2>4, <3>1 DEF Covered
      <3>3. ASSUME NEW h \in DOMAIN u.stamps
            PROVE  u.stamps[h] <= u.hostvars[h].at
        <4>1. CASE h \in members
          BY <2>2, <2>4, <3>1, <4>1, <1>1, <2>5 DEF IsData, OfHosts, HostVars
        <4>2. CASE h \notin members
          BY <2>3, <2>4, <3>1, <4>2 DEF Covered, Honest
        <4>3. QED
          BY <4>1, <4>2
      <3>4. QED
        BY <3>2, <3>3 DEF Honest
    <2>8. Kept(u, now, Federated)
      BY <2>4, <2>6, <2>7 DEF Kept
    <2>9. (~owed.due /\ u.complete /\ SyncMode = "replace") => Named(u)
      <3> SUFFICES ASSUME ~owed.due, u.complete, SyncMode = "replace"
                   PROVE  Named(u)
        OBVIOUS
      <3>1. Named(entry)
        BY <1>4, <2>3, <2>4 DEF IInv
      <3>2. QED
        BY <2>3, <2>4, <3>1 DEF Named
    <2>10. QED
      BY <1>2, <1>4, <2>8, <2>9, WrittenMeanwhile
  <1>5. QED
    BY <1>3, <1>4

\* What a cold sync owed is dated, and the entry says it is not whole.
LEMMA FinishInvariant ==
    ASSUME IInv, UNCHANGED source, FinishColdSync
    PROVE  IInv'
  <1> DEFINE here == DOMAIN owed.ages \cap DOMAIN entry.hostvars
             vars0 == [h \in here |-> entry.hostvars[h]]
             u == UpdateHostsAged(entry, vars0, owed.ages, now)
  <1>1. /\ owed.due /\ entry' = MarkPartial(u) /\ owed' = NothingOwed /\ UNCHANGED <<now, gathered>>
    BY DEF FinishColdSync
  <1>2. Kept(entry, now, Federated) /\ Current(entry.hostvars, now, Federated)
    BY <1>1 DEF IInv, Owing
  <1>3. /\ OfHosts(vars0) /\ Current(vars0, now, Federated)
        /\ \A h \in DOMAIN vars0 : owed.ages[h] \in Nat
    <2>1. OfHosts(entry.hostvars)
      BY <1>2, EntryFields DEF Kept
    <2>2. \A h \in here : owed.ages[h] \in Nat
      BY DEF IInv, Owing
    <2>3. QED
      BY <1>2, <2>1, <2>2 DEF OfHosts, Current
  <1> HIDE DEF vars0
  <1>4. Kept(u, now, Federated)
    BY <1>2, <1>3, Context, AgedKept
  <1> HIDE DEF u
  <1>5. Kept(entry', now, Federated) /\ entry'.complete = FALSE
    BY <1>1, <1>4 DEF MarkPartial, Kept, IsEntry, Instants, Covered, Honest
  <1>6. /\ owed'.due = FALSE /\ DOMAIN owed'.ages \subseteq Hosts
        /\ \A h \in DOMAIN owed'.ages : owed'.ages[h] \in Nat
    BY <1>1 DEF NothingOwed
  <1>7. gathered' \in Int \cup {Never}
    BY <1>1 DEF IInv
  <1>8. QED
    BY <1>1, <1>5, <1>6, <1>7, Written

\* A host put by hand is gathered now.
LEMMA PutInvariant ==
    ASSUME IInv, UNCHANGED source, NEW host \in Hosts, PutHost(host)
    PROVE  IInv'
  <1> DEFINE vars0 == Const({host}, [at |-> now, keys |-> {}])
             ages == Const({host}, 0)
             u == UpdateHostsAged(entry, vars0, ages, now)
  <1>1. entry # NoEntry /\ entry' = u /\ UNCHANGED <<now, owed, gathered>>
    BY DEF PutHost
  <1>2. Kept(entry, now, Federated) /\ (owed.due => Current(entry.hostvars, now, Federated))
    BY <1>1 DEF IInv, Owing
  <1>3. now \in Int /\ now >= Earliest
    BY Context
  <1>4. /\ DOMAIN vars0 = {host} /\ OfHosts(vars0) /\ vars0[host].at = now
        /\ \A h \in DOMAIN vars0 : ages[h] \in Nat
    BY <1>3 DEF Const, OfHosts, HostVars
  <1> HIDE DEF vars0, ages
  <1>5. Current(vars0, now, Federated)
    BY <1>3, <1>4 DEF Current
  <1>6. Kept(u, now, Federated)
    BY <1>2, <1>3, <1>4, <1>5, AgedKept
  <1>7. /\ u.hostvars = Extend(entry.hostvars, vars0) /\ u.groups = entry.groups
        /\ u.complete = entry.complete
    BY <1>2 DEF UpdateHostsAged, Kept, IsEntry
  <1>8. /\ DOMAIN Extend(entry.hostvars, vars0) = DOMAIN entry.hostvars \cup DOMAIN vars0
        /\ \A k \in DOMAIN vars0 : Extend(entry.hostvars, vars0)[k] = vars0[k]
        /\ \A k \in DOMAIN entry.hostvars \ DOMAIN vars0 :
              Extend(entry.hostvars, vars0)[k] = entry.hostvars[k]
    BY Extended
  <1> HIDE DEF u
  <1>9. owed.due => Current(u.hostvars, now, Federated)
    BY <1>2, <1>5, <1>7, <1>8 DEF Current
  <1>10. (~owed.due /\ u.complete /\ SyncMode = "replace") => Named(u)
    <2> SUFFICES ASSUME ~owed.due, u.complete, SyncMode = "replace"
                 PROVE  Named(u)
      OBVIOUS
    <2>1. Named(entry)
      BY <1>1, <1>7 DEF IInv
    <2>2. QED
      BY <1>7, <1>8, <2>1 DEF Named
  <1>11. QED
    BY <1>1, <1>6, <1>9, <1>10, WrittenMeanwhile

\* A host deleted by hand leaves no timestamp and no membership.
LEMMA DeleteInvariant ==
    ASSUME IInv, UNCHANGED source, NEW host \in Hosts, DeleteHost(host)
    PROVE  IInv'
  <1> DEFINE u == RemoveHost(entry, host)
  <1>1. entry # NoEntry /\ entry' = u /\ UNCHANGED <<now, owed, gathered>>
    BY DEF DeleteHost
  <1>2. Kept(entry, now, Federated) /\ (owed.due => Current(entry.hostvars, now, Federated))
    BY <1>1 DEF IInv, Owing
  <1>3. /\ IsEntry(u) /\ u.fetched = entry.fetched /\ u.complete = entry.complete
        /\ DOMAIN u.hostvars = DOMAIN entry.hostvars \ {host}
        /\ \A h \in DOMAIN u.hostvars : u.hostvars[h] = entry.hostvars[h]
        /\ DOMAIN u.stamps = DOMAIN entry.stamps \ {host}
        /\ \A h \in DOMAIN u.stamps : u.stamps[h] = entry.stamps[h]
        /\ DOMAIN u.groups = DOMAIN entry.groups
        /\ \A g \in DOMAIN u.groups : u.groups[g].hosts = entry.groups[g].hosts \ {host}
    BY <1>2, HostRemoved DEF Kept
  <1> HIDE DEF u
  <1>4. Kept(u, now, Federated)
    BY <1>2, <1>3 DEF Kept, Instants, Covered, Honest
  <1>5. owed.due => Current(u.hostvars, now, Federated)
    BY <1>2, <1>3 DEF Current
  <1>6. (~owed.due /\ u.complete /\ SyncMode = "replace") => Named(u)
    <2> SUFFICES ASSUME ~owed.due, u.complete, SyncMode = "replace"
                 PROVE  Named(u)
      OBVIOUS
    <2>1. Named(entry)
      BY <1>1, <1>3 DEF IInv
    <2>2. QED
      BY <1>3, <2>1 DEF Named
  <1>7. QED
    BY <1>1, <1>4, <1>5, <1>6, WrittenMeanwhile

\* Keys are added: nobody comes, goes or is dated.
LEMMA FieldsInvariant ==
    ASSUME IInv, UNCHANGED source, NEW hosts \in SUBSET Hosts, NEW group \in Groups,
           NEW keys \in SUBSET Keys, EnrichFields(hosts, group, keys)
    PROVE  IInv'
  <1> DEFINE members == IF is_meta_group(group) THEN DOMAIN entry.hostvars ELSE {}
             new == Const({group}, [hosts |-> members, vars |-> keys])
             fields == Const(hosts, keys)
             v == MergeGroupVarFields(entry, new)
             u == MergeHostvarFields(v, fields)
  <1>1. entry # NoEntry /\ entry' = u /\ UNCHANGED <<now, owed, gathered>>
    BY DEF EnrichFields
  <1>2. Kept(entry, now, Federated) /\ (owed.due => Current(entry.hostvars, now, Federated))
    BY <1>1 DEF IInv, Owing
  <1>3. OfHosts(entry.hostvars)
    BY <1>2, EntryFields DEF Kept
  <1>4. members \subseteq DOMAIN entry.hostvars /\ members \subseteq Hosts
    BY <1>3 DEF OfHosts
  <1> HIDE DEF members
  <1>5. /\ DOMAIN new = {group} /\ new[group] = [hosts |-> members, vars |-> keys]
        /\ OfGroups(new)
    BY <1>4 DEF Const, OfGroups, Group
  <1>6. \A h \in DOMAIN fields : fields[h] \subseteq Keys
    BY DEF Const
  <1> HIDE DEF new, fields
  <1>7. IsEntry(entry)
    BY <1>2 DEF Kept
  <1>8. /\ IsEntry(v)
        /\ v.hostvars = entry.hostvars /\ v.stamps = entry.stamps
        /\ v.fetched = entry.fetched /\ v.complete = entry.complete
        /\ \A g \in DOMAIN entry.groups : v.groups[g].hosts = entry.groups[g].hosts
        /\ \A g \in DOMAIN v.groups \ DOMAIN entry.groups : g \in DOMAIN new /\ v.groups[g] = new[g]
    BY <1>5, <1>7, GroupVarsMerged
  <1> HIDE DEF v
  <1>9. /\ IsEntry(u)
        /\ u.groups = v.groups /\ u.stamps = v.stamps
        /\ u.fetched = v.fetched /\ u.complete = v.complete
        /\ DOMAIN u.hostvars = DOMAIN v.hostvars
        /\ \A h \in DOMAIN v.hostvars : u.hostvars[h].at = v.hostvars[h].at
    BY <1>6, <1>8, HostKeysMerged
  <1> HIDE DEF u
  <1>10. Kept(u, now, Federated)
    BY <1>2, <1>8, <1>9 DEF Kept, Instants, Covered, Honest
  <1>11. owed.due => Current(u.hostvars, now, Federated)
    BY <1>2, <1>8, <1>9 DEF Current
  <1>12. (~owed.due /\ u.complete /\ SyncMode = "replace") => Named(u)
    <2> SUFFICES ASSUME ~owed.due, u.complete, SyncMode = "replace", NEW g \in DOMAIN u.groups
                 PROVE  u.groups[g].hosts \subseteq DOMAIN u.hostvars
      BY DEF Named
    <2>1. Named(entry)
      BY <1>1, <1>8, <1>9 DEF IInv
    <2>2. CASE g \in DOMAIN entry.groups
      BY <1>8, <1>9, <2>1, <2>2 DEF Named
    <2>3. CASE g \notin DOMAIN entry.groups
      BY <1>4, <1>5, <1>8, <1>9, <2>3
    <2>4. QED
      BY <2>2, <2>3
  <1>13. QED
    BY <1>1, <1>10, <1>11, <1>12, WrittenMeanwhile

\* u is the entry with a script's hosts in it and those it removed gone, of the
\* groups too: the hosts it touched keep their dates, those it introduced are
\* dated now.
Scripted(u, touched, introduced, removed) ==
    /\ u.ttl = entry.ttl /\ u.fetched = entry.fetched /\ u.complete = entry.complete
    /\ DOMAIN u.hostvars = (DOMAIN entry.hostvars \cup introduced) \ removed
    /\ \A h \in DOMAIN u.hostvars :
          u.hostvars[h].at = IF h \in introduced THEN now ELSE entry.hostvars[h].at
    /\ DOMAIN u.stamps = (DOMAIN entry.stamps \cup touched \cup introduced) \ removed
    /\ \A h \in DOMAIN entry.stamps \cap DOMAIN u.stamps : u.stamps[h] = entry.stamps[h]
    /\ Named(entry) => Named(u)

\* What a script enricher leaves.
LEMMA ScriptMerged ==
    ASSUME IInv, NEW touched \in SUBSET Hosts, NEW introduced \in SUBSET Hosts,
           NEW removed \in SUBSET Hosts, NEW keys \in SUBSET Keys, NEW layout \in Layouts,
           EnrichScript(touched, introduced, removed, keys, layout)
    PROVE  Kept(entry', now, Federated) /\ Scripted(entry', touched, introduced, removed)
  <1> DEFINE old == [h \in touched |-> [entry.hostvars[h] EXCEPT !.keys = @ \cup keys]]
             new == Const(introduced, [at |-> now, keys |-> keys])
             d == [hostvars |-> Extend(old, new), groups |-> layout, remove |-> removed]
             u == MergeInto(entry, d, FALSE, now)
             all == Extend(entry.groups, d.groups)
  <1>1. /\ entry # NoEntry /\ entry' = u
        /\ touched \subseteq DOMAIN entry.hostvars
        /\ introduced \cap DOMAIN entry.hostvars = {}
        /\ \A g \in DOMAIN layout : layout[g].hosts \subseteq DOMAIN entry.hostvars \cup introduced
    BY DEF EnrichScript, MergeEnrichment
  <1>2. Kept(entry, now, Federated)
    BY <1>1 DEF IInv
  <1>3. IsEntry(entry) /\ OfHosts(entry.hostvars) /\ now \in Int /\ now >= Earliest
    BY <1>2, EntryFields, Context DEF Kept
  <1>4. /\ DOMAIN old = touched
        /\ \A h \in touched : old[h] \in HostVars /\ old[h].at = entry.hostvars[h].at
    BY <1>1, <1>3 DEF OfHosts, HostVars
  <1>5. /\ DOMAIN new = introduced
        /\ \A h \in introduced : new[h] \in HostVars /\ new[h].at = now
    BY <1>3 DEF Const, HostVars
  <1> HIDE DEF old, new
  <1>6. OfHosts(old) /\ OfHosts(new)
    BY <1>4, <1>5 DEF OfHosts
  <1>7. /\ OfHosts(Extend(old, new))
        /\ DOMAIN Extend(old, new) = DOMAIN old \cup DOMAIN new
        /\ \A k \in DOMAIN new : Extend(old, new)[k] = new[k]
        /\ \A k \in DOMAIN old \ DOMAIN new : Extend(old, new)[k] = old[k]
    BY <1>6, Extended, ExtendedHosts
  <1>8. OfGroups(layout)
    BY ApplyToCacheAssumption DEF OfGroups
  <1>9. /\ IsData(d) /\ d.groups = layout /\ d.remove = removed
        /\ DOMAIN d.hostvars = touched \cup introduced
        /\ \A h \in introduced : d.hostvars[h].at = now
        /\ \A h \in touched : d.hostvars[h].at = entry.hostvars[h].at
    <2>1. DOMAIN old \cap DOMAIN new = {}
      BY <1>1, <1>4, <1>5
    <2>2. \A h \in touched : Extend(old, new)[h] = old[h]
      BY <1>4, <1>7, <2>1
    <2>3. QED
      BY <1>4, <1>5, <1>7, <1>8, <2>2 DEF IsData
  <1> HIDE DEF d
  <1>10. Kept(u, now, Federated)
    <2>1. ASSUME ~Federated, NEW h \in DOMAIN d.hostvars
          PROVE  \/ d.hostvars[h].at >= now
                 \/ h \in DOMAIN entry.stamps /\ d.hostvars[h].at >= entry.stamps[h]
      <3>1. Covered(entry) /\ Honest(entry)
        BY <1>2, <2>1 DEF Kept
      <3>2. CASE h \in introduced
        BY <1>3, <1>9, <3>2
      <3>3. CASE h \in touched
        <4>1. h \in DOMAIN entry.stamps /\ entry.stamps[h] <= entry.hostvars[h].at
          BY <1>1, <3>1, <3>3 DEF Covered, Honest
        <4>2. entry.stamps[h] \in Int /\ entry.hostvars[h].at \in Int
          BY <1>1, <1>3, <3>3, <4>1, EntryFields DEF OfStamps, OfHosts, HostVars
        <4>3. QED
          BY <1>9, <3>3, <4>1, <4>2
      <3>4. QED
        BY <1>9, <3>2, <3>3
    <2>2. QED
      BY <1>2, <1>3, <1>9, <2>1, MergedKept
  <1>11. PICK restamp \in BOOLEAN : restamp = FALSE
    OBVIOUS
  <1> DEFINE m == MergeInto(entry, d, restamp, now)
             stamped == IF restamp THEN DOMAIN d.hostvars
                                   ELSE DOMAIN d.hostvars \ DOMAIN entry.stamps
  <1>12. /\ m.fetched = entry.fetched /\ m.ttl = entry.ttl /\ m.complete = entry.complete
         /\ DOMAIN m.hostvars = (DOMAIN entry.hostvars \cup DOMAIN d.hostvars) \ d.remove
         /\ \A h \in DOMAIN m.hostvars :
               m.hostvars[h] = IF h \in DOMAIN d.hostvars THEN d.hostvars[h]
                                                         ELSE entry.hostvars[h]
         /\ DOMAIN m.stamps = (DOMAIN entry.stamps \cup stamped) \ d.remove
         /\ \A h \in DOMAIN m.stamps :
               m.stamps[h] = IF h \in stamped THEN now ELSE entry.stamps[h]
         /\ DOMAIN m.groups = DOMAIN entry.groups \cup DOMAIN d.groups
         /\ \A g \in DOMAIN m.groups : m.groups[g].hosts = all[g].hosts \ d.remove
    BY <1>3, <1>9, Merged
  <1>13. m = u /\ stamped = DOMAIN d.hostvars \ DOMAIN entry.stamps
    BY <1>11
  <1>14. /\ DOMAIN all = DOMAIN entry.groups \cup DOMAIN layout
         /\ \A g \in DOMAIN layout : all[g] = layout[g]
         /\ \A g \in DOMAIN entry.groups \ DOMAIN layout : all[g] = entry.groups[g]
    <2>1. /\ DOMAIN all = DOMAIN entry.groups \cup DOMAIN d.groups
          /\ \A g \in DOMAIN d.groups : all[g] = d.groups[g]
          /\ \A g \in DOMAIN entry.groups \ DOMAIN d.groups : all[g] = entry.groups[g]
      BY Extended
    <2>2. QED
      BY <1>9, <2>1
  <1> HIDE DEF m, u, all, stamped
  <1>15. DOMAIN u.hostvars = (DOMAIN entry.hostvars \cup introduced) \ removed
    BY <1>1, <1>9, <1>12, <1>13
  <1>16. ASSUME NEW h \in DOMAIN u.hostvars
         PROVE  u.hostvars[h].at = IF h \in introduced THEN now ELSE entry.hostvars[h].at
    <2>1. CASE h \in introduced
      BY <1>9, <1>12, <1>13, <2>1
    <2>2. CASE h \in touched
      BY <1>1, <1>9, <1>12, <1>13, <2>2
    <2>3. CASE h \notin touched \cup introduced
      BY <1>9, <1>12, <1>13, <2>3
    <2>4. QED
      BY <2>1, <2>2, <2>3
  <1>17. /\ DOMAIN u.stamps = (DOMAIN entry.stamps \cup touched \cup introduced) \ removed
         /\ \A h \in DOMAIN entry.stamps \cap DOMAIN u.stamps : u.stamps[h] = entry.stamps[h]
    BY <1>9, <1>12, <1>13
  <1>18. ASSUME Named(entry), NEW g \in DOMAIN u.groups
         PROVE  u.groups[g].hosts \subseteq DOMAIN u.hostvars
    <2>1. all[g].hosts \subseteq DOMAIN entry.hostvars \cup introduced
      <3>1. CASE g \in DOMAIN layout
        BY <1>1, <1>14, <3>1
      <3>2. CASE g \notin DOMAIN layout
        BY <1>9, <1>12, <1>13, <1>14, <1>18, <3>2 DEF Named
      <3>3. QED
        BY <3>1, <3>2
    <2>2. QED
      BY <1>9, <1>12, <1>13, <1>15, <2>1
  <1>19. Scripted(u, touched, introduced, removed)
    BY <1>12, <1>13, <1>15, <1>16, <1>17, <1>18 DEF Scripted, Named
  <1>20. QED
    BY <1>1, <1>10, <1>19

\* A script's hosts keep their dates or are dated now, and those it removes
\* are gone from the groups it returned too.
LEMMA ScriptInvariant ==
    ASSUME IInv, UNCHANGED source, NEW touched \in SUBSET Hosts, NEW introduced \in SUBSET Hosts,
           NEW removed \in SUBSET Hosts, NEW keys \in SUBSET Keys, NEW layout \in Layouts,
           EnrichScript(touched, introduced, removed, keys, layout)
    PROVE  IInv'
  <1>1. entry # NoEntry /\ UNCHANGED <<now, owed, gathered>>
    BY DEF EnrichScript
  <1>2. Kept(entry', now, Federated) /\ Scripted(entry', touched, introduced, removed)
    BY ScriptMerged
  <1>3. owed.due => Current(entry'.hostvars, now, Federated)
    <2> SUFFICES ASSUME owed.due, ~Federated, NEW h \in DOMAIN entry'.hostvars
                 PROVE  entry'.hostvars[h].at >= now
      BY DEF Current
    <2>1. \A k \in DOMAIN entry.hostvars : entry.hostvars[k].at >= now
      BY DEF IInv, Owing, Current
    <2>2. QED
      BY <1>2, <2>1, Context DEF Scripted
  <1>4. (~owed.due /\ entry'.complete /\ SyncMode = "replace") => Named(entry')
    BY <1>1, <1>2 DEF IInv, Scripted
  <1>5. QED
    BY <1>1, <1>2, <1>3, <1>4, WrittenMeanwhile

\* Time passes when nothing is owed.
LEMMA TickInvariant ==
    ASSUME IInv, UNCHANGED source, Tick
    PROVE  IInv'
  <1>1. ~owed.due /\ now < MaxTime /\ now' = now + 1 /\ UNCHANGED <<entry, owed, gathered>>
    BY DEF Tick
  <1>2. Federated' = Federated /\ SyncMode' = SyncMode
    BY DEF Federated, SyncMode
  <1>3. now' \in Uptime .. MaxTime
    BY <1>1, ApplyToCacheAssumption, CacheEntryAssumption DEF IInv
  <1>4. entry # NoEntry => Kept(entry, now + 1, Federated)
    BY Context, TimePasses DEF IInv
  <1>5. Owing'
    BY <1>1 DEF IInv, Owing
  <1>6. QED
    BY <1>1, <1>2, <1>3, <1>4, <1>5 DEF IInv

\* Nothing is cached at first.
LEMMA InitInvariant ==
    ASSUME Init
    PROVE  IInv
  BY ApplyToCacheAssumption, CacheEntryAssumption DEF Init, IInv, Owing, NothingOwed

-----------------------------------------------------------------------------
(* What a write may do.                                                    *)

Scope == Retention /\ Replacement /\ OthersUntouched /\ Derived

\* A full sync keeps the hosts it could not reach, whole, and nobody else it
\* did not return.
LEMMA FullSyncScope ==
    ASSUME IInv,
           NEW got \in SUBSET Hosts, NEW layout \in Layouts, NEW ages \in Ages(got),
           NEW age \in IF Federated THEN 0 .. MaxAge ELSE {0},
           NEW reported \in Reports(ages, age), NEW unreachable,
           Federated => unreachable = {},
           FullSync(got, ages, layout, age, reported, unreachable)
    PROVE  Scope
  <1> DEFINE d == add_group_members(Returned(got, ages, layout), now - age)
             lost == unreachable \ DOMAIN d.hostvars
             e == Replaced(d, reported)
             kept == lost \cap DOMAIN entry.hostvars
             r == RestoreHosts(e, entry, lost, now)
  <1>1. /\ age \in Nat /\ (~Federated => age = 0)
        /\ reported.some => Federated /\ reported.age = age /\ reported.hosts = ages
    BY ReportedAges
  <1>2. DOMAIN ages = got /\ \A h \in got : ages[h] \in Nat
    BY ReturnedData
  <1>3. /\ ~owed.due /\ did'.op = "full" /\ did'.hosts = DOMAIN d.hostvars /\ did'.lost = lost
        /\ SyncMode = "replace" =>
              entry' = IF unreachable = {} THEN e
                       ELSE IF entry = NoEntry THEN NewEntry(d, Ttl, now) ELSE r
    BY DEF FullSync, Did
  <1>4. /\ IsData(d)
        /\ got \subseteq DOMAIN d.hostvars
        /\ \A g \in DOMAIN d.groups : d.groups[g].hosts \subseteq DOMAIN d.hostvars
        /\ Current(d.hostvars, now, Federated)
    BY <1>1, FullData
  <1>5. lost \cap DOMAIN d.hostvars = {} /\ (unreachable = {} => lost = {})
    OBVIOUS
  <1> HIDE DEF d
  <1>6. /\ IsEntry(e) /\ e.hostvars = d.hostvars /\ e.groups = d.groups
        /\ DOMAIN e.stamps \subseteq DOMAIN d.hostvars
    <2>1. reported.some => /\ Federated /\ reported.age \in Nat
                           /\ DOMAIN reported.hosts \subseteq DOMAIN d.hostvars
                           /\ \A h \in DOMAIN reported.hosts : reported.hosts[h] \in Nat
      BY <1>1, <1>2, <1>4
    <2>2. Kept(e, now, Federated) /\ DOMAIN e.stamps \subseteq DOMAIN d.hostvars
      BY <1>4, <2>1, ReplacedKept
    <2>3. e.hostvars = d.hostvars /\ e.groups = d.groups
      BY DEF Replaced, Restore, NewEntry
    <2>4. QED
      BY <2>2, <2>3 DEF Kept
  <1> HIDE DEF e, lost
  <1>7. now \in Int /\ now >= Earliest
    BY Context
  <1>8. ASSUME entry # NoEntry
        PROVE  /\ DOMAIN r.hostvars = DOMAIN e.hostvars \cup kept
               /\ \A h \in DOMAIN r.hostvars :
                     r.hostvars[h] = IF h \in kept THEN entry.hostvars[h] ELSE e.hostvars[h]
               /\ DOMAIN r.stamps = DOMAIN e.stamps \cup kept
               /\ \A h \in DOMAIN r.stamps :
                     r.stamps[h] = IF h \notin kept THEN e.stamps[h]
                                   ELSE IF h \in DOMAIN entry.stamps THEN entry.stamps[h] ELSE now
               /\ \A g \in DOMAIN r.groups : \A h \in r.groups[g].hosts :
                     \/ h \in kept
                     \/ g \in DOMAIN e.groups /\ h \in e.groups[g].hosts
               /\ \A h \in kept : \A g \in GroupsOf(entry, h) :
                     g \in DOMAIN r.groups /\ h \in r.groups[g].hosts
    <2>1. IsEntry(entry) /\ Instants(entry, now)
      BY <1>8 DEF IInv, Kept
    <2>2. QED
      BY <1>6, <1>7, <2>1, HostsRestored
  <1> HIDE DEF r
  <1>9. Retention
    <2> SUFFICES ASSUME SyncMode = "replace", entry # NoEntry, NEW h \in lost
                 PROVE  IF h \in DOMAIN entry.hostvars
                        THEN /\ h \in DOMAIN entry'.hostvars
                             /\ entry'.hostvars[h] = entry.hostvars[h]
                             /\ entry'.stamps[h] = entry.stamps[h]
                             /\ GroupsOf(entry, h) \subseteq GroupsOf(entry', h)
                        ELSE h \notin DOMAIN entry'.hostvars
      BY <1>3 DEF Retention
    <2>1. entry' = r /\ ~Federated
      BY <1>3, <1>5
    <2>2. Covered(entry)
      BY <2>1 DEF IInv, Kept
    <2>3. CASE h \in DOMAIN entry.hostvars
      <3>1. h \in kept /\ h \in DOMAIN entry.stamps
        BY <2>2, <2>3 DEF Covered
      <3>2. GroupsOf(entry, h) \subseteq GroupsOf(r, h)
        BY <1>8, <3>1 DEF GroupsOf
      <3>3. QED
        BY <1>8, <2>1, <2>3, <3>1, <3>2
    <2>4. CASE h \notin DOMAIN entry.hostvars
      BY <1>5, <1>6, <1>8, <2>1, <2>4
    <2>5. QED
      BY <2>3, <2>4
  <1>10. Replacement
    <2> SUFFICES ASSUME SyncMode = "replace"
                 PROVE  LET stays == DOMAIN d.hostvars \cup lost
                        IN  /\ DOMAIN entry'.hostvars \subseteq stays
                            /\ DOMAIN entry'.stamps \subseteq stays
                            /\ \A g \in DOMAIN entry'.groups :
                                  entry'.groups[g].hosts \subseteq stays
      BY <1>3 DEF Replacement
    <2>1. CASE unreachable = {}
      BY <1>3, <1>4, <1>6, <2>1
    <2>2. CASE unreachable # {} /\ entry = NoEntry
      <3>1. entry' = NewEntry(d, Ttl, now)
        BY <1>3, <2>2
      <3>2. /\ entry'.hostvars = d.hostvars /\ entry'.groups = d.groups
            /\ DOMAIN entry'.stamps = DOMAIN d.hostvars
        BY <3>1 DEF NewEntry, Const
      <3>3. QED
        BY <1>4, <3>2
    <2>3. CASE unreachable # {} /\ entry # NoEntry
      <3>1. entry' = r /\ kept \subseteq lost
        BY <1>3, <2>3
      <3> HIDE DEF kept
      <3>2. /\ DOMAIN r.hostvars \subseteq DOMAIN d.hostvars \cup lost
            /\ DOMAIN r.stamps \subseteq DOMAIN d.hostvars \cup lost
        BY <1>6, <1>8, <2>3, <3>1
      <3>3. ASSUME NEW g \in DOMAIN r.groups
            PROVE  r.groups[g].hosts \subseteq DOMAIN d.hostvars \cup lost
        BY <1>4, <1>6, <1>8, <2>3, <3>1
      <3>4. QED
        BY <3>1, <3>2, <3>3
    <2>4. QED
      BY <2>1, <2>2, <2>3
  <1>11. QED
    BY <1>3, <1>9, <1>10 DEF Scope, OthersUntouched, Derived

\* A sync of hosts is about those it asked for and got.
LEMMA HostSyncScope ==
    ASSUME IInv,
           NEW got \in SUBSET Hosts, NEW layout \in Layouts, NEW ages \in Ages(got),
           NEW age \in IF Federated THEN 0 .. MaxAge ELSE {0},
           NEW reported \in Reports(ages, age), NEW requested \in SUBSET Hosts,
           HostSync(requested, got, ages, layout, Stated(got, reported))
    PROVE  Scope
  <1> DEFINE d == Returned(got, ages, layout)
             stated == Stated(got, reported)
             updates == requested \cap DOMAIN d.hostvars
             w == ScopedWrite(entry, requested, d, stated)
  <1>1. \A h \in got : stated[h] \in Nat
    BY ReportedAges
  <1>2. IsData(d) /\ DOMAIN d.hostvars = got
    BY ReturnedData
  <1>3. /\ did'.op = "host" /\ did'.hosts = updates
        /\ entry # NoEntry => entry' = w
    BY <1>2 DEF HostSync, Did
  <1> HIDE DEF d, stated
  <1>4. ASSUME entry # NoEntry
        PROVE  Synced(w, entry, d, updates, stated)
    <2>1. IsEntry(entry) /\ now \in Int /\ now >= Earliest
      BY <1>4, Context DEF IInv, Kept
    <2>2. \A h \in updates : stated[h] \in Nat
      BY <1>1, <1>2
    <2>3. QED
      BY <1>2, <2>1, <2>2, HostsSynced
  <1> HIDE DEF w, updates
  <1>5. OthersUntouched
    <2> SUFFICES ASSUME Settled
                 PROVE  /\ \A h \in Hosts \ updates :
                              /\ GroupsOf(w, h) = GroupsOf(entry, h)
                              /\ h \in DOMAIN entry.hostvars <=> h \in DOMAIN w.hostvars
                              /\ h \in DOMAIN entry.hostvars => w.hostvars[h] = entry.hostvars[h]
                              /\ h \in DOMAIN entry.stamps => w.stamps[h] = entry.stamps[h]
                        /\ w.fetched = entry.fetched /\ w.complete = entry.complete
                        /\ \A g \in MetaGroups \cap DOMAIN entry.groups :
                              w.groups[g].hosts = entry.groups[g].hosts
      BY <1>3 DEF OthersUntouched, Settled
    <2>1. Synced(w, entry, d, updates, stated)
      BY <1>4 DEF Settled
    <2>2. ASSUME NEW h \in Hosts \ updates
          PROVE  /\ GroupsOf(w, h) = GroupsOf(entry, h)
                 /\ h \in DOMAIN entry.hostvars <=> h \in DOMAIN w.hostvars
                 /\ h \in DOMAIN entry.hostvars => w.hostvars[h] = entry.hostvars[h]
                 /\ h \in DOMAIN entry.stamps => w.stamps[h] = entry.stamps[h]
      <3>1. GroupsOf(w, h) \subseteq GroupsOf(entry, h)
        BY <2>1 DEF Synced, GroupsOf
      <3>2. GroupsOf(entry, h) \subseteq GroupsOf(w, h)
        BY <2>1 DEF Synced, GroupsOf
      <3>3. QED
        BY <2>1, <3>1, <3>2 DEF Synced
    <2>3. QED
      BY <2>1, <2>2 DEF Synced
  <1>6. QED
    BY <1>3, <1>5 DEF Scope, Retention, Replacement, Derived

\* Declarative enrichment erases nothing and moves no clock.
LEMMA FieldsScope ==
    ASSUME IInv, NEW hosts \in SUBSET Hosts, NEW group \in Groups,
           NEW keys \in SUBSET Keys, EnrichFields(hosts, group, keys)
    PROVE  Scope
  <1> DEFINE members == IF is_meta_group(group) THEN DOMAIN entry.hostvars ELSE {}
             new == Const({group}, [hosts |-> members, vars |-> keys])
             fields == Const(hosts, keys)
             v == MergeGroupVarFields(entry, new)
             u == MergeHostvarFields(v, fields)
  <1>1. entry # NoEntry /\ entry' = u /\ did'.op = "fields"
    BY DEF EnrichFields, Did
  <1>2. IsEntry(entry) /\ OfHosts(entry.hostvars)
    BY <1>1, EntryFields DEF IInv, Kept
  <1>3. members \subseteq Hosts
    BY <1>2 DEF OfHosts
  <1> HIDE DEF members
  <1>4. OfGroups(new)
    BY <1>3 DEF Const, OfGroups, Group
  <1>5. \A h \in DOMAIN fields : fields[h] \subseteq Keys
    BY DEF Const
  <1> HIDE DEF new, fields
  <1>6. /\ IsEntry(v)
        /\ v.hostvars = entry.hostvars /\ v.stamps = entry.stamps
        /\ v.fetched = entry.fetched /\ v.complete = entry.complete
        /\ \A g \in DOMAIN entry.groups : /\ v.groups[g].hosts = entry.groups[g].hosts
                                          /\ entry.groups[g].vars \subseteq v.groups[g].vars
    BY <1>2, <1>4, GroupVarsMerged
  <1> HIDE DEF v
  <1>7. /\ u.groups = v.groups /\ u.stamps = v.stamps
        /\ u.fetched = v.fetched /\ u.complete = v.complete
        /\ DOMAIN u.hostvars = DOMAIN v.hostvars
        /\ \A h \in DOMAIN v.hostvars : v.hostvars[h].keys \subseteq u.hostvars[h].keys
    BY <1>5, <1>6, HostKeysMerged
  <1> HIDE DEF u
  <1>8. Derived
    BY <1>1, <1>6, <1>7 DEF Derived
  <1>9. QED
    BY <1>1, <1>8 DEF Scope, Retention, Replacement, OthersUntouched

\* Neither does a script's, of the hosts that stay.
LEMMA ScriptScope ==
    ASSUME IInv, NEW touched \in SUBSET Hosts, NEW introduced \in SUBSET Hosts,
           NEW removed \in SUBSET Hosts, NEW keys \in SUBSET Keys, NEW layout \in Layouts,
           EnrichScript(touched, introduced, removed, keys, layout)
    PROVE  Scope
  <1>1. did'.op = "script" /\ Scripted(entry', touched, introduced, removed)
    BY ScriptMerged DEF EnrichScript, Did
  <1>2. QED
    BY <1>1 DEF Scripted, Scope, Retention, Replacement, OthersUntouched, Derived

\* The other writes say of themselves that they are neither.
LEMMA OtherScope ==
    ASSUME did'.op \in {"group", "mark", "put", "delete", "tick"}
    PROVE  Scope
  BY DEF Scope, Retention, Replacement, OthersUntouched, Derived

-----------------------------------------------------------------------------
(* What the ages an entry reports are worth.                               *)

\* The source tells its ages truly: it is local, or its origin's status can be
\* read, the clock can represent the ages in it, and it is taken whole.
TellsItsAge ==
    ~Federated \/ (SyncMode = "replace" /\ ~StatusMayFail /\ Uptime - MaxAge >= Earliest)

\* An entry that is whole shows the instant of the last full gather; what a cold
\* sync has still to date it will not date too late.
Dated ==
    /\ (entry # NoEntry \/ owed.due) =>
          entry.ttl = Ttl /\ DOMAIN entry.stamps \subseteq DOMAIN entry.hostvars
    /\ (Settled /\ entry.complete) => gathered # Never /\ entry.fetched = gathered
    /\ owed.due => \A h \in DOMAIN owed.ages \cap DOMAIN entry.hostvars :
                      Backdate(now, owed.ages[h]) <= entry.hostvars[h].at

\* The ages of a source that tells them are representable, and are what a
\* scoped sync states.
LEMMA TrueAges ==
    ASSUME IInv, TellsItsAge, NEW got \in SUBSET Hosts, NEW ages \in Ages(got),
           NEW age \in IF Federated THEN 0 .. MaxAge ELSE {0},
           NEW reported \in Reports(ages, age)
    PROVE  /\ \A h \in got : /\ Stated(got, reported)[h] = ages[h] /\ ages[h] \in Nat
                             /\ Representable(now, ages[h])
                             /\ Backdate(now, ages[h]) = now - ages[h]
           /\ DOMAIN ages = got /\ Representable(now, age) /\ age \in Nat
           /\ reported.some <=> Federated
           /\ Federated => reported.age = age /\ reported.hosts = ages /\ SyncMode = "replace"
           /\ ~Federated => age = 0
  <1>1. now \in Int /\ now >= Earliest /\ Earliest \in Int /\ MaxAge \in Nat
    BY Context
  <1>2. now >= Uptime /\ Uptime \in Int
    BY ApplyToCacheAssumption, CacheEntryAssumption DEF IInv
  <1>3. CASE Federated
    <2>1. SyncMode = "replace" /\ ~StatusMayFail /\ Uptime - MaxAge >= Earliest
      BY <1>3 DEF TellsItsAge
    <2>2. reported = [some |-> TRUE, age |-> age, hosts |-> ages]
      BY <1>3, <2>1 DEF Reports
    <2>3. DOMAIN ages = got /\ age \in 0 .. MaxAge /\ \A h \in got : ages[h] \in 0 .. MaxAge
      BY <1>3 DEF Ages
    <2>4. Representable(now, age) /\ \A h \in got : Representable(now, ages[h])
      BY <1>1, <1>2, <2>1, <2>3 DEF Representable
    <2>5. \A h \in got : Stated(got, reported)[h] = ages[h]
      BY <2>2, <2>3 DEF Stated
    <2>6. \A h \in got : Backdate(now, ages[h]) = now - ages[h] /\ ages[h] \in Nat
      BY <1>1, <2>3, <2>4 DEF Backdate
    <2>7. age \in Nat /\ reported.some /\ reported.age = age /\ reported.hosts = ages
      BY <1>1, <2>2, <2>3
    <2>8. QED
      BY <1>3, <2>1, <2>3, <2>4, <2>5, <2>6, <2>7
  <1>4. CASE ~Federated
    <2>1. reported = Silent /\ age = 0
      BY <1>4 DEF Reports
    <2>2. DOMAIN ages = got /\ \A h \in got : ages[h] = 0
      BY <1>4 DEF Ages, Const
    <2>3. ~reported.some /\ DOMAIN reported.hosts = {}
      BY <2>1 DEF Silent
    <2>4. \A h \in got : Stated(got, reported)[h] = 0
      BY <2>3 DEF Stated
    <2>5. Representable(now, 0) /\ Backdate(now, 0) = now - 0
      BY <1>1 DEF Representable, Backdate
    <2>6. QED
      BY <1>4, <2>1, <2>2, <2>3, <2>4, <2>5
  <1>5. QED
    BY <1>3, <1>4

\* What a full sync leaves says when it was gathered, and dates what it
\* returned as the source did.
LEMMA FullSyncDated ==
    ASSUME IInv, TellsItsAge, Dated,
           NEW got \in SUBSET Hosts, NEW layout \in Layouts, NEW ages \in Ages(got),
           NEW age \in IF Federated THEN 0 .. MaxAge ELSE {0},
           NEW reported \in Reports(ages, age), NEW unreachable,
           Federated => unreachable = {},
           FullSync(got, ages, layout, age, reported, unreachable)
    PROVE  Dated' /\ OriginDates
  <1> DEFINE d == add_group_members(Returned(got, ages, layout), now - age)
             lost == unreachable \ DOMAIN d.hostvars
             e == Replaced(d, reported)
  <1>1. /\ \A h \in got : ages[h] \in Nat /\ Representable(now, ages[h])
        /\ DOMAIN ages = got /\ Representable(now, age) /\ age \in Nat
        /\ reported.some <=> Federated
        /\ Federated => reported.age = age /\ reported.hosts = ages /\ SyncMode = "replace"
        /\ ~Federated => age = 0
    BY TrueAges
  <1>2. now \in Int /\ now >= Earliest /\ Ttl \in Nat /\ SyncMode \in {"replace", "merge"}
    BY Context
  <1>3. /\ ~owed.due /\ gathered' = now - age /\ UNCHANGED <<now, owed>>
        /\ entry' = IF SyncMode = "replace" /\ unreachable = {} THEN e
                    ELSE IF entry = NoEntry THEN NewEntry(d, Ttl, now)
                    ELSE IF SyncMode = "replace" THEN RestoreHosts(e, entry, lost, now)
                    ELSE MarkGathered(MergeDataset(SetTtl(entry, Ttl), d, now), now)
        /\ did'.op = "full" /\ did'.hosts = DOMAIN d.hostvars
    BY DEF FullSync, Did
  <1>4. /\ IsData(d) /\ got \subseteq DOMAIN d.hostvars
        /\ \A h \in got : d.hostvars[h].at = now - ages[h]
        /\ Current(d.hostvars, now, Federated)
    BY <1>1, FullData
  <1>5. Kept(entry', now, Federated)
    BY FullSyncKept
  <1> HIDE DEF d
  <1>6. /\ entry'.ttl = Ttl /\ entry'.fetched = now - age
        /\ DOMAIN entry'.stamps \subseteq DOMAIN entry'.hostvars
        /\ \A h \in DOMAIN d.hostvars \cap DOMAIN entry'.stamps :
              entry'.stamps[h] <= entry'.hostvars[h].at
    <2>1. CASE Federated
      <3>1. entry' = Restore(d, Ttl, age, ages, now)
        BY <1>1, <1>3, <2>1 DEF Replaced
      <3>2. /\ entry'.ttl = Ttl /\ entry'.fetched = now - age /\ entry'.hostvars = d.hostvars
            /\ DOMAIN entry'.stamps = got
            /\ \A h \in got : entry'.stamps[h] = now - ages[h]
        BY <1>1, <3>1 DEF Restore
      <3>3. QED
        BY <1>1, <1>2, <1>4, <3>2
    <2>2. CASE ~Federated
      <3>1. Covered(entry') /\ Honest(entry')
        BY <1>5, <2>2 DEF Kept
      <3>2. e = NewEntry(d, Ttl, now) /\ now - age = now
        BY <1>1, <1>2, <2>2 DEF Replaced
      <3>3. IsEntry(e) /\ e.ttl = Ttl /\ e.fetched = now
        BY <1>2, <1>4, <3>2, EntryMade DEF NewEntry
      <3> HIDE DEF e
      <3>4. entry'.ttl = Ttl /\ entry'.fetched = now
        <4>1. CASE entry' = e
          BY <3>3, <4>1
        <4>2. CASE entry # NoEntry /\ entry' = RestoreHosts(e, entry, lost, now)
          <5> DEFINE r == RestoreHosts(e, entry, lost, now)
          <5>1. IsEntry(entry) /\ Instants(entry, now)
            BY <4>2 DEF IInv, Kept
          <5>2. r.fetched = e.fetched /\ r.ttl = e.ttl
            BY <1>2, <3>3, <5>1, HostsRestored
          <5>3. QED
            BY <3>3, <4>2, <5>2
        <4>3. CASE /\ entry # NoEntry
                   /\ entry' = MarkGathered(MergeDataset(SetTtl(entry, Ttl), d, now), now)
          BY <4>3 DEF IInv, Kept, IsEntry, SetTtl, MergeDataset, MergeInto, MarkGathered
        <4>4. QED
          BY <1>3, <3>2, <4>1, <4>2, <4>3
      <3>5. QED
        BY <3>1, <3>2, <3>4 DEF Covered, Honest
    <2>3. QED
      BY <2>1, <2>2
  <1>7. gathered' # Never
    BY <1>1, <1>2, <1>3, ApplyToCacheAssumption
  <1>8. Dated'
    BY <1>3, <1>6, <1>7 DEF Dated
  <1>9. OriginDates
    BY <1>3, <1>6 DEF OriginDates
  <1>10. QED
    BY <1>8, <1>9

\* A sync that finds nothing cached.
LEMMA ColdDated ==
    ASSUME IInv, NEW d, UNCHANGED <<now, gathered>>, entry' = NewEntry(d, Ttl, now),
           owed'.due = TRUE,
           \A h \in DOMAIN owed'.ages \cap DOMAIN d.hostvars :
              Backdate(now, owed'.ages[h]) <= d.hostvars[h].at
    PROVE  Dated' /\ OriginDates
  <1>1. /\ entry'.hostvars = d.hostvars /\ entry'.ttl = Ttl
        /\ DOMAIN entry'.stamps = DOMAIN d.hostvars
    BY DEF NewEntry, Const
  <1>2. Dated'
    BY <1>1 DEF Dated, Settled
  <1>3. QED
    BY <1>2 DEF OriginDates

\* A sync of hosts dates those it updates as the source did.
LEMMA HostSyncDated ==
    ASSUME IInv, TellsItsAge, Dated,
           NEW got \in SUBSET Hosts, NEW layout \in Layouts, NEW ages \in Ages(got),
           NEW age \in IF Federated THEN 0 .. MaxAge ELSE {0},
           NEW reported \in Reports(ages, age), NEW requested \in SUBSET Hosts,
           HostSync(requested, got, ages, layout, Stated(got, reported))
    PROVE  Dated' /\ OriginDates
  <1> DEFINE d == Returned(got, ages, layout)
             stated == Stated(got, reported)
             updates == requested \cap DOMAIN d.hostvars
             w == ScopedWrite(entry, requested, d, stated)
  <1>1. \A h \in got : /\ stated[h] = ages[h] /\ ages[h] \in Nat
                       /\ Backdate(now, ages[h]) = now - ages[h]
    BY TrueAges
  <1>2. IsData(d) /\ DOMAIN d.hostvars = got /\ \A h \in got : d.hostvars[h].at = now - ages[h]
    BY ReturnedData
  <1>3. /\ did'.op = "host" /\ did'.hosts = updates /\ UNCHANGED <<now, gathered>> /\ ~owed.due
        /\ entry = NoEntry => /\ entry' = NewEntry(d, Ttl, now)
                              /\ owed' = [due |-> TRUE, ages |-> [h \in updates |-> stated[h]]]
        /\ entry # NoEntry => entry' = w /\ UNCHANGED owed
    BY <1>2 DEF HostSync, Did
  <1> HIDE DEF d, stated
  <1>4. now \in Int /\ now >= Earliest
    BY Context
  <1>5. \A h \in updates : /\ stated[h] \in Nat
                           /\ Backdate(now, stated[h]) <= d.hostvars[h].at
    BY <1>1, <1>2, <1>4
  <1>6. CASE entry = NoEntry
    <2>1. /\ owed'.due = TRUE /\ DOMAIN owed'.ages = updates
          /\ \A h \in updates : owed'.ages[h] = stated[h]
      BY <1>3, <1>6
    <2> HIDE DEF updates
    <2>2. QED
      BY <1>3, <1>5, <1>6, <2>1, ColdDated
  <1>7. CASE entry # NoEntry
    <2>1. Synced(w, entry, d, updates, stated)
      <3>1. IsEntry(entry)
        BY <1>7 DEF IInv, Kept
      <3>2. QED
        BY <1>2, <1>4, <1>5, <3>1, HostsSynced
    <2> HIDE DEF w, updates
    <2>2. DOMAIN w.stamps \subseteq DOMAIN w.hostvars
      BY <1>7, <2>1 DEF Dated, Synced
    <2>3. \A h \in updates : w.stamps[h] <= w.hostvars[h].at
      BY <1>5, <2>1 DEF Synced
    <2>4. Dated'
      BY <1>3, <1>7, <2>1, <2>2 DEF Dated, Synced, Settled
    <2>5. OriginDates
      BY <1>3, <1>7, <2>3 DEF OriginDates
    <2>6. QED
      BY <2>4, <2>5
  <1>8. QED
    BY <1>6, <1>7

\* A sync of a group moves neither the clock of the entry nor its limit.
LEMMA GroupSyncDated ==
    ASSUME IInv, TellsItsAge, Dated,
           NEW got \in SUBSET Hosts, NEW layout \in Layouts, NEW ages \in Ages(got),
           NEW group, GroupSync(group, got, ages, layout)
    PROVE  Dated' /\ OriginDates
  <1> DEFINE d == Returned(got, ages, layout)
             timed == SetTtl(entry, Ttl)
             u == UpdateGroup(timed, group, d, now)
             members == IF group \in DOMAIN timed.groups
                        THEN timed.groups[group].hosts \cap DOMAIN d.hostvars ELSE {}
  <1>1. IsData(d)
    BY ReturnedData
  <1>2. /\ ~owed.due /\ UNCHANGED <<now, gathered>> /\ did'.op = "group"
        /\ entry = NoEntry => /\ entry' = NewEntry(d, Ttl, now)
                              /\ owed' = [NothingOwed EXCEPT !.due = TRUE]
        /\ entry # NoEntry => entry' = u /\ UNCHANGED owed
    BY DEF GroupSync, Did
  <1> HIDE DEF d
  <1>3. CASE entry = NoEntry
    <2>1. owed'.due = TRUE /\ owed'.ages = <<>>
      BY <1>2, <1>3 DEF NothingOwed
    <2>2. DOMAIN owed'.ages = {}
      BY <2>1
    <2>3. QED
      BY <1>2, <1>3, <2>1, <2>2, ColdDated
  <1>4. CASE entry # NoEntry
    <2>1. now \in Int /\ Ttl \in Nat
      BY Context
    <2>2. /\ timed.hostvars = entry.hostvars /\ timed.stamps = entry.stamps
          /\ timed.fetched = entry.fetched /\ timed.ttl = Ttl
          /\ timed.complete = entry.complete /\ IsEntry(timed)
      BY <1>4, <2>1 DEF SetTtl, IInv, Kept, IsEntry
    <2> HIDE DEF timed
    <2>3. Updated(u, timed, d, members, now)
      BY <1>1, <2>1, <2>2, GroupUpdated
    <2> HIDE DEF u, members
    <2>4. Dated'
      BY <1>2, <1>4, <2>2, <2>3 DEF Updated, Dated, Settled
    <2>5. QED
      BY <1>2, <2>4 DEF OriginDates
  <1>5. QED
    BY <1>3, <1>4

\* The second half of a cold sync dates its hosts as the source did.
LEMMA FinishDated ==
    ASSUME IInv, TellsItsAge, Dated, FinishColdSync
    PROVE  Dated' /\ OriginDates
  <1> DEFINE here == DOMAIN owed.ages \cap DOMAIN entry.hostvars
             vars0 == [h \in here |-> entry.hostvars[h]]
             ages == owed.ages
             u == UpdateHostsAged(entry, vars0, ages, now)
             dates == [h \in DOMAIN vars0 |-> Backdate(now, ages[h])]
  <1>1. /\ owed.due /\ entry' = MarkPartial(u) /\ owed' = NothingOwed /\ UNCHANGED <<now, gathered>>
        /\ did'.op = "mark" /\ did'.hosts = DOMAIN ages
    BY DEF FinishColdSync, Did
  <1>2. IsEntry(entry)
    BY <1>1 DEF IInv, Kept
  <1>3. /\ u.hostvars = Extend(entry.hostvars, vars0) /\ u.stamps = Extend(entry.stamps, dates)
        /\ u.ttl = entry.ttl /\ DOMAIN u = DOMAIN entry
    BY <1>2 DEF UpdateHostsAged, IsEntry
  <1>4. /\ entry'.hostvars = u.hostvars /\ entry'.stamps = u.stamps
        /\ entry'.ttl = u.ttl /\ entry'.complete = FALSE
    BY <1>1, <1>2, <1>3 DEF MarkPartial, IsEntry
  <1>5. DOMAIN dates = here /\ \A h \in here : dates[h] = Backdate(now, ages[h])
    OBVIOUS
  <1>6. /\ DOMAIN vars0 = here /\ \A h \in here : vars0[h] = entry.hostvars[h]
    OBVIOUS
  <1> HIDE DEF vars0, dates, u
  <1>7. /\ DOMAIN u.hostvars = DOMAIN entry.hostvars
        /\ \A h \in DOMAIN entry.hostvars : u.hostvars[h] = entry.hostvars[h]
    <2>1. /\ DOMAIN Extend(entry.hostvars, vars0) = DOMAIN entry.hostvars \cup DOMAIN vars0
          /\ \A k \in DOMAIN vars0 : Extend(entry.hostvars, vars0)[k] = vars0[k]
          /\ \A k \in DOMAIN entry.hostvars \ DOMAIN vars0 :
                Extend(entry.hostvars, vars0)[k] = entry.hostvars[k]
      BY Extended
    <2>2. QED
      BY <1>3, <1>6, <2>1
  <1>8. /\ DOMAIN u.stamps = DOMAIN entry.stamps \cup here
        /\ \A h \in here : u.stamps[h] = Backdate(now, ages[h])
    <2>1. /\ DOMAIN Extend(entry.stamps, dates) = DOMAIN entry.stamps \cup DOMAIN dates
          /\ \A k \in DOMAIN dates : Extend(entry.stamps, dates)[k] = dates[k]
      BY Extended
    <2>2. QED
      BY <1>3, <1>5, <2>1
  <1>9. /\ entry.ttl = Ttl /\ DOMAIN entry.stamps \subseteq DOMAIN entry.hostvars
        /\ \A h \in here : Backdate(now, ages[h]) <= entry.hostvars[h].at
    BY <1>1 DEF Dated
  <1>10. DOMAIN entry'.stamps \subseteq DOMAIN entry'.hostvars
    BY <1>4, <1>7, <1>8, <1>9
  <1>11. ~owed'.due
    BY <1>1 DEF NothingOwed
  <1>12. Dated'
    BY <1>3, <1>4, <1>9, <1>10, <1>11 DEF Dated, Settled
  <1>13. OriginDates
    <2> SUFFICES ASSUME NEW h \in DOMAIN ages \cap DOMAIN entry'.stamps
                 PROVE  entry'.stamps[h] <= entry'.hostvars[h].at
      BY <1>1 DEF OriginDates
    <2>1. h \in here
      BY <1>4, <1>7, <1>10
    <2>2. QED
      BY <1>4, <1>7, <1>8, <1>9, <2>1
  <1>14. QED
    BY <1>12, <1>13

\* The other writes move neither the clock of the entry nor its limit, and
\* make no host older that has still to be dated.
LEMMA OtherDated ==
    ASSUME Dated, UNCHANGED <<now, owed, gathered>>, entry # NoEntry,
           entry'.ttl = entry.ttl, entry'.fetched = entry.fetched,
           entry'.complete = entry.complete,
           DOMAIN entry'.stamps \subseteq DOMAIN entry'.hostvars,
           owed.due => \A h \in DOMAIN owed.ages \cap DOMAIN entry'.hostvars :
              Backdate(now, owed.ages[h]) <= entry'.hostvars[h].at
    PROVE  Dated'
  BY DEF Dated, Settled

\* A host put by hand is of this instant.
LEMMA PutDated ==
    ASSUME IInv, Dated, NEW host \in Hosts, PutHost(host)
    PROVE  Dated' /\ OriginDates
  <1> DEFINE vars0 == Const({host}, [at |-> now, keys |-> {}])
             ages == Const({host}, 0)
             dates == [h \in DOMAIN vars0 |-> Backdate(now, ages[h])]
             u == UpdateHostsAged(entry, vars0, ages, now)
  <1>1. entry # NoEntry /\ entry' = u /\ UNCHANGED <<now, owed, gathered>> /\ did'.op = "put"
    BY DEF PutHost, Did
  <1>2. IsEntry(entry) /\ now \in Int /\ now >= Earliest
    BY <1>1, Context DEF IInv, Kept
  <1>3. /\ u.hostvars = Extend(entry.hostvars, vars0) /\ u.stamps = Extend(entry.stamps, dates)
        /\ u.ttl = entry.ttl /\ u.fetched = entry.fetched /\ u.complete = entry.complete
    BY <1>2 DEF UpdateHostsAged, IsEntry
  <1>4. DOMAIN vars0 = {host} /\ vars0[host].at = now /\ DOMAIN dates = {host}
    BY DEF Const
  <1> HIDE DEF vars0, dates, u
  <1>5. /\ DOMAIN u.hostvars = DOMAIN entry.hostvars \cup {host}
        /\ u.hostvars[host].at = now
        /\ \A h \in DOMAIN entry.hostvars \ {host} : u.hostvars[h] = entry.hostvars[h]
    <2>1. /\ DOMAIN Extend(entry.hostvars, vars0) = DOMAIN entry.hostvars \cup DOMAIN vars0
          /\ \A k \in DOMAIN vars0 : Extend(entry.hostvars, vars0)[k] = vars0[k]
          /\ \A k \in DOMAIN entry.hostvars \ DOMAIN vars0 :
                Extend(entry.hostvars, vars0)[k] = entry.hostvars[k]
      BY Extended
    <2>2. QED
      BY <1>3, <1>4, <2>1
  <1>6. DOMAIN u.stamps = DOMAIN entry.stamps \cup {host}
    <2>1. DOMAIN Extend(entry.stamps, dates) = DOMAIN entry.stamps \cup DOMAIN dates
      BY DEF Extend
    <2>2. QED
      BY <1>3, <1>4, <2>1
  <1>7. DOMAIN u.stamps \subseteq DOMAIN u.hostvars
    BY <1>1, <1>5, <1>6 DEF Dated
  <1>8. ASSUME owed.due, NEW h \in DOMAIN owed.ages \cap DOMAIN u.hostvars
        PROVE  Backdate(now, owed.ages[h]) <= u.hostvars[h].at
    <2>1. owed.ages[h] \in Nat
      BY DEF IInv, Owing
    <2>2. Backdate(now, owed.ages[h]) \in Earliest .. now
      BY <1>2, <2>1, Backdated
    <2>3. CASE h = host
      BY <1>5, <2>2, <2>3
    <2>4. CASE h # host
      BY <1>5, <1>8, <2>4 DEF Dated
    <2>5. QED
      BY <2>3, <2>4
  <1>9. Dated'
    BY <1>1, <1>3, <1>7, <1>8, OtherDated
  <1>10. QED
    BY <1>1, <1>9 DEF OriginDates

\* A host deleted by hand is owed no date.
LEMMA DeleteDated ==
    ASSUME IInv, Dated, NEW host \in Hosts, DeleteHost(host)
    PROVE  Dated' /\ OriginDates
  <1> DEFINE u == RemoveHost(entry, host)
  <1>1. entry # NoEntry /\ entry' = u /\ UNCHANGED <<now, owed, gathered>> /\ did'.op = "delete"
    BY DEF DeleteHost, Did
  <1>2. IsEntry(entry)
    BY <1>1 DEF IInv, Kept
  <1>3. /\ u.fetched = entry.fetched /\ u.ttl = entry.ttl /\ u.complete = entry.complete
        /\ DOMAIN u.hostvars = DOMAIN entry.hostvars \ {host}
        /\ \A h \in DOMAIN u.hostvars : u.hostvars[h] = entry.hostvars[h]
        /\ DOMAIN u.stamps = DOMAIN entry.stamps \ {host}
    BY <1>2, HostRemoved
  <1> HIDE DEF u
  <1>4. DOMAIN u.stamps \subseteq DOMAIN u.hostvars
    BY <1>1, <1>3 DEF Dated
  <1>5. ASSUME owed.due, NEW h \in DOMAIN owed.ages \cap DOMAIN u.hostvars
        PROVE  Backdate(now, owed.ages[h]) <= u.hostvars[h].at
    BY <1>3, <1>5 DEF Dated
  <1>6. Dated'
    BY <1>1, <1>3, <1>4, <1>5, OtherDated
  <1>7. QED
    BY <1>1, <1>6 DEF OriginDates

\* Keys that are added date nothing.
LEMMA FieldsDated ==
    ASSUME IInv, Dated, NEW hosts \in SUBSET Hosts, NEW group \in Groups,
           NEW keys \in SUBSET Keys, EnrichFields(hosts, group, keys)
    PROVE  Dated' /\ OriginDates
  <1>1. /\ entry # NoEntry /\ UNCHANGED <<now, owed, gathered>> /\ did'.op = "fields"
    BY DEF EnrichFields, Did
  <1>2. IsEntry(entry) /\ OfHosts(entry.hostvars)
    BY <1>1, EntryFields DEF IInv, Kept
  <1>3. /\ entry'.fetched = entry.fetched /\ entry'.ttl = entry.ttl
        /\ entry'.complete = entry.complete /\ entry'.stamps = entry.stamps
        /\ DOMAIN entry'.hostvars = DOMAIN entry.hostvars
    BY <1>2 DEF EnrichFields, MergeHostvarFields, MergeGroupVarFields, IsEntry
  <1>4. \A h \in DOMAIN entry.hostvars : entry'.hostvars[h].at = entry.hostvars[h].at
    <2> DEFINE v == MergeGroupVarFields(entry, Const({group},
                       [hosts |-> IF is_meta_group(group) THEN DOMAIN entry.hostvars ELSE {},
                        vars |-> keys]))
    <2>1. entry' = MergeHostvarFields(v, Const(hosts, keys))
      BY DEF EnrichFields
    <2>2. v.hostvars = entry.hostvars /\ DOMAIN v = DOMAIN entry
      BY <1>2 DEF MergeGroupVarFields, IsEntry
    <2> HIDE DEF v
    <2> DEFINE fields == Const(hosts, keys)
    <2>3. \A h \in DOMAIN entry.hostvars :
             entry'.hostvars[h] = IF h \in DOMAIN fields
                                  THEN [entry.hostvars[h] EXCEPT !.keys = @ \cup fields[h]]
                                  ELSE entry.hostvars[h]
      BY <1>2, <2>1, <2>2 DEF MergeHostvarFields, IsEntry
    <2>4. QED
      BY <1>2, <2>3 DEF OfHosts, HostVars
  <1>5. DOMAIN entry'.stamps \subseteq DOMAIN entry'.hostvars
    BY <1>1, <1>3 DEF Dated
  <1>6. ASSUME owed.due, NEW h \in DOMAIN owed.ages \cap DOMAIN entry'.hostvars
        PROVE  Backdate(now, owed.ages[h]) <= entry'.hostvars[h].at
    BY <1>3, <1>4, <1>6 DEF Dated
  <1>7. Dated'
    BY <1>1, <1>3, <1>5, <1>6, OtherDated
  <1>8. QED
    BY <1>1, <1>7 DEF OriginDates

\* A script introduces hosts of this instant and dates no other.
LEMMA ScriptDated ==
    ASSUME IInv, Dated, NEW touched \in SUBSET Hosts, NEW introduced \in SUBSET Hosts,
           NEW removed \in SUBSET Hosts, NEW keys \in SUBSET Keys, NEW layout \in Layouts,
           EnrichScript(touched, introduced, removed, keys, layout)
    PROVE  Dated' /\ OriginDates
  <1>1. /\ entry # NoEntry /\ UNCHANGED <<now, owed, gathered>> /\ did'.op = "script"
        /\ touched \subseteq DOMAIN entry.hostvars
    BY DEF EnrichScript, Did
  <1>2. Scripted(entry', touched, introduced, removed)
    BY ScriptMerged
  <1>3. DOMAIN entry'.stamps \subseteq DOMAIN entry'.hostvars
    BY <1>1, <1>2 DEF Scripted, Dated
  <1>4. ASSUME owed.due, NEW h \in DOMAIN owed.ages \cap DOMAIN entry'.hostvars
        PROVE  Backdate(now, owed.ages[h]) <= entry'.hostvars[h].at
    <2>1. owed.ages[h] \in Nat /\ now \in Int /\ now >= Earliest
      BY Context DEF IInv, Owing
    <2>2. Backdate(now, owed.ages[h]) \in Earliest .. now
      BY <2>1, Backdated
    <2>3. CASE h \in introduced
      BY <1>2, <2>1, <2>2, <2>3 DEF Scripted
    <2>4. CASE h \notin introduced
      BY <1>2, <1>4, <2>4 DEF Scripted, Dated
    <2>5. QED
      BY <2>3, <2>4
  <1>5. Dated'
    BY <1>1, <1>2, <1>3, <1>4, OtherDated DEF Scripted
  <1>6. QED
    BY <1>1, <1>5 DEF OriginDates

\* Time passes when nothing is owed.
LEMMA TickDated ==
    ASSUME Dated, Tick
    PROVE  Dated' /\ OriginDates
  BY DEF Tick, Did, Dated, Settled, OriginDates


-----------------------------------------------------------------------------
(* Every step.                                                             *)

\* A sync, whatever it was about and whatever came back.
LEMMA SyncSteps ==
    ASSUME IInv, Sync
    PROVE  /\ UNCHANGED source => IInv'
           /\ Scope
           /\ (TellsItsAge /\ Dated) => Dated' /\ OriginDates
  <1>1. PICK got \in SUBSET Hosts, layout \in Layouts :
        \E ages \in Ages(got), age \in (IF Federated THEN 0 .. MaxAge ELSE {0}) :
        \E reported \in Reports(ages, age) :
            \/ \E unreachable \in (IF Federated THEN {{}} ELSE SUBSET Hosts) :
                  FullSync(got, ages, layout, age, reported, unreachable)
            \/ \E requested \in SUBSET Hosts :
                  /\ Federated => got \subseteq requested
                  /\ HostSync(requested, got, ages, layout, Stated(got, reported))
            \/ \E g \in Groups : GroupSync(g, got, ages, layout)
    BY DEF Sync
  <1>2. PICK ages \in Ages(got), age \in (IF Federated THEN 0 .. MaxAge ELSE {0}) :
        \E reported \in Reports(ages, age) :
            \/ \E unreachable \in (IF Federated THEN {{}} ELSE SUBSET Hosts) :
                  FullSync(got, ages, layout, age, reported, unreachable)
            \/ \E requested \in SUBSET Hosts :
                  /\ Federated => got \subseteq requested
                  /\ HostSync(requested, got, ages, layout, Stated(got, reported))
            \/ \E g \in Groups : GroupSync(g, got, ages, layout)
    BY <1>1
  <1>3. PICK reported \in Reports(ages, age) :
            \/ \E unreachable \in (IF Federated THEN {{}} ELSE SUBSET Hosts) :
                  FullSync(got, ages, layout, age, reported, unreachable)
            \/ \E requested \in SUBSET Hosts :
                  /\ Federated => got \subseteq requested
                  /\ HostSync(requested, got, ages, layout, Stated(got, reported))
            \/ \E g \in Groups : GroupSync(g, got, ages, layout)
    BY <1>2
  <1> DEFINE Goal == /\ UNCHANGED source => IInv'
                     /\ Scope
                     /\ (TellsItsAge /\ Dated) => Dated' /\ OriginDates
  <1>4. ASSUME NEW unreachable \in (IF Federated THEN {{}} ELSE SUBSET Hosts),
               FullSync(got, ages, layout, age, reported, unreachable)
        PROVE  Goal
    <2>1. Federated => unreachable = {}
      OBVIOUS
    <2>2. QED
      BY <1>4, <2>1, FullSyncInvariant, FullSyncScope, FullSyncDated
  <1>5. ASSUME NEW requested \in SUBSET Hosts,
               HostSync(requested, got, ages, layout, Stated(got, reported))
        PROVE  Goal
    BY <1>5, HostSyncInvariant, HostSyncScope, HostSyncDated
  <1>6. ASSUME NEW g \in Groups, GroupSync(g, got, ages, layout)
        PROVE  Goal
    <2>1. did'.op = "group"
      BY <1>6 DEF GroupSync, Did
    <2>2. QED
      BY <1>6, <2>1, GroupSyncInvariant, OtherScope, GroupSyncDated
  <1> HIDE DEF Goal
  <1>7. Goal
    BY <1>3, <1>4, <1>5, <1>6
  <1>8. QED
    BY <1>7 DEF Goal

\* Every step keeps the invariant.
LEMMA NextInvariant ==
    ASSUME IInv, [Next]_vars
    PROVE  IInv'
  <1>1. CASE UNCHANGED vars
    BY <1>1 DEF vars, IInv, Owing, Federated, SyncMode
  <1>2. CASE Sync /\ UNCHANGED source
    BY <1>2, SyncSteps
  <1>3. CASE FinishColdSync /\ UNCHANGED source
    BY <1>3, FinishInvariant
  <1>4. ASSUME NEW h \in Hosts, PutHost(h) \/ DeleteHost(h), UNCHANGED source
        PROVE  IInv'
    BY <1>4, PutInvariant, DeleteInvariant
  <1>5. ASSUME NEW hosts \in SUBSET Hosts, NEW group \in Groups, NEW keys \in SUBSET Keys \ {{}},
               EnrichFields(hosts, group, keys), UNCHANGED source
        PROVE  IInv'
    BY <1>5, FieldsInvariant
  <1>6. ASSUME NEW touched \in SUBSET Hosts, NEW introduced \in SUBSET Hosts,
               NEW removed \in SUBSET Hosts, NEW keys \in SUBSET Keys \ {{}},
               NEW layout \in Layouts,
               EnrichScript(touched, introduced, removed, keys, layout), UNCHANGED source
        PROVE  IInv'
    BY <1>6, ScriptInvariant
  <1>7. CASE Tick /\ UNCHANGED source
    BY <1>7, TickInvariant
  <1>8. QED
    BY <1>1, <1>2, <1>3, <1>4, <1>5, <1>6, <1>7 DEF Next, Write

\* Every step is in scope.
LEMMA NextScope ==
    ASSUME IInv, Next
    PROVE  Scope
  <1>1. CASE Sync
    BY <1>1, SyncSteps
  <1>2. CASE FinishColdSync \/ Tick
    <2>1. did'.op \in {"mark", "tick"}
      BY <1>2 DEF FinishColdSync, Tick, Did
    <2>2. QED
      BY <2>1, OtherScope
  <1>3. ASSUME NEW h \in Hosts, PutHost(h) \/ DeleteHost(h)
        PROVE  Scope
    <2>1. did'.op \in {"put", "delete"}
      BY <1>3 DEF PutHost, DeleteHost, Did
    <2>2. QED
      BY <2>1, OtherScope
  <1>4. ASSUME NEW hosts \in SUBSET Hosts, NEW group \in Groups, NEW keys \in SUBSET Keys \ {{}},
               EnrichFields(hosts, group, keys)
        PROVE  Scope
    BY <1>4, FieldsScope
  <1>5. ASSUME NEW touched \in SUBSET Hosts, NEW introduced \in SUBSET Hosts,
               NEW removed \in SUBSET Hosts, NEW keys \in SUBSET Keys \ {{}},
               NEW layout \in Layouts,
               EnrichScript(touched, introduced, removed, keys, layout)
        PROVE  Scope
    BY <1>5, ScriptScope
  <1>6. QED
    BY <1>1, <1>2, <1>3, <1>4, <1>5 DEF Next, Write

\* Every step of a source that tells its age keeps its dates true.
LEMMA NextDated ==
    ASSUME IInv, TellsItsAge, Dated, Next
    PROVE  Dated' /\ OriginDates
  <1>1. CASE Sync
    BY <1>1, SyncSteps
  <1>2. CASE FinishColdSync
    BY <1>2, FinishDated
  <1>3. CASE Tick
    BY <1>3, TickDated
  <1>4. ASSUME NEW h \in Hosts, PutHost(h) \/ DeleteHost(h)
        PROVE  Dated' /\ OriginDates
    BY <1>4, PutDated, DeleteDated
  <1>5. ASSUME NEW hosts \in SUBSET Hosts, NEW group \in Groups, NEW keys \in SUBSET Keys \ {{}},
               EnrichFields(hosts, group, keys)
        PROVE  Dated' /\ OriginDates
    BY <1>5, FieldsDated
  <1>6. ASSUME NEW touched \in SUBSET Hosts, NEW introduced \in SUBSET Hosts,
               NEW removed \in SUBSET Hosts, NEW keys \in SUBSET Keys \ {{}},
               NEW layout \in Layouts,
               EnrichScript(touched, introduced, removed, keys, layout)
        PROVE  Dated' /\ OriginDates
    BY <1>6, ScriptDated
  <1>7. QED
    BY <1>1, <1>2, <1>3, <1>4, <1>5, <1>6 DEF Next, Write

-----------------------------------------------------------------------------
(* The theorems.                                                           *)

\* The invariant holds of every state: the entry is as entries are kept, and
\* a cold sync that is not finished is on data gathered at this instant.
THEOREM EntryInvariant == Spec => []IInv
  <1>1. Init => IInv
    BY InitInvariant
  <1>2. IInv /\ [Next]_vars => IInv'
    BY NextInvariant
  <1>3. QED
    BY <1>1, <1>2, PTL DEF Spec

\* After any sequence of syncs, edits and enrichments the variables, the
\* timestamps and the groups of an entry speak of the same hosts, and no
\* clock of it shows a later instant than now.
THEOREM EntriesAreSound == Spec => []EntryIsSound
  <1>1. IInv => EntryIsSound
    <2> SUFFICES ASSUME IInv
                 PROVE  EntryIsSound
      OBVIOUS
    <2>1. entry # NoEntry => IsEntry(entry) /\ Instants(entry, now)
      BY DEF IInv, Kept
    <2>2. TypeOK
      BY <2>1, Context, CacheEntryAssumption DEF IInv, Owing, Instants, TypeOK
    <2>3. ASSUME Settled
          PROVE  StampsCoverHosts /\ GroupsNameHosts
      BY <2>3 DEF Settled, IInv, Kept, Covered, Named, StampsCoverHosts, GroupsNameHosts
    <2>4. QED
      BY <2>2, <2>3 DEF EntryIsSound, EntryIsCoherent
  <1>2. QED
    BY <1>1, EntryInvariant, PTL

\* No host of a local source is ever dated later than its variables were
\* gathered, whatever wrote, kept or enriched it.
THEOREM AgesAreHonest == Spec => []HonestAges
  <1>1. IInv => HonestAges
    BY DEF IInv, Kept, Honest, Settled, HonestAges
  <1>2. QED
    BY <1>1, EntryInvariant, PTL

\* A full sync keeps the unreachable hosts whole and no ghosts; a host sync
\* touches nobody it is not about; enrichment erases nothing and moves no
\* clock.
THEOREM WritesKeepToTheirs == Spec => WritesKeepWhatIsNotTheirs
  <1>1. IInv /\ [Next]_vars => [Retention /\ Replacement]_vars /\ [OthersUntouched /\ Derived]_vars
    BY NextScope DEF Scope
  <1>2. QED
    BY <1>1, EntryInvariant, PTL
    DEF Spec, WritesKeepWhatIsNotTheirs, OnlyTheUnreachableStay, WritesStayInScope

\* Of a source that tells its age, an entry that says it is fresh follows a full
\* gather within the TTL, and every full or host-scoped sync dates its hosts as
\* the source did.  Every local source tells its age.
THEOREM TellingSourcesAreDatedTruly ==
    Spec => /\ [](TellsItsAge => FreshIsEarned)
            /\ [][TellsItsAge => OriginDates]_vars
  <1> DEFINE DInv == TellsItsAge => Dated
  <1>1. Init => DInv
    BY DEF Init, NothingOwed, Dated, Settled
  <1>2. IInv /\ DInv /\ [Next]_vars => DInv'
    <2> SUFFICES ASSUME IInv, DInv, [Next]_vars, TellsItsAge'
                 PROVE  Dated'
      OBVIOUS
    <2>1. CASE Next
      <3>1. TellsItsAge
        BY <2>1 DEF Next, TellsItsAge, Federated, SyncMode
      <3>2. QED
        BY <2>1, <3>1, NextDated
    <2>2. CASE UNCHANGED vars
      BY <2>2 DEF vars, TellsItsAge, Federated, SyncMode, Dated, Settled
    <2>3. QED
      BY <2>1, <2>2
  <1>3. IInv /\ DInv => (TellsItsAge => FreshIsEarned)
    BY Context DEF Dated, Settled, FreshIsEarned, IsFresh
  <1>4. IInv /\ DInv /\ [Next]_vars => [TellsItsAge => OriginDates]_vars
    BY NextDated
  <1> HIDE DEF DInv
  <1>5. QED
    BY <1>1, <1>2, <1>3, <1>4, EntryInvariant, PTL DEF Spec

\* Where every federated source is taken whole, its status can be read and the
\* clock reaches back to the oldest age it reports, no host is younger than its
\* data says, a fresh entry follows a full gather within the TTL, and a sync
\* keeps the ages of the origin.
THEOREM AgesAreTold ==
    ASSUME ~StatusMayFail, Uptime - MaxAge >= Earliest,
           \A s \in Sources : s.remote => s.sync_mode = "replace"
    PROVE  Spec => AgesAreTrue
  <1>1. IInv => TellsItsAge
    BY DEF IInv, TellsItsAge, Federated, SyncMode
  <1>2. Spec => []HonestAges
    BY AgesAreHonest
  <1>3. Spec => []FreshIsEarned
    BY <1>1, EntryInvariant, TellingSourcesAreDatedTruly, PTL
  <1>4. Spec => FederatedAgesKept
    <2>1. IInv /\ [TellsItsAge => OriginDates]_vars => [OriginDates]_vars
      BY <1>1
    <2>2. QED
      BY <2>1, EntryInvariant, TellingSourcesAreDatedTruly, PTL DEF FederatedAgesKept
  <1>5. QED
    BY <1>2, <1>3, <1>4, PTL DEF AgesAreTrue
=============================================================================
